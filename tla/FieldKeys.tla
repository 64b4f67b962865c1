------------------------------ MODULE FieldKeys ------------------------------
(***************************************************************************)
(* EncryptedCharField while its keys are rotated: the first key of the     *)
(* setting encrypts, any key of it decrypts.  A pod reads the setting when  *)
(* it starts and keeps it, so during a rollout pods disagree.              *)
(***************************************************************************)
EXTENDS Integers, Sequences, SequencesExt

CONSTANTS
  Keys,    \* keys BOOKING_FIELD_ENCRYPTION_KEY may list
  Pods, Fields,
  NoKey    \* a field that holds NULL

ASSUME NoKeyIsNoKey == NoKey \notin Keys

VARIABLES
  setting,  \* BOOKING_FIELD_ENCRYPTION_KEY as deployed: keys, newest first
  loaded,   \* what each pod has of it, empty before its first start
  stored,   \* the key each field is encrypted under
  failed,   \* the pods whose last read raised, with the key it wanted
  unseen,   \* history: the pods that run since before a key was added
  hasty     \* history: the keys taken off while something still depended on them

fieldVars == <<setting, loaded, stored, failed, unseen, hasty>>

Known(keys) == Range(keys)

FieldTypeOK ==
  /\ setting \in Seq(Keys)
  /\ loaded \in [Pods -> Seq(Keys)]
  /\ stored \in [Fields -> Keys \cup {NoKey}]
  /\ failed \in [Pods -> Keys \cup {NoKey}]
  /\ unseen \in [Keys -> SUBSET Pods]
  /\ hasty \subseteq Keys

FieldInit ==
  /\ \E k \in Keys : setting = <<k>>
  /\ loaded = [p \in Pods |-> setting]
  /\ stored = [f \in Fields |-> NoKey]
  /\ failed = [p \in Pods |-> NoKey]
  /\ unseen = [k \in Keys |-> {}]
  /\ hasty = {}

EncryptsWith(p) == Head(loaded[p])

(* A slip: only the key that encrypts decrypts.                             *)
DecryptsFirst(p, k) == k = Head(loaded[p])

Decrypts(p, k) == k \in Known(loaded[p])

(* to_db_value                                                              *)
WriteField(p, f) ==
  /\ stored' = [stored EXCEPT ![f] = EncryptsWith(p)]
  /\ UNCHANGED <<setting, loaded, failed, unseen, hasty>>

(* The purge, and an identity without the field.                            *)
WriteNull(f) ==
  /\ stored' = [stored EXCEPT ![f] = NoKey]
  /\ UNCHANGED <<setting, loaded, failed, unseen, hasty>>

(* to_python_value of what the database has: None, or a token that an        *)
(* unknown key turns into a ValueError.                                     *)
ReadField(p, f) ==
  /\ failed' = [failed EXCEPT ![p] =
       IF stored[f] = NoKey \/ Decrypts(p, stored[f]) THEN NoKey ELSE stored[f]]
  /\ UNCHANGED <<setting, loaded, stored, unseen, hasty>>

-----------------------------------------------------------------------------
(* The operator.                                                            *)

(* A new key is prepended.                                                  *)
Prepend(k) ==
  /\ \A p \in Pods : k \notin Known(loaded[p])
  /\ k \notin Known(setting) /\ k \notin Range(stored)
  /\ setting' = <<k>> \o setting
  /\ unseen' = [unseen EXCEPT ![k] = Pods]
  /\ UNCHANGED <<loaded, stored, failed, hasty>>

(* A pod is replaced: the new one reads the setting.                        *)
Restart(p) ==
  /\ loaded' = [loaded EXCEPT ![p] = setting]
  /\ failed' = [failed EXCEPT ![p] = NoKey]
  /\ unseen' = [k \in Keys |-> IF k \in Known(setting) THEN unseen[k] \ {p} ELSE unseen[k]]
  /\ UNCHANGED <<setting, stored, hasty>>

(* The oldest key is taken off, wisely only when no field is encrypted under *)
(* it and no running pod would still encrypt under it.                      *)
Retire ==
  /\ Len(setting) > 1
  /\ setting' = Front(setting)
  /\ hasty' = IF Last(setting) \in Range(stored) \/ \E p \in Pods : Head(loaded[p]) = Last(setting)
              THEN hasty \cup {Last(setting)} ELSE hasty
  /\ UNCHANGED <<loaded, stored, failed, unseen>>

FieldNext ==
  \/ \E p \in Pods, f \in Fields : WriteField(p, f) \/ ReadField(p, f)
  \/ \E f \in Fields : WriteNull(f)
  \/ \E k \in Keys : Prepend(k)
  \/ \E p \in Pods : Restart(p)
  \/ Retire

FieldSpec == FieldInit /\ [][FieldNext]_fieldVars

-----------------------------------------------------------------------------
(* "Rotation is done by prepending the new key and keeping old ones for as  *)
(* long as old ciphertext must remain readable": a read fails only in a pod *)
(* that runs since before the key was added, or for a key that was taken    *)
(* off while a field or a running pod still depended on it.                 *)
RotationReadable ==
  \A p \in Pods : failed[p] # NoKey => p \in unseen[failed[p]] \/ failed[p] \in hasty
=============================================================================
