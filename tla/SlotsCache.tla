------------------------------ MODULE SlotsCache ------------------------------
(***************************************************************************)
(* GET /slots and its cache for one property: a Redis entry that lives TTL  *)
(* ticks, readers that look it up and fill it from the bookings table, and  *)
(* the writes that commit first and delete the entry afterwards.  The rows  *)
(* a reader is answered with count for the number of writes the table had   *)
(* seen; every Redis call may fail, which the code takes for a miss or      *)
(* passes over.                                                             *)
(***************************************************************************)
EXTENDS Integers, FiniteSets

CONSTANTS
  Readers,     \* GET /slots requests
  Writers,     \* POST, PATCH
  Syncs,       \* calendar syncs: several statements, one invalidation
  TTL,         \* SLOTS_TTL, in ticks
  FillMax,     \* bound: ticks between a reader's SELECT and its SETEX
  MaxVersion,  \* bound: the last write
  NoEntry

ASSUME CacheBounds == /\ TTL \in Nat \ {0} /\ FillMax \in Nat /\ MaxVersion \in Nat
                      /\ Writers \cap Syncs = {}
                      /\ NoEntry \notin [value : Int, left : Int, crossed : SUBSET Int]

Versions    == 0..MaxVersion
Bound       == TTL + FillMax
Committers  == Writers \cup Syncs
MaxStatements == 4

VARIABLES
  version,     \* the table: how many writes it has seen
  outdated,    \* how many ticks ago each version was overwritten
  entry,       \* the Redis entry, or NoEntry
  reader,      \* each GET /slots
  pending,     \* the writes each committer has made and not invalidated for
  missed,      \* history: writes no invalidation will follow
  answer       \* what each reader was last answered with

vars == <<version, outdated, entry, reader, pending, missed, answer>>

Idle == [pc |-> "idle", value |-> 0, age |-> 0, crossed |-> {}]

TypeOK ==
  /\ version \in Versions
  /\ outdated \in [Versions -> 0..Bound]
  /\ \/ entry = NoEntry
     \/ entry \in [value : 0..version, left : 1..TTL, crossed : SUBSET (1..version)]
  /\ reader \in [Readers -> [pc : {"idle", "missed", "filling"}, value : 0..version,
                             age : 0..FillMax, crossed : SUBSET (1..version)]]
  /\ pending \in [Committers -> SUBSET (1..version)]
  /\ missed \subseteq 1..version
  /\ answer \in [Readers -> 0..version]

Init ==
  /\ version = 0
  /\ outdated = [v \in Versions |-> 0]
  /\ entry = NoEntry
  /\ reader = [r \in Readers |-> Idle]
  /\ pending = [c \in Committers |-> {}]
  /\ missed = {}
  /\ answer = [r \in Readers |-> 0]

-----------------------------------------------------------------------------
(* GET /slots.                                                              *)

(* An entry of no windows at all is a hit too: the text "[]" is not empty.  *)
Hit(r) ==
  /\ reader[r].pc = "idle"
  /\ entry # NoEntry
  /\ answer' = [answer EXCEPT ![r] = entry.value]
  /\ UNCHANGED <<version, outdated, entry, reader, pending, missed>>

(* Nothing there, or Redis raises: both return None.                        *)
Miss(r) ==
  /\ reader[r].pc = "idle"
  /\ reader' = [reader EXCEPT ![r].pc = "missed"]
  /\ UNCHANGED <<version, outdated, entry, pending, missed, answer>>

Select(r) ==
  /\ reader[r].pc = "missed"
  /\ reader' = [reader EXCEPT ![r] = [Idle EXCEPT !.pc = "filling", !.value = version]]
  /\ UNCHANGED <<version, outdated, entry, pending, missed, answer>>

Filled(r) == [value |-> reader[r].value, left |-> TTL, crossed |-> reader[r].crossed]

(* A request that dies here answers nobody; one whose SETEX fails answers   *)
(* all the same.                                                            *)
Store(r) ==
  /\ reader[r].pc = "filling"
  /\ entry' \in {Filled(r), entry}
  /\ answer' = [answer EXCEPT ![r] = reader[r].value]
  /\ reader' = [reader EXCEPT ![r] = Idle]
  /\ UNCHANGED <<version, outdated, pending, missed>>

ReaderDies(r) ==
  /\ reader[r].pc # "idle"
  /\ reader' = [reader EXCEPT ![r] = Idle]
  /\ UNCHANGED <<version, outdated, entry, pending, missed, answer>>

-----------------------------------------------------------------------------
(* Writes.                                                                  *)

MayWrite(c) == pending[c] = {} \/ (c \in Syncs /\ Cardinality(pending[c]) < MaxStatements)

(* A slip: the entry is deleted before the rows are written.                *)
CommitLast(c) ==
  /\ version < MaxVersion
  /\ MayWrite(c)
  /\ version' = version + 1
  /\ entry' = NoEntry
  /\ UNCHANGED <<outdated, reader, pending, missed, answer>>

Commit(c) ==
  /\ version < MaxVersion
  /\ MayWrite(c)
  /\ version' = version + 1
  /\ pending' = [pending EXCEPT ![c] = @ \cup {version + 1}]
  /\ UNCHANGED <<outdated, entry, reader, missed, answer>>

(* A reader under way now may hold rows from before the write.              *)
Crossing(c, r) ==
  IF reader[r].pc = "filling" THEN { u \in pending[c] : u > reader[r].value } ELSE {}

Invalidate(c) ==
  /\ c \in Syncs \/ pending[c] # {}
  /\ entry' = NoEntry
  /\ pending' = [pending EXCEPT ![c] = {}]
  /\ reader' = [r \in Readers |-> [reader[r] EXCEPT !.crossed = @ \cup Crossing(c, r)]]
  /\ UNCHANGED <<version, outdated, missed, answer>>

(* Redis raises, or the process dies, or a later statement of a sync does.  *)
InvalidationLost(c) ==
  /\ pending[c] # {}
  /\ missed' = missed \cup pending[c]
  /\ pending' = [pending EXCEPT ![c] = {}]
  /\ UNCHANGED <<version, outdated, entry, reader, answer>>

(* DELETE leaves the entry alone.                                           *)
DeleteBooking ==
  /\ version < MaxVersion
  /\ version' = version + 1
  /\ missed' = missed \cup {version + 1}
  /\ UNCHANGED <<outdated, entry, reader, pending, answer>>

-----------------------------------------------------------------------------
(* Time.                                                                    *)

Aged == [v \in Versions |->
           IF v < version /\ outdated[v] < Bound THEN outdated[v] + 1 ELSE outdated[v]]

(* Slips: SET instead of SETEX; an expiry one tick late.                    *)
ExpiringNever == entry
ExpiringLate ==
  IF entry = NoEntry \/ entry.left = 0 THEN NoEntry ELSE [entry EXCEPT !.left = @ - 1]

Expiring ==
  IF entry = NoEntry \/ entry.left = 1 THEN NoEntry ELSE [entry EXCEPT !.left = @ - 1]

Tick ==
  /\ \A r \in Readers : reader[r].pc = "filling" => reader[r].age < FillMax
  /\ outdated' = Aged
  /\ entry' = Expiring
  /\ reader' = [r \in Readers |->
                  IF reader[r].pc = "filling" THEN [reader[r] EXCEPT !.age = @ + 1] ELSE reader[r]]
  /\ UNCHANGED <<version, pending, missed, answer>>

Next ==
  \/ \E r \in Readers : Hit(r) \/ Miss(r) \/ Select(r) \/ Store(r) \/ ReaderDies(r)
  \/ \E c \in Committers : Commit(c) \/ Invalidate(c) \/ InvalidationLost(c)
  \/ DeleteBooking
  \/ Tick

(* A request goes on or dies, and time passes; nobody has to start one, and  *)
(* a sync that wrote nothing need not come to its invalidation.             *)
Fairness ==
  /\ \A r \in Readers : WF_vars(Store(r) \/ ReaderDies(r))
  /\ \A c \in Committers : WF_vars(pending[c] # {} /\ (Invalidate(c) \/ InvalidationLost(c)))
  /\ WF_vars(Tick)

Spec == Init /\ [][Next]_vars /\ Fairness

-----------------------------------------------------------------------------
(* Properties.                                                              *)

PendingWrites == UNION { pending[c] : c \in Committers }

(* Every write the entry does not show has a reason: its invalidation is     *)
(* still to come, was lost or never sent (DELETE), or ran while the reader   *)
(* that filled the entry already held its rows.                              *)
StaleEntryExplained ==
  entry # NoEntry =>
    \A u \in (entry.value + 1)..version :
      u \in PendingWrites \cup missed \cup entry.crossed

(* The cache is no more than a view that lags: what a reader is answered,    *)
(* from Redis or from the table, was the table less than TTL + FillMax ago,  *)
(* however many invalidations were lost (the promise of the one-minute TTL). *)
View == INSTANCE SlotsView
RefinesView == View!Spec

(* When the writes stop, the entry ends up absent or showing the table.      *)
EventuallyCurrent == <>[](entry # NoEntry => entry.value = version)
=============================================================================
