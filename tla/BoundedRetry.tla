---------------------------- MODULE BoundedRetry ----------------------------
(***************************************************************************)
(* What every client of another service promises its caller: it tries while *)
(* it has heard nothing that settles the matter, at most MaxAttempts times; *)
(* it tells the caller what it heard; and it gives up only when it has used *)
(* all attempts and heard nothing.                                          *)
(***************************************************************************)
EXTENDS Integers

CONSTANT MaxAttempts

VARIABLES
  attempts,  \* how often it has tried
  heard,     \* open, or what the other side has settled: done, refused
  told       \* what the caller was told: none, done, refused, given_up

vars == <<attempts, heard, told>>

Init == attempts = 0 /\ heard = "open" /\ told = "none"

Try ==
  /\ told = "none" /\ heard = "open"
  /\ attempts < MaxAttempts
  /\ attempts' = attempts + 1
  /\ UNCHANGED <<heard, told>>

Hear ==
  /\ told = "none" /\ heard = "open"
  /\ attempts > 0
  /\ heard' \in {"done", "refused"}
  /\ UNCHANGED <<attempts, told>>

Tell ==
  /\ told = "none" /\ heard # "open"
  /\ told' = heard
  /\ UNCHANGED <<attempts, heard>>

GiveUp ==
  /\ told = "none" /\ heard = "open"
  /\ attempts = MaxAttempts
  /\ told' = "given_up"
  /\ UNCHANGED <<attempts, heard>>

Next == Try \/ Hear \/ Tell \/ GiveUp

Spec == Init /\ [][Next]_vars

(* The caller is answered.                                                  *)
Answers == <>(told # "none")
=============================================================================
