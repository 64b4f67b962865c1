------------------------------ MODULE SlotsView ------------------------------
(***************************************************************************)
(* What GET /slots promises of one property's occupied windows, whatever    *)
(* cache stands in front of the table: an answer is the table as it was,    *)
(* and it ceased to be that less than Bound ticks ago.  The table counts    *)
(* for the number of writes made to it.                                     *)
(***************************************************************************)
EXTENDS Integers

CONSTANTS
  Readers,
  MaxVersion,  \* bound: the last write
  Bound        \* how many ticks old an answer may be

VARIABLES
  version,     \* how many writes the table has seen
  outdated,    \* how many ticks ago each version was overwritten
  answer       \* the version each reader was last answered with

vars == <<version, outdated, answer>>

Versions == 0..MaxVersion

Init ==
  /\ version = 0
  /\ outdated = [v \in Versions |-> 0]
  /\ answer = [r \in Readers |-> 0]

Write ==
  /\ version < MaxVersion
  /\ version' = version + 1
  /\ UNCHANGED <<outdated, answer>>

(* Time stops counting at Bound: no reader may be told of such a version.   *)
Older(v) == IF v < version /\ outdated[v] < Bound THEN outdated[v] + 1 ELSE outdated[v]

Tick ==
  /\ outdated' = [v \in Versions |-> Older(v)]
  /\ UNCHANGED <<version, answer>>

Answer(r) ==
  /\ \E v \in Versions :
       /\ v <= version
       /\ outdated[v] < Bound
       /\ answer' = [answer EXCEPT ![r] = v]
  /\ UNCHANGED <<version, outdated>>

Next == Write \/ Tick \/ \E r \in Readers : Answer(r)

Spec == Init /\ [][Next]_vars
=============================================================================
