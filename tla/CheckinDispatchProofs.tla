----------------------- MODULE CheckinDispatchProofs -----------------------
(***************************************************************************)
(* CheckinDispatch for every number of bookings, tasks, sweeps and days:    *)
(* one link request per booking, never early on the date the claimer read,  *)
(* and no due booking left behind by a sweep that ends by itself.                                   *)
(***************************************************************************)
EXTENDS CheckinDispatch, FiniteSetTheorems, TLAPS

USE DEF Senders, sweepVars, linkVars

-----------------------------------------------------------------------------
(* Type correctness.                                                        *)

(* An empty batch means that nothing was due, and a batch that is not full   *)
(* holds everything that was.                                                *)
LEMMA BatchHasAll ==
  ASSUME NEW w \in Sweeps, NEW d \in Batches(w), Cardinality(d) # BatchSize
  PROVE  d = { b \in Bookings : Due(b, cutoff[w]) }
BY DEF Batches

(* The empty set is never a full batch.                                     *)
LEMMA EmptyIsNotFull == Cardinality({}) # BatchSize
BY FS_EmptySet, BatchAssumption

(* The three steps of send_checkin_link keep the variables in their domains. *)
LEMMA SendType ==
  ASSUME TypeOK, NEW s \in Senders, SendStep(s)
  PROVE  TypeOK'
<1> USE DEF TypeOK, PC, Goes, Finished
<1>1. CASE Claim(s)
  BY <1>1 DEF Claim
<1>2. CASE Address(s)
  BY <1>2 DEF Address
<1>3. CASE Send(s)
  <2>1. link' \in [Bookings -> {"none", "accepted", "failed"}]
    BY <1>3 DEF Send, NotifyOutcomes
  <2>2. requests' \in [Bookings -> 0 .. 2]
    BY <1>3 DEF Send
  <2>3. marker' = marker
    BY <1>3 DEF Send, NotifyOutcomes
  <2> QED BY <1>3, <2>1, <2>2, <2>3 DEF Send
<1> QED BY <1>1, <1>2, <1>3 DEF SendStep

(* So do the steps of a sweep.                                               *)
LEMMA SweepType ==
  ASSUME TypeOK, NEW w \in Sweeps, SweepStep(w)
  PROVE  TypeOK'
<1> USE DEF TypeOK, PC, Goes
<1>1. CASE SweepStart(w)
  BY <1>1, DatesAssumption DEF SweepStart, Cutoff
<1>2. CASE SweepSelect(w)
  <2>1. seen' \in [Senders -> [Bookings -> Nat]]
    BY <1>2 DEF SweepSelect
  <2> QED BY <1>2, <2>1 DEF SweepSelect, Batches
<1>3. CASE SweepPick(w)
  BY <1>3 DEF SweepPick
<1>4. CASE SweepTurn(w)
  BY <1>4 DEF SweepTurn, AfterBatch
<1>5. CASE SendStep(w)
  BY <1>5, SendType
<1> QED BY <1>1, <1>2, <1>3, <1>4, <1>5 DEF SweepStep

(* Type correctness is inductive.                                            *)
LEMMA NextType == TypeOK /\ [Next]_vars => TypeOK'
<1> SUFFICES ASSUME TypeOK, [Next]_vars PROVE TypeOK'
  OBVIOUS
<1>1. CASE NextDay
  BY <1>1 DEF TypeOK, NextDay
<1>2. ASSUME NEW b \in Bookings, Confirm(b) PROVE TypeOK'
  <2>1. row' \in [Bookings -> {"open", "confirmed", "gone"}]
    BY <1>2 DEF TypeOK, Confirm
  <2>2. pc' \in [Senders -> PC] /\ target' \in [Senders -> Bookings \cup {NoBooking}]
    <3>1. CASE UNCHANGED <<pc, target>>
      BY <3>1 DEF TypeOK
    <3>2. ASSUME NEW t \in Tasks, Goes(t, "idle", "spawned"),
                 target' = [target EXCEPT ![t] = b]
          PROVE  pc' \in [Senders -> PC] /\ target' \in [Senders -> Bookings \cup {NoBooking}]
      BY <3>2 DEF TypeOK, Goes, PC
    <3> QED BY <1>2, <3>1, <3>2 DEF Confirm
  <2>3. \A s \in Senders :
          pc'[s] \in {"spawned", "due", "claimed", "sending"} => target'[s] \in Bookings
    BY <1>2 DEF TypeOK, Confirm, Goes
  <2> QED BY <1>2, <2>1, <2>2, <2>3 DEF TypeOK, Confirm
<1>3. ASSUME NEW b \in Bookings, Leave(b) PROVE TypeOK'
  BY <1>3 DEF TypeOK, Leave
<1>4. ASSUME NEW t \in Tasks, TaskLoad(t) PROVE TypeOK'
  <2>1. seen' \in [Senders -> [Bookings -> Nat]]
    BY <1>4 DEF TypeOK, TaskLoad
  <2> QED BY <1>4, <2>1 DEF TypeOK, TaskLoad, Goes, PC
<1>5. ASSUME NEW t \in Tasks, SendStep(t) PROVE TypeOK'
  BY <1>5, SendType
<1>6. ASSUME NEW w \in Sweeps, SweepStep(w) PROVE TypeOK'
  BY <1>6, SweepType
<1>7. ASSUME NEW s \in Senders, Killed(s) PROVE TypeOK'
  <2>1. kills' \in 0 .. MaxKills
    BY <1>7, KillsAssumption DEF TypeOK, Killed
  <2> QED BY <1>7, <2>1 DEF TypeOK, Killed, PC
<1>8. CASE UNCHANGED vars
  BY <1>8 DEF TypeOK, vars
<1>9. ASSUME NEW b \in Bookings, Redate(b) PROVE TypeOK'
  <2>1. start' \in [Bookings -> Nat]
    BY <1>9, DatesAssumption DEF TypeOK, Redate
  <2>2. backlog' \in [Sweeps -> SUBSET Bookings]
    BY <1>9 DEF TypeOK, Redate
  <2> QED BY <1>9, <2>1, <2>2 DEF TypeOK, Redate
<1> QED BY <1>1, <1>2, <1>3, <1>4, <1>5, <1>6, <1>7, <1>8, <1>9 DEF Next

(* Every reachable state is well typed.                                      *)
THEOREM DispatchTypeCorrect == Spec => []TypeOK
<1>1. Init => TypeOK
  BY KillsAssumption, DatesAssumption DEF Init, TypeOK, PC
<1>2. TypeOK /\ [Next]_vars => TypeOK'
  BY NextType
<1> QED BY <1>1, <1>2, PTL DEF Spec

-----------------------------------------------------------------------------
(* The invariant.                                                           *)

(* Claim: the winner finds the marker clear, so nobody holds the booking and *)
(* no link was asked for.                                                    *)
LEMMA ClaimPreserves ==
  ASSUME IInv, NEW s \in Senders, Claim(s)
  PROVE  IInv'
<1> USE DEF IInv
<1>1. TypeOK'
  BY SendType DEF SendStep
<1>2. /\ UNCHANGED <<today, start, seen, row, target, cutoff, batch, full, backlog, requests>>
      /\ pc[s] = "due" /\ target[s] \in Bookings
      /\ \A r \in Senders \ {s} : pc'[r] = pc[r]
  BY DEF TypeOK, Claim, Goes
<1>3. CASE Claimable(target[s])
  <2>1. /\ pc'[s] = "claimed" /\ marker'[target[s]]
        /\ \A b \in Bookings : marker[b] => marker'[b]
        /\ \A b \in Bookings \ {target[s]} : marker'[b] = marker[b]
    BY <1>2, <1>3 DEF TypeOK, Claim, Goes
  <2>2. ~marker[target[s]] /\ requests[target[s]] = 0
    <3>1. ~marker[target[s]] /\ requests[target[s]] \in 0 .. 2
      BY <1>2, <1>3 DEF TypeOK, Claimable
    <3> QED BY <1>2, <3>1 DEF ClaimsAreExclusive
  <2>3. \A r \in Senders : ~Holds(r, target[s])
    BY <1>2, <2>2 DEF ClaimsAreExclusive
  <2>4. \A r \in Senders, b \in Bookings :
          Holds(r, b)' <=> Holds(r, b) \/ (r = s /\ b = target[s])
    BY <1>2, <2>1 DEF Holds
  <2>5. ClaimsAreExclusive'
    BY <1>2, <2>1, <2>2, <2>3, <2>4 DEF ClaimsAreExclusive
  <2>7. AtMostOneLink'
    BY <1>2 DEF AtMostOneLink
  <2>8. WindowsAreOpen'
    BY <1>2, <2>1 DEF WindowsAreOpen, Cutoff
  <2>9. LastBatchHasAll'
    <3>1. \A w \in Sweeps : \A b \in backlog[w] : b \in Bookings
      BY DEF TypeOK
    <3>2. \A w \in Sweeps : pc'[w] \in {"walking", "due", "claimed", "sending"} =>
            \/ pc'[w] = pc[w]
            \/ w = s /\ pc[w] = "due"
      BY <1>2
    <3> QED BY <1>2, <2>1, <3>1, <3>2 DEF LastBatchHasAll
  <2> QED BY <1>1, <2>5, <2>7, <2>8, <2>9
<1>4. CASE ~Claimable(target[s])
  <2>1. UNCHANGED marker /\ pc'[s] \in {"walking", "done"}
    BY <1>2, <1>4 DEF TypeOK, Claim, Goes, Finished
  <2>2. \A r \in Senders, b \in Bookings : Holds(r, b)' <=> Holds(r, b)
    BY <1>2, <2>1 DEF Holds
  <2>3. ClaimsAreExclusive' /\ AtMostOneLink'
    BY <1>2, <2>1, <2>2 DEF ClaimsAreExclusive, AtMostOneLink
  <2>4. WindowsAreOpen'
    BY <1>2, <2>1 DEF WindowsAreOpen, Cutoff
  <2>5. s \in Sweeps /\ target[s] \in backlog[s] => marker[target[s]]
    BY <1>4 DEF Claimable, LastBatchHasAll
  <2>6. LastBatchHasAll'
    BY <1>2, <2>1, <2>5 DEF LastBatchHasAll
  <2> QED BY <1>1, <2>3, <2>4, <2>6
<1> QED BY <1>3, <1>4

(* Address: the holder keeps the claim or gives up, and the marker stays.    *)
LEMMA AddressPreserves ==
  ASSUME IInv, NEW s \in Senders, Address(s)
  PROVE  IInv'
<1> USE DEF IInv
<1>1. TypeOK'
  BY SendType DEF SendStep
<1>2. /\ UNCHANGED <<today, start, seen, row, marker, target, cutoff, batch, full, backlog, requests>>
      /\ pc[s] = "claimed" /\ pc'[s] \in {"sending", "walking", "done"}
      /\ \A r \in Senders \ {s} : pc'[r] = pc[r]
  BY DEF TypeOK, Address, Goes, Finished
<1>3. \A r \in Senders, b \in Bookings : Holds(r, b)' => Holds(r, b)
  BY <1>2 DEF Holds
<1>4. ClaimsAreExclusive' /\ AtMostOneLink'
  BY <1>2, <1>3 DEF ClaimsAreExclusive, AtMostOneLink
<1>5. WindowsAreOpen' /\ LastBatchHasAll'
  BY <1>2 DEF WindowsAreOpen, LastBatchHasAll, Cutoff
<1> QED BY <1>1, <1>4, <1>5

(* Send: the one request for the link is made by the holder of the claim.    *)
LEMMA SendPreserves ==
  ASSUME IInv, NEW s \in Senders, Send(s)
  PROVE  IInv'
<1> USE DEF IInv
<1>1. TypeOK'
  BY SendType DEF SendStep
<1>2. /\ UNCHANGED <<today, start, seen, row, marker, target, cutoff, batch, full, backlog>>
      /\ pc[s] = "sending" /\ pc'[s] \in {"walking", "done"} /\ target[s] \in Bookings
      /\ \A r \in Senders \ {s} : pc'[r] = pc[r]
  BY DEF TypeOK, Send, NotifyOutcomes, Goes, Finished
<1>3. marker[target[s]] /\ requests[target[s]] = 0
  BY <1>2 DEF ClaimsAreExclusive, Holds
<1>4. /\ requests'[target[s]] = 1
      /\ \A b \in Bookings \ {target[s]} : requests'[b] = requests[b]
  BY <1>2, <1>3 DEF TypeOK, Send
<1>5. \A r \in Senders, b \in Bookings : Holds(r, b)' => Holds(r, b) /\ b # target[s]
  BY <1>2 DEF Holds, ClaimsAreExclusive
<1>6. ClaimsAreExclusive'
  BY <1>2, <1>3, <1>4, <1>5 DEF ClaimsAreExclusive
<1>7. AtMostOneLink'
  BY <1>2, <1>4 DEF AtMostOneLink
<1>8. WindowsAreOpen' /\ LastBatchHasAll'
  BY <1>2 DEF WindowsAreOpen, LastBatchHasAll, Cutoff
<1> QED BY <1>1, <1>6, <1>7, <1>8

(* A sweep's own steps: it begins with everything that is due in its         *)
(* backlog, and a batch that is not full covers what is left of it.          *)
LEMMA SweepPreserves ==
  ASSUME IInv, NEW w \in Sweeps,
         SweepStart(w) \/ SweepSelect(w) \/ SweepPick(w) \/ SweepTurn(w)
  PROVE  IInv'
<1> USE DEF IInv, TypeOK
<1>1. TypeOK'
  BY SweepType DEF SweepStep
<1>2. /\ UNCHANGED <<today, start, row, marker, requests>>
      /\ pc[w] \notin {"claimed", "sending"} /\ pc'[w] \notin {"claimed", "sending"}
      /\ \A r \in Senders \ {w} : pc'[r] = pc[r] /\ target'[r] = target[r]
  BY DEF SweepStart, SweepSelect, SweepPick, SweepTurn, Goes, AfterBatch
<1>3. \A r \in Senders, b \in Bookings : Holds(r, b)' <=> Holds(r, b)
  BY <1>2 DEF Holds
<1>4. ClaimsAreExclusive' /\ AtMostOneLink'
  BY <1>2, <1>3 DEF ClaimsAreExclusive, AtMostOneLink
<1>5. Cutoff' = Cutoff
  BY <1>2 DEF Cutoff
<1>6. CASE SweepStart(w)
  <2>1. /\ pc'[w] = "selecting" /\ UNCHANGED <<target, seen, batch, full>>
        /\ cutoff' = [cutoff EXCEPT ![w] = Cutoff]
        /\ backlog' = [backlog EXCEPT ![w] = { b \in Bookings : Due(b, Cutoff) }]
    BY <1>6 DEF SweepStart
  <2>2. Cutoff <= Cutoff
    BY DatesAssumption DEF Cutoff
  <2>3. WindowsAreOpen'
    BY <1>2, <1>5, <2>1, <2>2 DEF WindowsAreOpen
  <2>4. LastBatchHasAll'
    BY <1>2, <2>1 DEF LastBatchHasAll, Due
  <2> QED BY <1>1, <1>4, <2>3, <2>4
<1>7. CASE SweepSelect(w)
  <2>1. PICK d \in Batches(w) :
          /\ pc' = [pc EXCEPT ![w] = IF d = {} THEN "done" ELSE "walking"]
          /\ batch' = [batch EXCEPT ![w] = d]
          /\ full' = [full EXCEPT ![w] = Cardinality(d) = BatchSize]
          /\ seen' = [seen EXCEPT ![w] = [b \in Bookings |-> IF b \in d THEN start[b] ELSE @[b]]]
    BY <1>7 DEF SweepSelect, Goes
  <2>2. UNCHANGED <<target, cutoff, backlog>>
    BY <1>7 DEF SweepSelect
  <2>3. \A b \in d : b \in Bookings /\ start[b] <= Cutoff
    <3>1. /\ cutoff[w] <= Cutoff /\ cutoff[w] \in Nat /\ Cutoff \in Nat
      BY DatesAssumption DEF WindowsAreOpen, Cutoff
    <3>2. \A b \in d : b \in Bookings /\ start[b] <= cutoff[w] /\ start[b] \in Nat
      BY DEF Batches, Due
    <3> QED BY <3>1, <3>2
  <2>4. WindowsAreOpen'
    <3>1. \A v \in Sweeps : \A b \in batch'[v] : seen'[v][b] <= Cutoff
      BY <2>1, <2>3 DEF WindowsAreOpen
    <3>2. \A s \in Senders : pc'[s] = "due" => seen'[s][target'[s]] <= Cutoff
      BY <1>2, <2>1, <2>2 DEF WindowsAreOpen
    <3>3. \A b \in Bookings \ Imported :
            start[b] = Start[b] /\ \A s \in Senders : seen'[s][b] = Start[b]
      BY <2>1 DEF WindowsAreOpen
    <3> QED BY <1>2, <1>5, <2>2, <3>1, <3>2, <3>3 DEF WindowsAreOpen
  <2>5. ~full'[w] => \A b \in backlog[w] : marker[b] \/ b \in d
    <3> SUFFICES ASSUME ~full'[w], NEW b \in backlog[w], ~marker[b] PROVE b \in d
      OBVIOUS
    <3>1. Cardinality(d) # BatchSize
      BY <2>1
    <3>2. b \in Bookings /\ Due(b, cutoff[w])
      BY DEF LastBatchHasAll, Due
    <3> QED BY <3>1, <3>2, BatchHasAll
  <2>6. LastBatchHasAll'
    BY <1>2, <2>1, <2>2, <2>5 DEF LastBatchHasAll
  <2> QED BY <1>1, <1>4, <2>4, <2>6
<1>8. CASE SweepPick(w)
  <2>1. PICK b \in batch[w] :
          /\ target' = [target EXCEPT ![w] = b]
          /\ batch' = [batch EXCEPT ![w] = @ \ {b}]
    BY <1>8 DEF SweepPick
  <2>2. /\ pc[w] = "walking" /\ pc'[w] = "due"
        /\ UNCHANGED <<cutoff, full, seen, backlog>>
    BY <1>8 DEF SweepPick, Goes
  <2>3. WindowsAreOpen'
    BY <1>2, <1>5, <2>1, <2>2 DEF WindowsAreOpen
  <2>4. LastBatchHasAll'
    BY <1>2, <2>1, <2>2 DEF LastBatchHasAll
  <2> QED BY <1>1, <1>4, <2>3, <2>4
<1>9. CASE SweepTurn(w)
  <2>1. /\ pc'[w] \in {"selecting", "done"}
        /\ UNCHANGED <<target, seen, cutoff, batch, full, backlog>>
    BY <1>9 DEF SweepTurn, Goes, AfterBatch
  <2>2. WindowsAreOpen'
    BY <1>2, <1>5, <2>1 DEF WindowsAreOpen
  <2>4. \A v \in Sweeps : pc'[v] \in {"walking", "due", "claimed", "sending"} =>
          pc'[v] = pc[v] /\ UNCHANGED <<target[v], batch[v], full[v], cutoff[v], backlog[v]>>
    BY <1>2, <2>1
  <2>5. LastBatchHasAll'
    BY <1>2, <2>1, <2>4 DEF LastBatchHasAll
  <2> QED BY <1>1, <1>4, <2>2, <2>5
<1> QED BY <1>6, <1>7, <1>8, <1>9

(* The rest of the service, the tasks' first read, deaths and midnights.     *)
LEMMA OtherPreserves ==
  ASSUME IInv,
         \/ NextDay
         \/ \E b \in Bookings : Confirm(b) \/ Redate(b) \/ Leave(b)
         \/ \E t \in Tasks : TaskLoad(t)
         \/ \E s \in Senders : Killed(s)
  PROVE  IInv'
<1> USE DEF IInv, TypeOK
<1>1. TypeOK'
  BY NextType DEF Next
<1> USE DEF NextDay, Confirm, Redate, Leave, TaskLoad, Killed
<1>2. UNCHANGED <<marker, requests, cutoff, batch, full>>
  OBVIOUS
<1>3. /\ Cutoff <= Cutoff' /\ Cutoff \in Nat /\ Cutoff' \in Nat
      /\ \A w \in Sweeps : cutoff[w] <= Cutoff /\ cutoff[w] \in Nat
  BY DatesAssumption DEF Cutoff, WindowsAreOpen
<1>4. \A s \in Senders :
        \/ pc'[s] = pc[s] /\ UNCHANGED <<target[s], seen[s]>>
        \/ pc'[s] \in {"spawned", "done"} /\ (s \in Sweeps => UNCHANGED seen[s])
        \/ /\ s \in Tasks /\ pc'[s] = "due" /\ target[s] \in Bookings
           /\ target'[s] = target[s] /\ seen'[s][target[s]] = start[target[s]]
           /\ start[target[s]] <= Cutoff
  BY ActorsAssumption DEF Goes
<1>5. \A s \in Senders, b \in Bookings : Holds(s, b)' => Holds(s, b)
  BY <1>4 DEF Holds
<1>6. ClaimsAreExclusive' /\ AtMostOneLink'
  BY <1>2, <1>5 DEF ClaimsAreExclusive, AtMostOneLink
<1>7. \A b \in Bookings \ Imported :
        start'[b] = start[b] /\ \A s \in Senders : seen'[s][b] = seen[s][b]
  <2>1. ASSUME NEW c \in Bookings, Redate(c), NEW b \in Bookings \ Imported PROVE start'[b] = start[b]
    BY <2>1 DEF Redate
  <2>2. start' = start \/ \E c \in Bookings : Redate(c)
    OBVIOUS
  <2>3. ASSUME NEW t \in Tasks, TaskLoad(t), NEW b \in Bookings \ Imported, NEW s \in Senders
        PROVE  seen'[s][b] = seen[s][b]
    <3>1. seen[t][b] = start[b]
      BY DEF WindowsAreOpen
    <3> QED BY <2>3, <3>1 DEF TaskLoad
  <2>4. seen' = seen \/ \E t \in Tasks : TaskLoad(t)
    OBVIOUS
  <2> QED BY <2>1, <2>2, <2>3, <2>4
<1>8. WindowsAreOpen'
  <2>1. \A s \in Senders : pc'[s] = "due" =>
          seen'[s][target'[s]] <= Cutoff /\ seen'[s][target'[s]] \in Nat
    <3> SUFFICES ASSUME NEW s \in Senders, pc'[s] = "due"
                 PROVE  seen'[s][target'[s]] <= Cutoff /\ seen'[s][target'[s]] \in Nat
      OBVIOUS
    <3>1. CASE pc[s] = "due" /\ UNCHANGED <<target[s], seen[s]>>
      <4>1. target[s] \in Bookings /\ seen[s] \in [Bookings -> Nat]
        BY <3>1
      <4> QED BY <3>1, <4>1 DEF WindowsAreOpen
    <3>2. CASE /\ target[s] \in Bookings /\ target'[s] = target[s]
               /\ seen'[s][target[s]] = start[target[s]] /\ start[target[s]] <= Cutoff
      BY <3>2
    <3> QED BY <1>4, <3>1, <3>2
  <2>2. \A w \in Sweeps : UNCHANGED seen[w]
    BY <1>4, ActorsAssumption
  <2>3. \A w \in Sweeps : \A b \in batch[w] : seen[w][b] <= Cutoff /\ seen[w][b] \in Nat
    BY DEF WindowsAreOpen
  <2>4. \A w \in Sweeps : cutoff'[w] <= Cutoff'
    BY <1>2, <1>3
  <2>5. \A w \in Sweeps : \A b \in batch'[w] : seen'[w][b] <= Cutoff'
    BY <1>2, <1>3, <2>2, <2>3
  <2>6. \A s \in Senders : pc'[s] = "due" => seen'[s][target'[s]] <= Cutoff'
    BY <1>3, <2>1
  <2>7. \A b \in Bookings \ Imported :
          start'[b] = Start[b] /\ \A s \in Senders : seen'[s][b] = Start[b]
    BY <1>7 DEF WindowsAreOpen
  <2> QED BY <2>4, <2>5, <2>6, <2>7 DEF WindowsAreOpen
<1>9. LastBatchHasAll'
  <2>1. \A w \in Sweeps : \A b \in backlog'[w] :
          b \in backlog[w] /\ row'[b] = "confirmed" /\ start'[b] <= cutoff[w]
    BY DEF LastBatchHasAll
  <2>2. \A w \in Sweeps : pc'[w] \in {"walking", "due", "claimed", "sending"} =>
          pc'[w] = pc[w] /\ target'[w] = target[w]
    BY <1>4, ActorsAssumption
  <2> QED BY <1>2, <2>1, <2>2 DEF LastBatchHasAll
<1> QED BY <1>1, <1>6, <1>8, <1>9

(* The invariant is inductive.                                               *)
THEOREM DispatchInvariance == Spec => []IInv
<1>1. Init => IInv
  <2> SUFFICES ASSUME Init PROVE IInv
    OBVIOUS
  <2>1. TypeOK
    BY KillsAssumption, DatesAssumption DEF Init, TypeOK, PC
  <2>2. AtMostOneLink /\ ClaimsAreExclusive /\ LastBatchHasAll
    BY DEF Init, AtMostOneLink, ClaimsAreExclusive, LastBatchHasAll, Holds
  <2>3. WindowsAreOpen
    BY DatesAssumption DEF Init, WindowsAreOpen, Cutoff
  <2> QED BY <2>1, <2>2, <2>3 DEF IInv
<1>2. IInv /\ [Next]_vars => IInv'
  <2> SUFFICES ASSUME IInv, [Next]_vars PROVE IInv'
    OBVIOUS
  <2>1. ASSUME NEW s \in Senders, SendStep(s) PROVE IInv'
    BY <2>1, ClaimPreserves, AddressPreserves, SendPreserves DEF SendStep
  <2>2. ASSUME NEW w \in Sweeps, SweepStep(w) PROVE IInv'
    BY <2>1, <2>2, SweepPreserves DEF SweepStep
  <2>3. CASE UNCHANGED vars
    BY <2>3 DEF vars, IInv, TypeOK, AtMostOneLink, ClaimsAreExclusive,
           WindowsAreOpen, LastBatchHasAll, Holds, Cutoff
  <2> QED BY <2>1, <2>2, <2>3, OtherPreserves DEF Next
<1> QED BY <1>1, <1>2, PTL DEF Spec

-----------------------------------------------------------------------------
(* What follows.                                                            *)

(* notifications-ms is asked at most once for the link of a booking.         *)
THEOREM AtMostOneLinkHolds == Spec => []AtMostOneLink
<1>1. IInv => AtMostOneLink
  BY DEF IInv
<1> QED BY <1>1, DispatchInvariance, PTL

(* A booking is claimed in its lead window, unless the sync moved its        *)
(* check-in after the claimer read it.                                       *)
THEOREM NeverEarlyHolds == Spec => NeverEarly
<1>1. IInv /\ [Next]_vars =>
        [\A b \in Bookings :
           ~marker[b] /\ marker'[b] =>
             \/ start[b] <= Cutoff
             \/ \E s \in Senders : pc[s] = "due" /\ target[s] = b /\ MovedSinceRead(s, b)]_vars
  <2> SUFFICES ASSUME IInv, Next, NEW b \in Bookings, ~marker[b], marker'[b],
                      ~(start[b] <= Cutoff)
               PROVE  \E s \in Senders : pc[s] = "due" /\ target[s] = b /\ MovedSinceRead(s, b)
    OBVIOUS
  <2> USE DEF IInv, TypeOK
  <2>1. PICK s \in Senders : Claim(s) /\ target[s] = b
    <3>1. \A c \in Bookings : Confirm(c) \/ Redate(c) \/ Leave(c) => UNCHANGED marker
      BY DEF Confirm, Redate, Leave
    <3>2. \A s \in Senders : Address(s) \/ Send(s) \/ Killed(s) \/ TaskLoad(s) => UNCHANGED marker
      BY DEF Address, Send, NotifyOutcomes, Killed, TaskLoad
    <3>3. \A w \in Sweeps : SweepStart(w) \/ SweepSelect(w) \/ SweepPick(w) \/ SweepTurn(w)
                             => UNCHANGED marker
      BY DEF SweepStart, SweepSelect, SweepPick, SweepTurn
    <3>4. NextDay => UNCHANGED marker
      BY DEF NextDay
    <3>5. \E s \in Senders : Claim(s)
      BY <3>1, <3>2, <3>3, <3>4 DEF Next, SweepStep, SendStep
    <3> QED BY <3>5 DEF Claim
  <2>2. pc[s] = "due" /\ seen[s][b] <= Cutoff
    BY <2>1 DEF Claim, WindowsAreOpen
  <2>3. seen[s][b] \in Nat /\ start[b] \in Nat /\ Cutoff \in Nat
    BY DatesAssumption DEF Cutoff
  <2>4. b \in Imported
    BY <2>2, <2>3 DEF WindowsAreOpen
  <2> QED BY <2>1, <2>2, <2>3, <2>4 DEF MovedSinceRead
<1> QED BY <1>1, DispatchInvariance, PTL DEF Spec, NeverEarly

(* A sweep that ends by itself leaves no booking behind that was due when it *)
(* began and stayed due.                                                     *)
THEOREM SweepLeavesNothingHolds == Spec => SweepLeavesNothing
<1>1. IInv /\ [Next]_vars =>
        [\A w \in Sweeps :
           pc[w] \in {"selecting", "walking"} /\ pc'[w] = "done" /\ kills' = kills
             => \A b \in backlog[w] : marker[b]]_vars
  <2> SUFFICES ASSUME IInv, Next, NEW w \in Sweeps, pc[w] \in {"selecting", "walking"},
                      pc'[w] = "done", kills' = kills, NEW b \in backlog[w]
               PROVE  marker[b]
    OBVIOUS
  <2> USE DEF IInv, TypeOK
  <2>1. SweepSelect(w) \/ SweepTurn(w)
    <3>1. \A s \in Senders : ~Killed(s)
      BY DEF Killed
    <3>2. \A s \in Senders : SendStep(s) => pc'[w] = pc[w] \/ pc[w] \in {"due", "claimed", "sending"}
      BY DEF SendStep, Claim, Address, Send, Goes
    <3>3. \A c \in Bookings : Confirm(c) \/ Redate(c) \/ Leave(c) => pc'[w] = pc[w]
      BY ActorsAssumption DEF Confirm, Redate, Leave, Goes
    <3>4. \A t \in Tasks : TaskLoad(t) => pc'[w] = pc[w]
      BY ActorsAssumption DEF TaskLoad, Goes
    <3>5. \A v \in Sweeps : SweepStart(v) \/ SweepPick(v) => pc'[w] # "done" \/ pc'[w] = pc[w]
      BY DEF SweepStart, SweepPick, Goes
    <3>6. \A v \in Sweeps : SweepSelect(v) \/ SweepTurn(v) => v = w \/ pc'[w] = pc[w]
      BY DEF SweepSelect, SweepTurn, Goes
    <3>7. NextDay => pc'[w] = pc[w]
      BY DEF NextDay
    <3> QED BY <3>1, <3>2, <3>3, <3>4, <3>5, <3>6, <3>7 DEF Next, SweepStep
  <2>2. CASE SweepSelect(w)
    <3>1. PICK d \in Batches(w) : pc' = [pc EXCEPT ![w] = IF d = {} THEN "done" ELSE "walking"]
      BY <2>2 DEF SweepSelect, Goes
    <3>2. d = {}
      BY <3>1
    <3>3. { c \in Bookings : Due(c, cutoff[w]) } = {}
      BY <3>2, BatchHasAll, EmptyIsNotFull
    <3> QED BY <3>3 DEF LastBatchHasAll, Due
  <2>3. CASE SweepTurn(w)
    <3>1. batch[w] = {} /\ pc[w] = "walking" /\ ~full[w]
      BY <2>3 DEF SweepTurn, Goes, AfterBatch
    <3> QED BY <3>1 DEF LastBatchHasAll
  <2> QED BY <2>1, <2>2, <2>3
<1> QED BY <1>1, DispatchInvariance, PTL DEF Spec, SweepLeavesNothing
=============================================================================
