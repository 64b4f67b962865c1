------------------------ MODULE CalendarSyncProofs ------------------------
(***************************************************************************)
(* CalendarSync for every number of feeds, UIDs, syncs, stays and days: the *)
(* stored hash stands for the rows, and elapsed nights stay.                *)
(***************************************************************************)
EXTENDS CalendarSync, TLAPS

USE DEF Syncs, feedVars, syncVars, historyVars

-----------------------------------------------------------------------------
(* The operators.                                                           *)

(* What is parsed is a set of events.                                       *)
LEMMA ParsedIsEvents ==
  ASSUME NEW content \in [Uids -> Content]
  PROVE  Parsed(content) \in Events
BY DEF Parsed, Events, Content

(* A planned write fits: what it writes is known, what it changes exists.    *)
LEMMA DiffFits ==
  ASSUME NEW row, NEW event, NEW now
  PROVE  /\ Diff(row, event, now) \in {"none", "create", "update", "cancel", "truncate"}
         /\ Diff(row, event, now) \in {"create", "update"} => event # Absent
         /\ Diff(row, event, now) \in {"update", "cancel", "truncate"} => row # NoRow
         /\ Diff(row, event, now) = "create" => row = NoRow
BY DEF Diff, DiffServed, DiffVanished, Confirmed

(* A statement writes rows.                                                  *)
LEMMA WrittenIsRow ==
  ASSUME NEW kind \in {"create", "update", "cancel", "truncate"},
         NEW row \in Row \cup {NoRow}, NEW event \in Offers \cup {Absent}, NEW now \in Nat,
         kind \in {"create", "update"} => event # Absent,
         kind \in {"update", "cancel", "truncate"} => row # NoRow
  PROVE  Written(kind, row, event, now) \in Row
<1>1. event # Absent => event \in [from : Nat, to : Nat]
  BY OffersAreStays
<1>2. CASE kind = "create"
  BY <1>1, <1>2 DEF Written, Row
<1>3. CASE kind = "update"
  BY <1>1, <1>3 DEF Written, Row
<1>4. CASE kind = "cancel"
  BY <1>4 DEF Written, Row
<1>5. CASE kind = "truncate"
  BY <1>5 DEF Written, Row
<1> QED BY <1>2, <1>3, <1>4, <1>5

(* What was written needs no further write: the diff is a fixed point.       *)
LEMMA WrittenIsSettled ==
  ASSUME NEW row \in Row \cup {NoRow}, NEW event \in Offers \cup {Absent}, NEW now \in Nat,
         Diff(row, event, now) # "none"
  PROVE  Diff(Written(Diff(row, event, now), row, event, now), event, now) = "none"
<1> DEFINE kind == Diff(row, event, now)
<1>1. event # Absent => event \in [from : Nat, to : Nat]
  BY OffersAreStays
<1>2. \A f, t \in Nat, st \in {"confirmed", "cancelled"} :
        [from |-> f, to |-> t, status |-> st] # NoRow
  BY NullsAreNothing
<1>3. CASE event # Absent
  <2>1. Written(kind, row, event, now) =
          [from |-> event.from, to |-> event.to, status |-> "confirmed"]
    BY <1>3 DEF Diff, DiffServed, Written
  <2> QED BY <1>1, <1>2, <1>3, <2>1 DEF Diff, DiffServed, Confirmed
<1>4. CASE event = Absent
  <2>1. Confirmed(row) /\ row \in Row
    BY <1>4 DEF Diff, DiffVanished, Confirmed
  <2>2. CASE row.from >= now
    <3>1. Written(kind, row, event, now) = [row EXCEPT !.status = "cancelled"]
      BY <1>4, <2>1, <2>2 DEF Diff, DiffVanished, Written
    <3> QED BY <1>4, <2>1, <3>1 DEF Diff, DiffVanished, Confirmed, Row
  <2>3. CASE ~(row.from >= now)
    <3>1. Written(kind, row, event, now) = [row EXCEPT !.to = now]
      BY <1>4, <2>1, <2>3 DEF Diff, DiffVanished, Written
    <3> QED BY <1>4, <2>1, <2>3, <3>1 DEF Diff, DiffVanished, Confirmed, Row
  <2> QED BY <2>2, <2>3
<1> QED BY <1>3, <1>4

(* Where the diff finds nothing to do, the row mirrors the event, that day   *)
(* and later.                                                                *)
LEMMA SettledMirrors ==
  ASSUME NEW row \in Row \cup {NoRow}, NEW event \in Offers \cup {Absent},
         NEW now \in Nat, NEW later \in Nat, now <= later,
         Diff(row, event, now) = "none"
  PROVE  MirrorsUid(row, event, later)
<1>1. CASE event = Absent
  BY <1>1 DEF Diff, DiffVanished, MirrorsUid, Confirmed, Row
<1>2. CASE event # Absent
  <2>1. event \in [from : Nat, to : Nat]
    BY <1>2, OffersAreStays
  <2>2. row \in Row /\ row.from = event.from /\ row.to = event.to /\ row.status = "confirmed"
    BY <1>2 DEF Diff, DiffServed, Confirmed
  <2>3. row = [from |-> row.from, to |-> row.to, status |-> row.status]
    BY <2>2 DEF Row
  <2> QED BY <1>2, <2>2, <2>3 DEF MirrorsUid
<1> QED BY <1>1, <1>2

(* A mirror stays one as days pass.                                          *)
LEMMA MirrorsLater ==
  ASSUME NEW row \in Row \cup {NoRow}, NEW event,
         NEW now \in Nat, NEW later \in Nat, now <= later, MirrorsUid(row, event, now)
  PROVE  MirrorsUid(row, event, later)
BY DEF MirrorsUid, Confirmed, Row

-----------------------------------------------------------------------------
(* Type correctness, with what makes plans executable.                      *)

TypeInv == TypeOK /\ PlansFit

(* A return forgets the locals.                                              *)
LEMMA ReturnsType ==
  ASSUME TypeOK, NEW s \in Syncs, NEW rest \in SUBSET todo[s], Returns(s, rest)
  PROVE  /\ pc' \in [Syncs -> {"idle", "fetching", "unchanged", "resolving", "applying"}]
         /\ todo' \in [Syncs -> SUBSET Feeds]
         /\ snap' \in [Syncs -> [Feeds -> Events \cup {NoHash}]]
         /\ cur' \in [Syncs -> Feeds \cup {NoFeed}]
         /\ ev' \in [Syncs -> Events]
         /\ plan' \in [Syncs -> Plan]
         /\ day' \in [Syncs -> Nat]
         /\ pc'[s] \in {"idle", "fetching"}
         /\ \A t \in Syncs : t # s => /\ pc'[t] = pc[t] /\ todo'[t] = todo[t]
                                     /\ snap'[t] = snap[t] /\ cur'[t] = cur[t]
                                     /\ ev'[t] = ev[t] /\ plan'[t] = plan[t]
                                     /\ day'[t] = day[t]
<1> USE DEF TypeOK, Returns
<1>1. [u \in Uids |-> Absent] \in Events /\ [f \in Feeds |-> NoHash] \in [Feeds -> Events \cup {NoHash}]
  BY DEF Events
<1>2. [u \in Uids |-> "none"] \in Plan
  BY DEF Plan
<1>3. snap' \in [Syncs -> [Feeds -> Events \cup {NoHash}]]
  BY <1>1
<1>4. ev' \in [Syncs -> Events] /\ plan' \in [Syncs -> Plan]
  BY <1>1, <1>2
<1>5. todo' \in [Syncs -> SUBSET Feeds]
  OBVIOUS
<1> QED BY <1>3, <1>4, <1>5

(* The engine's own steps keep the types.                                    *)
LEMMA ResumeType ==
  ASSUME TypeInv, NEW s \in Syncs, Resume(s)
  PROVE  TypeInv'
<1> USE DEF TypeInv
<1>1. CASE Fetch(s)
  <2>1. PICK f \in todo[s] :
          /\ cur' = [cur EXCEPT ![s] = f]
          /\ ev' = [ev EXCEPT ![s] = Parsed(served[f])]
          /\ pc' = [pc EXCEPT ![s] =
               IF Unchanged(snap[s][f], Parsed(served[f])) THEN "unchanged" ELSE "resolving"]
    BY <1>1 DEF Fetch
  <2>2. f \in Feeds /\ Parsed(served[f]) \in Events
    BY ParsedIsEvents DEF TypeOK
  <2>3. TypeOK'
    BY <1>1, <2>1, <2>2 DEF TypeOK, Fetch
  <2>4. PlansFit'
    BY <1>1, <2>1 DEF TypeOK, Fetch, PlansFit
  <2> QED BY <2>3, <2>4
<1>2. CASE ReadRows(s)
  <2>1. \A u \in Uids : Diff(rows[u], ev[s][u], today) \in
          {"none", "create", "update", "cancel", "truncate"}
    BY DiffFits
  <2>2. [u \in Uids |-> Diff(rows[u], ev[s][u], today)] \in Plan
    BY <2>1 DEF Plan
  <2>3. TypeOK'
    BY <1>2, <2>2 DEF TypeOK, ReadRows
  <2>4. \A t \in Syncs : pc'[t] = "applying" =>
          t = s \/ (pc[t] = "applying" /\ plan'[t] = plan[t])
    BY <1>2 DEF TypeOK, ReadRows
  <2>5. \A u \in Uids : plan'[s][u] = Diff(rows[u], ev[s][u], today)
    BY <1>2 DEF TypeOK, ReadRows
  <2>6. \A u \in Uids :
          /\ plan'[s][u] \in {"create", "update"} => ev[s][u] # Absent
          /\ plan'[s][u] \in {"update", "cancel", "truncate"} => rows[u] # NoRow
    BY <2>5, DiffFits
  <2>7. UNCHANGED <<ev, rows>>
    BY <1>2 DEF ReadRows
  <2>8. ASSUME NEW t \in Syncs, NEW u \in Uids, pc'[t] = "applying"
        PROVE  /\ plan'[t][u] \in {"create", "update"} => ev'[t][u] # Absent
               /\ plan'[t][u] \in {"update", "cancel", "truncate"} => rows'[u] # NoRow
    <3>1. CASE t = s
      <4>1. ev'[t][u] = ev[s][u] /\ rows'[u] = rows[u] /\ plan'[t][u] = plan'[s][u]
        BY <2>7, <3>1
      <4> QED BY <2>6, <4>1
    <3>2. CASE t # s
      BY <2>4, <2>7, <2>8, <3>2 DEF PlansFit
    <3> QED BY <3>1, <3>2
  <2>9. PlansFit'
    BY <2>8 DEF PlansFit
  <2> QED BY <2>3, <2>9
<1>3. CASE Apply(s)
  <2>1. PICK kind \in {"create", "update", "cancel", "truncate"} :
          /\ rows' = [u \in Uids |->
               IF u \in Planned(s, kind) THEN Written(kind, rows[u], ev[s][u], day[s])
                                         ELSE rows[u]]
          /\ plan' = [plan EXCEPT ![s] =
               [u \in Uids |-> IF u \in Planned(s, kind) THEN "none" ELSE plan[s][u]]]
          /\ skipped' = skipped \cup
               (IF kind = "create" THEN { u \in Planned(s, kind) : rows[u] # NoRow } ELSE {})
    BY <1>3 DEF Apply
  <2>2. ASSUME NEW u \in Planned(s, kind)
        PROVE  Written(kind, rows[u], ev[s][u], day[s]) \in Row
    <3>1. u \in Uids /\ plan[s][u] = kind
      BY DEF Planned
    <3>2. rows[u] \in Row \cup {NoRow} /\ ev[s][u] \in Offers \cup {Absent} /\ day[s] \in Nat
      BY <3>1 DEF TypeOK, Events
    <3>3. /\ kind \in {"create", "update"} => ev[s][u] # Absent
          /\ kind \in {"update", "cancel", "truncate"} => rows[u] # NoRow
      BY <1>3, <3>1 DEF PlansFit, Apply
    <3> QED BY <3>2, <3>3, WrittenIsRow
  <2>3. rows' \in [Uids -> Row \cup {NoRow}]
    BY <2>1, <2>2 DEF TypeOK
  <2>4. [u \in Uids |-> IF u \in Planned(s, kind) THEN "none" ELSE plan[s][u]] \in Plan
    BY DEF TypeOK, Plan
  <2>5. plan' \in [Syncs -> Plan]
    BY <2>1, <2>4 DEF TypeOK
  <2>6. skipped' \in SUBSET Uids
    BY <2>1 DEF TypeOK, Planned
  <2>7. TypeOK'
    BY <1>3, <2>3, <2>5, <2>6 DEF TypeOK, Apply
  <2>8. \A u \in Uids : rows[u] # NoRow => rows'[u] # NoRow
    BY <2>1, <2>2, NullsAreNothing DEF Row
  <2>9. \A t \in Syncs, u \in Uids : plan'[t][u] = plan[t][u] \/ plan'[t][u] = "none"
    BY <2>1 DEF TypeOK, Plan
  <2>10. PlansFit'
    BY <1>3, <2>8, <2>9 DEF PlansFit, Apply
  <2> QED BY <2>7, <2>10
<1>4. CASE Record(s)
  <2>1. stored' \in [Feeds -> Events \cup {NoHash}] /\ disturbed' \in [Feeds -> BOOLEAN]
    BY <1>4 DEF Record, TypeOK
  <2>2. TypeOK'
    BY <1>4, <2>1, ReturnsType DEF Record, TypeOK
  <2>3. PlansFit'
    BY <1>4, ReturnsType DEF Record, PlansFit
  <2> QED BY <2>2, <2>3
<1> QED BY <1>1, <1>2, <1>3, <1>4 DEF Resume

(* Types and plans are inductive.                                            *)
LEMMA NextType == TypeInv /\ [Next]_vars => TypeInv'
<1> SUFFICES ASSUME TypeInv, [Next]_vars PROVE TypeInv'
  OBVIOUS
<1> USE DEF TypeInv
<1>1. CASE NextDay
  BY <1>1 DEF NextDay, TypeOK, PlansFit
<1>2. ASSUME NEW f \in Feeds, CreateFeed(f) \/ DeleteFeed(f) PROVE TypeInv'
  BY <1>2 DEF CreateFeed, DeleteFeed, TypeOK, PlansFit
<1>3. ASSUME NEW f \in Feeds, NEW u \in Uids, ChannelEdit(f, u) PROVE TypeInv'
  BY <1>3 DEF ChannelEdit, Spend, TypeOK, PlansFit
<1>4. ASSUME NEW u \in Uids, DeleteRow(u) PROVE TypeInv'
  <2>1. \A s \in Syncs : plan'[s] = [plan[s] EXCEPT ![u] = IF @ = "create" THEN @ ELSE "none"]
    BY <1>4 DEF DeleteRow
  <2>2. \A s \in Syncs : plan[s] \in Plan /\ plan'[s] \in Plan
    <3> TAKE s \in Syncs
    <3>1. plan[s] \in Plan
      BY DEF TypeOK
    <3>2. plan'[s] = [x \in Uids |->
            IF x = u THEN IF plan[s][u] = "create" THEN "create" ELSE "none" ELSE plan[s][x]]
      BY <2>1, <3>1 DEF Plan
    <3> QED BY <3>1, <3>2 DEF Plan
  <2>3. plan' \in [Syncs -> Plan]
    BY <1>4, <2>2 DEF DeleteRow
  <2>4. TypeOK'
    BY <1>4, <2>3 DEF DeleteRow, Spend, TypeOK
  <2>5. \A s \in Syncs, x \in Uids :
          /\ x # u => plan'[s][x] = plan[s][x] /\ rows'[x] = rows[x]
          /\ x = u => plan'[s][x] \in {"create", "none"}
                      /\ (plan'[s][x] = "create" => plan[s][x] = "create")
    BY <1>4, <2>1, <2>2 DEF DeleteRow, TypeOK, Plan
  <2>6. UNCHANGED <<pc, ev>>
    BY <1>4 DEF DeleteRow
  <2>7. ASSUME NEW s \in Syncs, NEW x \in Uids, pc'[s] = "applying"
        PROVE  /\ plan'[s][x] \in {"create", "update"} => ev'[s][x] # Absent
               /\ plan'[s][x] \in {"update", "cancel", "truncate"} => rows'[x] # NoRow
    BY <2>5, <2>6, <2>7 DEF PlansFit
  <2>8. PlansFit'
    BY <2>7 DEF PlansFit
  <2> QED BY <2>4, <2>8
<1>5. ASSUME NEW s \in Syncs, NEW some \in SUBSET Feeds, Begin(s, some) PROVE TypeInv'
  BY <1>5 DEF Begin, TypeOK, PlansFit, Busy
<1>6. ASSUME NEW s \in Syncs, Fail(s) PROVE TypeInv'
  <2>1. PICK rest \in SUBSET todo[s] : Returns(s, rest)
    BY <1>6 DEF Fail
  <2>2. UNCHANGED <<today, feedVars, rows, historyVars>> /\ Spend("mishaps")
    BY <1>6 DEF Fail
  <2>3. budget' \in [{"edits", "mishaps"} -> Nat]
    BY <2>2 DEF Spend, TypeOK
  <2>5. TypeOK'
    BY <2>1, <2>2, <2>3, ReturnsType DEF TypeOK
  <2>4. PlansFit'
    BY <2>1, <2>2, ReturnsType DEF PlansFit
  <2> QED BY <2>4, <2>5
<1>7. ASSUME NEW s \in Syncs, Killed(s) PROVE TypeInv'
  <2>1. Returns(s, {}) /\ {} \in SUBSET todo[s]
    BY <1>7 DEF Killed
  <2>2. UNCHANGED <<today, feedVars, rows, interfered, skipped>> /\ Spend("mishaps")
    BY <1>7 DEF Killed
  <2>3. disturbed' \in [Feeds -> BOOLEAN]
    BY <1>7 DEF Killed, TypeOK
  <2>6. budget' \in [{"edits", "mishaps"} -> Nat]
    BY <2>2 DEF Spend, TypeOK
  <2>4. TypeOK'
    BY <2>1, <2>2, <2>3, <2>6, ReturnsType DEF TypeOK
  <2>5. PlansFit'
    BY <2>1, <2>2, ReturnsType DEF PlansFit
  <2> QED BY <2>4, <2>5
<1>8. ASSUME NEW s \in Syncs, Resume(s) PROVE TypeInv'
  BY <1>8, ResumeType
<1>9. SweepBegin \/ (\E s \in Manuals : ManualBegin(s)) =>
        \E s \in Syncs, some \in SUBSET Feeds : Begin(s, some)
  BY DEF SweepBegin, ManualBegin, Active
<1>10. CASE UNCHANGED vars
  BY <1>10 DEF vars, TypeOK, PlansFit
<1> QED BY <1>1, <1>2, <1>3, <1>4, <1>5, <1>6, <1>7, <1>8, <1>9, <1>10 DEF Next

(* The initial state has its types.                                          *)
LEMMA InitType == Init => TypeInv
<1> SUFFICES ASSUME Init PROVE TypeInv
  OBVIOUS
<1>1. /\ [u \in Uids |-> Absent] \in Events
      /\ [u \in Uids |-> Absent] \in [Uids -> Content]
      /\ [u \in Uids |-> "none"] \in Plan
  BY DEF Events, Content, Plan
<1>2. budget \in [{"edits", "mishaps"} -> Nat]
  BY BoundsAreNats DEF Init
<1>3. served \in [Feeds -> [Uids -> Content]] /\ ev \in [Syncs -> Events] /\ plan \in [Syncs -> Plan]
  BY <1>1 DEF Init
<1>4. TypeOK
  BY <1>2, <1>3 DEF Init, TypeOK
<1>5. PlansFit
  BY DEF Init, PlansFit
<1> QED BY <1>4, <1>5 DEF TypeInv

(* Every reachable state is well typed.                                      *)
THEOREM SyncTypeCorrect == Spec => []TypeOK
<1>1. TypeInv => TypeOK
  BY DEF TypeInv
<1> QED BY <1>1, InitType, NextType, PTL DEF Spec

-----------------------------------------------------------------------------
(* What an undisturbed sync relies on.                                      *)

(* The shape of a return: one sync leaves its feed, the others stay.         *)
LEMMA ReturnsShape ==
  ASSUME TypeOK, NEW s \in Syncs, NEW rest \in SUBSET todo[s], Returns(s, rest)
  PROVE  /\ pc'[s] \in {"idle", "fetching"} /\ todo'[s] = rest
         /\ rest # {} => snap'[s] = snap[s]
         /\ \A t \in Syncs \ {s} : /\ pc'[t] = pc[t] /\ todo'[t] = todo[t]
                                    /\ snap'[t] = snap[t] /\ cur'[t] = cur[t]
                                    /\ ev'[t] = ev[t] /\ plan'[t] = plan[t]
                                    /\ day'[t] = day[t]
BY DEF TypeOK, Returns

(* A return of a busy sync leaves what the others rely on.                   *)
LEMMA ReturnsHold ==
  ASSUME TypeOK, UndisturbedPlansHold, NEW s \in Syncs, NEW rest \in SUBSET todo[s],
         Busy(s), Returns(s, rest), UNCHANGED <<today, feed, rows, interfered>>,
         \A f \in Feeds : f \in rest => stored'[f] = stored[f]
  PROVE  UndisturbedPlansHold'
<1> SUFFICES ASSUME ~interfered' PROVE
      \A t \in Syncs :
        /\ \A q \in Syncs : Busy(t)' /\ Busy(q)' => t = q
        /\ Busy(t)' => \A f \in todo'[t] \cap Active' : snap'[t][f] = stored'[f]
        /\ pc'[t] = "applying" =>
             /\ day'[t] <= today'
             /\ \A u \in Uids : plan'[t][u] = Diff(rows'[u], ev'[t][u], day'[t])
  BY DEF UndisturbedPlansHold, Busy, Active
<1>1. ~interfered
  OBVIOUS
<1>2. \A t \in Syncs \ {s} : ~Busy(t) /\ pc'[t] = pc[t]
  BY <1>1, ReturnsShape DEF UndisturbedPlansHold
<1>3. \A t \in Syncs : Busy(t)' => t = s
  BY <1>2 DEF Busy
<1>4. \A f \in todo'[s] \cap Active' : snap'[s][f] = stored'[f]
  <2> TAKE f \in todo'[s] \cap Active'
  <2>1. f \in rest /\ f \in todo[s] /\ rest # {} /\ f \in Feeds
    BY ReturnsShape DEF TypeOK
  <2>2. snap'[s][f] = snap[s][f] /\ stored'[f] = stored[f]
    BY <2>1, ReturnsShape
  <2>3. snap[s][f] = stored[f]
    BY <1>1, <2>1 DEF UndisturbedPlansHold, Active
  <2> QED BY <2>2, <2>3
<1>5. \A t \in Syncs : pc'[t] # "applying"
  BY <1>2, ReturnsShape DEF Busy
<1> QED BY <1>3, <1>4, <1>5

(* The engine's own steps keep it.                                           *)
LEMMA ResumeHolds ==
  ASSUME TypeInv, UndisturbedPlansHold, NEW s \in Syncs, Resume(s)
  PROVE  UndisturbedPlansHold'
<1> USE DEF TypeInv
<1>1. CASE Fetch(s)
  <2>1. /\ UNCHANGED <<today, feedVars, rows, todo, snap, plan, day, historyVars>>
        /\ pc'[s] \in {"unchanged", "resolving"} /\ Busy(s)
        /\ \A t \in Syncs \ {s} : pc'[t] = pc[t] /\ ev'[t] = ev[t]
    BY <1>1 DEF Fetch, TypeOK, Busy
  <2> QED BY <2>1 DEF UndisturbedPlansHold, Busy, Active
<1>2. CASE ReadRows(s)
  <2>1. /\ UNCHANGED <<today, feedVars, rows, todo, snap, ev, historyVars>>
        /\ pc'[s] = "applying" /\ Busy(s) /\ day'[s] = today /\ today <= today
        /\ \A u \in Uids : plan'[s][u] = Diff(rows[u], ev[s][u], today)
        /\ \A t \in Syncs \ {s} : pc'[t] = pc[t] /\ plan'[t] = plan[t] /\ day'[t] = day[t]
    BY <1>2 DEF ReadRows, TypeOK, Busy
  <2>2. ASSUME ~interfered' PROVE
          \A t \in Syncs :
            /\ \A q \in Syncs : Busy(t)' /\ Busy(q)' => t = q
            /\ Busy(t)' => \A f \in todo'[t] \cap Active' : snap'[t][f] = stored'[f]
            /\ pc'[t] = "applying" =>
                 /\ day'[t] <= today'
                 /\ \A u \in Uids : plan'[t][u] = Diff(rows'[u], ev'[t][u], day'[t])
    <3>1. ~interfered
      BY <2>1, <2>2
    <3>2. \A t \in Syncs \ {s} : ~Busy(t)
      BY <2>1, <3>1 DEF UndisturbedPlansHold
    <3>3. \A t \in Syncs : Busy(t)' => t = s
      BY <2>1, <3>2 DEF Busy
    <3>4. \A f \in todo'[s] \cap Active' : snap'[s][f] = stored'[f]
      BY <2>1, <3>1 DEF UndisturbedPlansHold, Active
    <3>5. \A t \in Syncs : pc'[t] = "applying" => t = s
      BY <3>3 DEF Busy
    <3>6. day'[s] <= today' /\ \A u \in Uids : plan'[s][u] = Diff(rows'[u], ev'[s][u], day'[s])
      BY <2>1
    <3> QED BY <3>3, <3>4, <3>5, <3>6
  <2> QED BY <2>2 DEF UndisturbedPlansHold, Busy, Active
<1>3. CASE Apply(s)
  <2>1. PICK kind \in {"create", "update", "cancel", "truncate"} :
          /\ rows' = [u \in Uids |->
               IF u \in Planned(s, kind) THEN Written(kind, rows[u], ev[s][u], day[s])
                                         ELSE rows[u]]
          /\ plan' = [plan EXCEPT ![s] =
               [u \in Uids |-> IF u \in Planned(s, kind) THEN "none" ELSE plan[s][u]]]
    BY <1>3 DEF Apply
  <2>2. UNCHANGED <<today, feedVars, pc, todo, snap, ev, day, interfered>> /\ pc[s] = "applying"
    BY <1>3 DEF Apply
  <2>3. ASSUME ~interfered, NEW u \in Uids
        PROVE  plan'[s][u] = Diff(rows'[u], ev[s][u], day[s])
    <3>1. plan[s][u] = Diff(rows[u], ev[s][u], day[s])
      BY <2>2, <2>3 DEF UndisturbedPlansHold
    <3>2. CASE u \in Planned(s, kind)
      <4>1. plan[s][u] = kind /\ kind # "none"
        BY <3>2 DEF Planned
      <4>2. rows[u] \in Row \cup {NoRow} /\ ev[s][u] \in Offers \cup {Absent} /\ day[s] \in Nat
        BY DEF TypeOK, Events
      <4>3. rows'[u] = Written(kind, rows[u], ev[s][u], day[s]) /\ plan'[s][u] = "none"
        BY <2>1, <3>2 DEF TypeOK
      <4>4. Diff(rows[u], ev[s][u], day[s]) = kind
        BY <3>1, <4>1
      <4>5. Diff(Written(kind, rows[u], ev[s][u], day[s]), ev[s][u], day[s]) = "none"
        BY <4>1, <4>2, <4>4, WrittenIsSettled
      <4> QED BY <4>3, <4>5
    <3>3. CASE u \notin Planned(s, kind)
      BY <2>1, <3>1, <3>3 DEF TypeOK
    <3> QED BY <3>2, <3>3
  <2>4. \A t \in Syncs : ~interfered /\ pc[t] = "applying" => t = s
    BY <2>2 DEF UndisturbedPlansHold, Busy
  <2> QED BY <2>2, <2>3, <2>4 DEF UndisturbedPlansHold, Busy, Active
<1>4. CASE Record(s)
  <2>1. /\ Returns(s, todo[s] \ {cur[s]}) /\ Busy(s)
        /\ UNCHANGED <<today, feed, rows, interfered>>
        /\ \A f \in Feeds : f \in todo[s] \ {cur[s]} => stored'[f] = stored[f]
    BY <1>4 DEF Record, Applied, Busy, TypeOK
  <2> QED BY <2>1, ReturnsHold
<1> QED BY <1>1, <1>2, <1>3, <1>4 DEF Resume

(* A beginning sync that meets nobody starts from the stored hashes.         *)
LEMMA BeginHolds ==
  ASSUME TypeOK, NEW s \in Syncs, NEW some \in SUBSET Active, Begin(s, some)
  PROVE  UndisturbedPlansHold'
<1>1. /\ UNCHANGED <<today, feedVars, rows>>
      /\ interfered' = \E t \in Syncs : Busy(t)
      /\ pc'[s] = "fetching" /\ snap'[s] = stored
      /\ \A t \in Syncs \ {s} : pc'[t] = pc[t]
  BY DEF Begin, TypeOK
<1>2. ASSUME ~interfered' PROVE \A t \in Syncs : Busy(t)' => t = s
  BY <1>1, <1>2 DEF Busy
<1>3. ASSUME ~interfered' PROVE \A t \in Syncs : pc'[t] # "applying"
  BY <1>1, <1>3 DEF Busy
<1> QED BY <1>1, <1>2, <1>3 DEF UndisturbedPlansHold, Busy, Active

-----------------------------------------------------------------------------
(* Hashes: what is skipped, what is absent, what interference disturbs.      *)

(* A return leaves it, where hashes and disturbances allow.                  *)
LEMMA ReturnsFit ==
  ASSUME TypeOK, HashesFit, NEW s \in Syncs, NEW rest \in SUBSET todo[s], Returns(s, rest),
         UNCHANGED <<feed, interfered>>,
         \A f \in Feeds : feed[f] = "absent" => stored'[f] = stored[f],
         interfered => \A f \in Feeds : disturbed[f] => disturbed'[f]
  PROVE  HashesFit'
BY ReturnsShape DEF HashesFit

(* Every step keeps it.                                                      *)
LEMMA ResumeFits ==
  ASSUME TypeInv, HashesFit, NEW s \in Syncs, Resume(s)
  PROVE  HashesFit'
<1> USE DEF TypeInv
<1>1. CASE Fetch(s)
  <2>1. PICK f \in todo[s] :
          /\ cur' = [cur EXCEPT ![s] = f]
          /\ ev' = [ev EXCEPT ![s] = Parsed(served[f])]
          /\ pc' = [pc EXCEPT ![s] =
               IF Unchanged(snap[s][f], Parsed(served[f])) THEN "unchanged" ELSE "resolving"]
    BY <1>1 DEF Fetch
  <2>2. UNCHANGED <<feedVars, todo, snap, historyVars>>
    BY <1>1 DEF Fetch
  <2>3. /\ pc'[s] = "unchanged" => ev'[s] = snap'[s][cur'[s]]
        /\ pc'[s] \in {"resolving", "applying"} => ev'[s] # snap'[s][cur'[s]]
    BY <2>1, <2>2 DEF TypeOK, Unchanged
  <2>4. \A t \in Syncs \ {s} : pc'[t] = pc[t] /\ ev'[t] = ev[t] /\ cur'[t] = cur[t]
    BY <2>1 DEF TypeOK
  <2> QED BY <2>2, <2>3, <2>4 DEF HashesFit
<1>2. CASE ReadRows(s)
  BY <1>2 DEF ReadRows, TypeOK, HashesFit
<1>3. CASE Apply(s)
  BY <1>3 DEF Apply, TypeOK, HashesFit
<1>4. CASE Record(s)
  <2>1. /\ Returns(s, todo[s] \ {cur[s]})
        /\ UNCHANGED <<feed, interfered>>
        /\ \A f \in Feeds : feed[f] = "absent" => stored'[f] = stored[f]
        /\ interfered => \A f \in Feeds : disturbed[f] => disturbed'[f]
    BY <1>4 DEF Record, TypeOK
  <2> QED BY <2>1, ReturnsFit
<1> QED BY <1>1, <1>2, <1>3, <1>4 DEF Resume

-----------------------------------------------------------------------------
(* The stored hash stands for the rows.                                     *)

(* A feed the invariant speaks of.                                           *)
Claims(f) == /\ feed[f] = "active" /\ stored[f] # NoHash /\ ~disturbed[f]
             /\ \A s \in Syncs : ~(pc[s] = "applying" /\ cur[s] = f)

(* The invariant, feed by feed.                                              *)
LEMMA TruthByFeed ==
  /\ HashIsTruth <=> \A f \in Feeds : Claims(f) => Mirrors(stored[f])
  /\ HashIsTruth' <=> \A f \in Feeds : Claims(f)' => Mirrors(stored[f])'
BY DEF HashIsTruth, Claims, Active

(* A claim that no step touched still stands.                                *)
LEMMA ClaimKept ==
  ASSUME HashIsTruth, NEW f \in Feeds, Claims(f),
         stored'[f] = stored[f], UNCHANGED <<today, rows>>
  PROVE  Mirrors(stored[f])'
<1>1. Mirrors(stored[f])
  BY TruthByFeed
<1> QED BY <1>1 DEF Mirrors

(* A step that only removes claims keeps the invariant.                      *)
LEMMA FewerClaims ==
  ASSUME HashIsTruth, UNCHANGED <<today, rows>>,
         \A f \in Feeds : Claims(f)' => Claims(f) /\ stored'[f] = stored[f]
  PROVE  HashIsTruth'
BY TruthByFeed, ClaimKept

(* The engine's own steps keep it.                                           *)
LEMMA ResumeTruth ==
  ASSUME TypeInv, UndisturbedPlansHold, HashesFit, HashIsTruth, NEW s \in Syncs, Resume(s)
  PROVE  HashIsTruth'
<1> USE DEF TypeInv
<1>1. CASE Fetch(s)
  <2>1. /\ UNCHANGED <<today, feedVars, rows, disturbed>> /\ pc[s] = "fetching"
        /\ \A t \in Syncs \ {s} : pc'[t] = pc[t] /\ cur'[t] = cur[t]
    BY <1>1 DEF Fetch, TypeOK
  <2>2. \A f \in Feeds : Claims(f)' => Claims(f)
    BY <2>1 DEF Claims
  <2> QED BY <2>1, <2>2, FewerClaims
<1>2. CASE ReadRows(s)
  <2>1. /\ UNCHANGED <<today, feedVars, rows, disturbed, cur>> /\ pc[s] = "resolving"
        /\ \A t \in Syncs \ {s} : pc'[t] = pc[t]
    BY <1>2 DEF ReadRows, TypeOK
  <2>2. \A f \in Feeds : Claims(f)' => Claims(f)
    BY <2>1 DEF Claims
  <2> QED BY <2>1, <2>2, FewerClaims
<1>3. CASE Apply(s)
  <2>1. pc[s] = "applying" /\ UNCHANGED <<pc, cur>>
    BY <1>3 DEF Apply
  <2>2. disturbed' = [f \in Feeds |-> disturbed[f] \/ f # cur[s]]
    BY <1>3 DEF Apply
  <2>3. \A f \in Feeds : ~Claims(f)'
    BY <2>1, <2>2 DEF Claims
  <2> QED BY <2>3, TruthByFeed
<1>4. CASE Record(s)
  <2> DEFINE g == cur[s]
  <2>1. /\ Applied(s) \/ pc[s] = "unchanged"
        /\ stored' = IF feed[g] = "active" THEN [stored EXCEPT ![g] = ev[s]] ELSE stored
        /\ disturbed' = IF Applied(s) /\ ~interfered THEN [disturbed EXCEPT ![g] = FALSE]
                                                     ELSE disturbed
        /\ Returns(s, todo[s] \ {g})
        /\ UNCHANGED <<today, served, feed, rows, interfered, skipped, budget>>
    BY <1>4 DEF Record
  <2>2. g \in todo[s] /\ g \in Feeds /\ Busy(s)
    BY <2>1 DEF TypeOK, Applied, Busy
  <2>3. \A t \in Syncs \ {s} : pc'[t] = pc[t] /\ cur'[t] = cur[t]
    BY <2>1, ReturnsShape
  <2>4. ASSUME NEW f \in Feeds, Claims(f)' PROVE Mirrors(stored[f])'
    <3>1. CASE f # g
      <4>1. stored'[f] = stored[f] /\ disturbed'[f] = disturbed[f] /\ feed'[f] = feed[f]
        BY <2>1, <3>1 DEF TypeOK
      <4>2. Claims(f)
        BY <2>3, <2>4, <3>1, <4>1 DEF Claims
      <4> QED BY <2>1, <4>1, <4>2, ClaimKept
    <3>2. CASE f = g /\ pc[s] = "unchanged"
      <4>1. disturbed' = disturbed
        BY <2>1, <3>2 DEF Applied
      <4>2. feed[f] = "active" /\ ~disturbed[f] /\ ~interfered
        BY <2>1, <2>4, <4>1 DEF Claims, HashesFit
      <4>3. snap[s][f] = stored[f]
        BY <2>2, <3>2, <4>2 DEF UndisturbedPlansHold, Active
      <4>4. stored'[f] = stored[f]
        BY <2>1, <2>2, <3>2, <4>2, <4>3 DEF HashesFit, TypeOK
      <4>5. \A t \in Syncs : ~(pc[t] = "applying" /\ cur[t] = f)
        BY <2>3, <2>4, <3>2 DEF Claims
      <4>6. Claims(f)
        BY <2>4, <4>2, <4>4, <4>5 DEF Claims
      <4> QED BY <2>1, <4>4, <4>6, ClaimKept
    <3>3. CASE f = g /\ Applied(s)
      <4>1. ~interfered
        BY <2>1, <2>4, <3>3 DEF Claims, HashesFit
      <4>2. feed[f] = "active" /\ stored'[f] = ev[s]
        BY <2>1, <2>2, <2>4, <3>3 DEF Claims, TypeOK
      <4>3. ASSUME NEW u \in Uids PROVE MirrorsUid(rows[u], ev[s][u], today)
        <5>1. Diff(rows[u], ev[s][u], day[s]) = "none" /\ day[s] <= today
          BY <3>3, <4>1 DEF UndisturbedPlansHold, Applied
        <5>2. rows[u] \in Row \cup {NoRow} /\ ev[s][u] \in Offers \cup {Absent}
              /\ day[s] \in Nat /\ today \in Nat
          BY DEF TypeOK, Events
        <5> QED BY <5>1, <5>2, SettledMirrors
      <4> QED BY <2>1, <4>2, <4>3 DEF Mirrors
    <3> QED BY <2>1, <3>1, <3>2, <3>3
  <2> QED BY <2>4, TruthByFeed
<1> QED BY <1>1, <1>2, <1>3, <1>4 DEF Resume

-----------------------------------------------------------------------------
(* The inductive invariant.                                                 *)

Untyped == UndisturbedPlansHold /\ HashesFit /\ HashIsTruth

(* A failed or killed sync: a return that takes claims away at most.         *)
LEMMA QuitKeeps ==
  ASSUME TypeOK, Untyped, NEW s \in Syncs, Fail(s) \/ Killed(s)
  PROVE  Untyped'
<1>1. PICK rest \in SUBSET todo[s] : Returns(s, rest)
  BY DEF Fail, Killed
<1>2. UNCHANGED <<today, feedVars, rows, interfered>> /\ Busy(s)
  BY DEF Fail, Killed, Busy
<1>3. \A f \in Feeds :
        /\ disturbed[f] => disturbed'[f]
        /\ pc[s] = "applying" /\ f = cur[s] /\ feed[f] = "active" => disturbed'[f]
  <2>1. \A f \in Feeds : disturbed[f] => disturbed'[f]
    BY DEF Fail, Killed, TypeOK
  <2>2. ASSUME pc[s] = "applying", cur[s] \in Feeds, feed[cur[s]] = "active"
        PROVE  disturbed'[cur[s]]
    <3>1. CASE interfered
      BY <2>1, <2>2, <3>1 DEF Untyped, HashesFit
    <3>2. CASE ~interfered
      <4>1. cur[s] \in todo[s] \cap Active
        BY <2>2 DEF TypeOK, Active
      <4>2. snap[s][cur[s]] = stored[cur[s]]
        BY <1>2, <3>2, <4>1 DEF Untyped, UndisturbedPlansHold
      <4>3. ev[s] # snap[s][cur[s]]
        BY <2>2 DEF Untyped, HashesFit
      <4>4. Killed(s)
        BY <2>2 DEF Fail
      <4> QED
        BY <2>2, <4>2, <4>3, <4>4 DEF Killed
    <3> QED
      BY <3>1, <3>2
  <2> QED
    BY <2>1, <2>2
<1>4. UndisturbedPlansHold'
  BY <1>1, <1>2, ReturnsHold DEF Untyped
<1>5. HashesFit'
  BY <1>1, <1>2, <1>3, ReturnsFit DEF Untyped
<1>6. \A t \in Syncs \ {s} : pc'[t] = pc[t] /\ cur'[t] = cur[t]
  BY <1>1, ReturnsShape
<1>7. \A f \in Feeds : Claims(f)' => Claims(f)
  BY <1>2, <1>3, <1>6 DEF Claims
<1>8. HashIsTruth'
  BY <1>2, <1>7, FewerClaims DEF Untyped
<1> QED BY <1>4, <1>5, <1>8 DEF Untyped

(* A beginning sync.                                                        *)
LEMMA BeginKeeps ==
  ASSUME TypeOK, Untyped, NEW s \in Syncs, NEW some \in SUBSET Active, Begin(s, some)
  PROVE  Untyped'
<1>1. /\ UNCHANGED <<today, feedVars, rows, cur, ev>>
      /\ pc[s] = "idle" /\ pc'[s] = "fetching" /\ todo'[s] = some
      /\ \A t \in Syncs \ {s} : pc'[t] = pc[t] /\ todo'[t] = todo[t] /\ snap'[t] = snap[t]
      /\ \A f \in Feeds : disturbed'[f] = (interfered' \/ disturbed[f])
  BY DEF Begin, TypeOK
<1>2. UndisturbedPlansHold'
  BY BeginHolds
<1>3. HashesFit'
  <2>1. \A t \in Syncs :
          /\ pc'[t] = "unchanged" => ev'[t] = snap'[t][cur'[t]]
          /\ pc'[t] \in {"resolving", "applying"} => ev'[t] # snap'[t][cur'[t]]
    BY <1>1 DEF Untyped, HashesFit
  <2>2. \A t \in Syncs : \A f \in todo'[t] : feed'[f] # "absent"
    <3>1. \A f \in todo'[s] : feed'[f] # "absent"
      BY <1>1 DEF Active
    <3>2. \A t \in Syncs \ {s} : \A f \in todo'[t] : feed'[f] # "absent"
      BY <1>1 DEF Untyped, HashesFit
    <3> QED BY <3>1, <3>2
  <2>3. \A f \in Feeds : feed'[f] = "absent" => stored'[f] = NoHash
    BY <1>1 DEF Untyped, HashesFit
  <2>4. interfered' => \A f \in Feeds : disturbed'[f]
    BY <1>1
  <2> QED BY <2>1, <2>2, <2>3, <2>4 DEF HashesFit
<1>4. \A f \in Feeds : Claims(f)' => Claims(f)
  BY <1>1 DEF Claims
<1>5. HashIsTruth'
  BY <1>1, <1>4, FewerClaims DEF Untyped
<1> QED BY <1>2, <1>3, <1>5 DEF Untyped

(* Days pass, feeds come and go, the channel changes, a row is deleted.      *)
LEMMA WorldKeeps ==
  ASSUME TypeInv, Untyped,
         \/ NextDay
         \/ \E f \in Feeds : CreateFeed(f) \/ DeleteFeed(f) \/ \E u \in Uids : ChannelEdit(f, u)
         \/ \E u \in Uids : DeleteRow(u)
  PROVE  Untyped'
<1> USE DEF TypeInv
<1>1. CASE NextDay
  <2>1. today' \in Nat /\ today \in Nat /\ today <= today'
        /\ UNCHANGED <<feedVars, rows, syncVars, historyVars>>
    BY <1>1 DEF NextDay, TypeOK
  <2>2. UndisturbedPlansHold'
    <3>1. \A s \in Syncs : day[s] \in Nat
      BY DEF TypeOK
    <3>2. \A s \in Syncs : day[s] <= today => day'[s] <= today'
      BY <2>1, <3>1
    <3> QED BY <2>1, <3>2 DEF Untyped, UndisturbedPlansHold, Busy, Active
  <2>3. HashesFit'
    BY <2>1 DEF Untyped, HashesFit
  <2>4. ASSUME NEW f \in Feeds, Claims(f)' PROVE Mirrors(stored[f])'
    <3>1. Claims(f) /\ stored[f] \in Events
      BY <2>1, <2>4 DEF Claims, TypeOK
    <3>2. Mirrors(stored[f])
      BY <3>1, TruthByFeed DEF Untyped
    <3>3. \A u \in Uids : MirrorsUid(rows[u], stored[f][u], today')
      BY <2>1, <3>2, MirrorsLater DEF Mirrors, TypeOK
    <3> QED BY <2>1, <3>3 DEF Mirrors
  <2>5. HashIsTruth'
    BY <2>4, TruthByFeed
  <2> QED BY <2>2, <2>3, <2>5 DEF Untyped
<1>2. ASSUME NEW f \in Feeds, CreateFeed(f) PROVE Untyped'
  <2>1. /\ feed[f] = "absent" /\ feed' = [feed EXCEPT ![f] = "active"]
        /\ UNCHANGED <<today, stored, rows, syncVars, historyVars>>
    BY <1>2 DEF CreateFeed
  <2>2. \A g \in Feeds \ {f} : feed'[g] = feed[g]
    BY <2>1 DEF TypeOK
  <2>3. \A s \in Syncs : f \notin todo[s]
    BY <2>1 DEF Untyped, HashesFit
  <2>4. UndisturbedPlansHold'
    <3>1. \A s \in Syncs : \A g \in todo[s] : g \in Active' => g \in Active
      BY <2>2, <2>3 DEF Active
    <3> QED BY <2>1, <3>1 DEF Untyped, UndisturbedPlansHold, Busy
  <2>5. HashesFit'
    BY <2>1, <2>2, <2>3 DEF Untyped, HashesFit, TypeOK
  <2>6. \A g \in Feeds : Claims(g)' => Claims(g)
    BY <2>1, <2>2 DEF Claims, Untyped, HashesFit
  <2>7. HashIsTruth'
    BY <2>1, <2>6, FewerClaims DEF Untyped
  <2> QED BY <2>4, <2>5, <2>7 DEF Untyped
<1>3. ASSUME NEW f \in Feeds, DeleteFeed(f) PROVE Untyped'
  <2>1. /\ feed' = [feed EXCEPT ![f] = "deleted"]
        /\ UNCHANGED <<today, stored, rows, syncVars, historyVars>>
    BY <1>3 DEF DeleteFeed
  <2>2. \A g \in Feeds : feed'[g] \in {feed[g], "deleted"}
    BY <2>1 DEF TypeOK
  <2>3. UndisturbedPlansHold'
    BY <2>1, <2>2 DEF Untyped, UndisturbedPlansHold, Busy, Active
  <2>4. HashesFit'
    BY <2>1, <2>2 DEF Untyped, HashesFit, TypeOK
  <2>5. \A g \in Feeds : Claims(g)' => Claims(g)
    BY <2>1, <2>2 DEF Claims
  <2>6. HashIsTruth'
    BY <2>1, <2>5, FewerClaims DEF Untyped
  <2> QED BY <2>3, <2>4, <2>6 DEF Untyped
<1>4. ASSUME NEW f \in Feeds, NEW u \in Uids, ChannelEdit(f, u) PROVE Untyped'
  BY <1>4 DEF ChannelEdit, Untyped, UndisturbedPlansHold, HashesFit, HashIsTruth, Mirrors,
              Busy, Active
<1>5. ASSUME NEW u \in Uids, DeleteRow(u) PROVE Untyped'
  <2>1. interfered' /\ UNCHANGED <<today, feedVars, pc, todo, snap, cur, ev, day>>
        /\ \A f \in Feeds : disturbed'[f]
    BY <1>5 DEF DeleteRow
  <2>2. \A f \in Feeds : ~Claims(f)'
    BY <2>1 DEF Claims
  <2>3. HashIsTruth'
    BY <2>2, TruthByFeed
  <2> QED BY <2>1, <2>3 DEF Untyped, UndisturbedPlansHold, HashesFit
<1> QED BY <1>1, <1>2, <1>3, <1>4, <1>5

(* IInv is inductive.                                                        *)
LEMMA NextInv == IInv /\ [Next]_vars => IInv'
<1> SUFFICES ASSUME IInv, [Next]_vars PROVE IInv'
  OBVIOUS
<1>1. TypeInv /\ Untyped
  BY DEF IInv, TypeInv, Untyped
<1>2. TypeInv'
  BY <1>1, NextType
<1>3. Untyped'
  <2>1. ASSUME NEW s \in Syncs, Resume(s) PROVE Untyped'
    BY <1>1, <2>1, ResumeHolds, ResumeFits, ResumeTruth DEF Untyped
  <2>2. ASSUME NEW s \in Syncs, Fail(s) \/ Killed(s) PROVE Untyped'
    BY <1>1, <2>2, QuitKeeps DEF TypeInv
  <2>3. SweepBegin \/ (\E s \in Manuals : ManualBegin(s)) =>
          \E s \in Syncs, some \in SUBSET Active : Begin(s, some)
    BY DEF SweepBegin, ManualBegin
  <2>4. CASE SweepBegin \/ \E s \in Manuals : ManualBegin(s)
    BY <1>1, <2>3, <2>4, BeginKeeps DEF TypeInv
  <2>5. CASE UNCHANGED vars
    BY <1>1, <2>5 DEF vars, Untyped, UndisturbedPlansHold, HashesFit, HashIsTruth, Mirrors,
                      Busy, Active
  <2> QED BY <1>1, <2>1, <2>2, <2>4, <2>5, WorldKeeps DEF Next
<1> QED BY <1>2, <1>3 DEF IInv, TypeInv, Untyped

(* It holds at the start.                                                    *)
LEMMA InitInv == Init => IInv
<1> SUFFICES ASSUME Init PROVE IInv
  OBVIOUS
<1>1. TypeOK /\ PlansFit
  BY InitType DEF TypeInv
<1>2. UndisturbedPlansHold /\ HashesFit /\ HashIsTruth
  BY DEF Init, UndisturbedPlansHold, HashesFit, HashIsTruth, Busy, Active
<1> QED BY <1>1, <1>2 DEF IInv

(* Every reachable state satisfies the inductive invariant.                  *)
THEOREM SyncInvariance == Spec => []IInv
BY InitInv, NextInv, PTL DEF Spec

(* Where nothing came between, the rows mirror the events the stored hash    *)
(* was taken from, so skipping an unchanged feed loses nothing.              *)
THEOREM HashIsTruthHolds == Spec => []HashIsTruth
<1>1. IInv => HashIsTruth
  BY DEF IInv
<1> QED BY <1>1, SyncInvariance, PTL

-----------------------------------------------------------------------------
(* Elapsed nights.                                                          *)

(* What a statement leaves of a row whose stay has vanished.                 *)
LEMMA VanishedKeepsElapsed ==
  ASSUME NEW row \in Row, NEW now \in Nat, Confirmed(row),
         Diff(row, Absent, now) # "none",
         NEW n \in Nights(row), n < now
  PROVE  Occupies(Written(Diff(row, Absent, now), row, Absent, now), n)
<1>1. n \in Int /\ row.from <= n
  BY DEF Nights, Row
<1>2. Diff(row, Absent, now) = "truncate"
  BY <1>1 DEF Diff, DiffVanished, Confirmed, Row
<1>3. Written(Diff(row, Absent, now), row, Absent, now) = [row EXCEPT !.to = now]
  BY <1>2 DEF Written
<1>4. [row EXCEPT !.to = now] # NoRow /\ [row EXCEPT !.to = now].status = "confirmed"
  BY NullsAreNothing DEF Confirmed, Row
<1> QED BY <1>1, <1>3, <1>4 DEF Occupies, Confirmed, Nights, Row

(* Only a statement or a deleted row changes the rows.                       *)
LEMMA WritersOfRows ==
  ASSUME [Next]_vars, rows' # rows, ~interfered'
  PROVE  \E s \in Syncs : Apply(s)
BY DEF Next, vars, Resume, NextDay, CreateFeed, DeleteFeed, ChannelEdit, DeleteRow, Begin,
       SweepBegin, ManualBegin, Fetch, ReadRows, Record, Fail, Killed

(* A vanished stay keeps every night that had elapsed when the sync looked.  *)
THEOREM ElapsedNightsStayHolds == Spec => ElapsedNightsStay
<1> DEFINE Kept ==
      rows' # rows /\ ~interfered' =>
        \A s \in Syncs, u \in Uids :
          pc[s] = "applying" /\ ev[s][u] = Absent /\ Confirmed(rows[u]) =>
            \A n \in Nights(rows[u]) : n < day[s] => Occupies(rows'[u], n)
<1>1. IInv /\ [Next]_vars => Kept
  <2> SUFFICES ASSUME IInv, [Next]_vars, rows' # rows, ~interfered',
                      NEW s \in Syncs, NEW u \in Uids,
                      pc[s] = "applying", ev[s][u] = Absent, Confirmed(rows[u]),
                      NEW n \in Nights(rows[u]), n < day[s]
               PROVE  Occupies(rows'[u], n)
    OBVIOUS
  <2>1. PICK t \in Syncs : Apply(t)
    BY WritersOfRows
  <2>2. ~interfered /\ pc[t] = "applying"
    BY <2>1 DEF Apply
  <2>3. t = s
    BY <2>2 DEF IInv, UndisturbedPlansHold, Busy
  <2>4. PICK kind \in {"create", "update", "cancel", "truncate"} :
          rows' = [x \in Uids |->
            IF x \in Planned(s, kind) THEN Written(kind, rows[x], ev[s][x], day[s]) ELSE rows[x]]
    BY <2>1, <2>3 DEF Apply
  <2>5. plan[s][u] = Diff(rows[u], Absent, day[s])
    BY <2>2 DEF IInv, UndisturbedPlansHold
  <2>6. rows[u] \in Row /\ day[s] \in Nat
    BY DEF IInv, TypeOK, Confirmed
  <2>7. CASE u \in Planned(s, kind)
    <3>1. plan[s][u] = kind /\ kind # "none"
      BY <2>7 DEF Planned
    <3>2. rows'[u] = Written(Diff(rows[u], Absent, day[s]), rows[u], Absent, day[s])
      BY <2>4, <2>5, <2>7, <3>1
    <3>3. Diff(rows[u], Absent, day[s]) # "none"
      BY <2>5, <3>1
    <3> QED BY <2>6, <3>2, <3>3, VanishedKeepsElapsed
  <2>8. CASE u \notin Planned(s, kind)
    BY <2>4, <2>8 DEF Occupies
  <2> QED BY <2>7, <2>8
<1>2. Spec => [][Kept]_vars
  BY <1>1, SyncInvariance, PTL DEF Spec
<1> QED BY <1>2 DEF ElapsedNightsStay

-----------------------------------------------------------------------------
(* What the statements do to the rows, whatever overlaps.                    *)

(* No sync plans by a day that is still to come.                             *)
DaysHaveCome == \A s \in Syncs : day[s] <= today

LEMMA NextDays == TypeOK /\ DaysHaveCome /\ [Next]_vars => DaysHaveCome'
<1> SUFFICES ASSUME TypeOK, DaysHaveCome, [Next]_vars PROVE DaysHaveCome'
  OBVIOUS
<1>1. today \in Nat /\ day \in [Syncs -> Nat]
  BY DEF TypeOK
<1>2. CASE day' = day /\ today' \in {today, today + 1}
  BY <1>1, <1>2 DEF DaysHaveCome
<1>3. ASSUME NEW s \in Syncs, NEW rest, Returns(s, rest), UNCHANGED today PROVE DaysHaveCome'
  BY <1>1, <1>3 DEF Returns, DaysHaveCome
<1>4. ASSUME NEW s \in Syncs, Resume(s) \/ Fail(s) \/ Killed(s) PROVE DaysHaveCome'
  <2>1. CASE Fetch(s) \/ Apply(s)
    BY <1>2, <2>1 DEF Fetch, Apply
  <2>2. CASE ReadRows(s)
    BY <1>1, <2>2 DEF ReadRows, DaysHaveCome
  <2>3. CASE Record(s)
    BY <1>3, <2>3 DEF Record
  <2>4. CASE Fail(s)
    BY <1>3, <2>4 DEF Fail
  <2>5. CASE Killed(s)
    BY <1>3, <2>5 DEF Killed
  <2> QED BY <1>4, <2>1, <2>2, <2>3, <2>4, <2>5 DEF Resume
<1>5. CASE NextDay \/ SweepBegin \/ UNCHANGED vars
  BY <1>2, <1>5 DEF NextDay, SweepBegin, Begin, vars
<1>6. ASSUME NEW s \in Manuals, ManualBegin(s) PROVE DaysHaveCome'
  BY <1>2, <1>6 DEF ManualBegin, Begin
<1>7. ASSUME NEW f \in Feeds, CreateFeed(f) \/ DeleteFeed(f) \/ \E u \in Uids : ChannelEdit(f, u)
      PROVE  DaysHaveCome'
  BY <1>2, <1>7 DEF CreateFeed, DeleteFeed, ChannelEdit
<1>8. ASSUME NEW u \in Uids, DeleteRow(u) PROVE DaysHaveCome'
  BY <1>2, <1>8 DEF DeleteRow
<1> QED BY <1>4, <1>5, <1>6, <1>7, <1>8 DEF Next

THEOREM DaysHaveComeHolds == Spec => []DaysHaveCome
<1>1. Init => DaysHaveCome
  BY DEF Init, DaysHaveCome
<1> QED BY <1>1, NextDays, SyncTypeCorrect, PTL DEF Spec

(* One row of a statement, by its kind.                                      *)
LEMMA WrittenIsAllowed ==
  ASSUME TypeOK, PlansFit, DaysHaveCome, NEW s \in Syncs, pc[s] = "applying",
         NEW u \in Uids, plan[s][u] # "none"
  PROVE  LET kind == plan[s][u]
             new  == Written(kind, rows[u], ev[s][u], day[s])
         IN  /\ kind = "create" => new = rows[u] \/ Imported!Inserted(rows[u], new)
             /\ kind = "update" => Imported!Redated(rows[u], new)
             /\ kind = "cancel" => Imported!Cancelled(rows[u], new)
             /\ kind = "truncate" => Imported!Truncated(rows[u], new)
<1>1. ev[s][u] \in Offers \cup {Absent} /\ day[s] \in 0..today
  BY DEF TypeOK, Events, DaysHaveCome
<1>2. /\ plan[s][u] \in {"create", "update"} => ev[s][u] \in Offers
      /\ plan[s][u] \in {"update", "cancel", "truncate"} => rows[u] # NoRow
  BY <1>1 DEF PlansFit
<1> QED
  BY <1>1, <1>2 DEF Written, Imported!Inserted, Imported!Redated, Imported!Cancelled,
                    Imported!Truncated, Imported!Booked

(* A statement of CalendarSync is one of ImportedRows.                       *)
LEMMA ApplyIsStatement ==
  ASSUME TypeOK, PlansFit, DaysHaveCome, NEW s \in Syncs, Apply(s)
  PROVE  Imported!Statement
<1>1. pc[s] = "applying" /\ today' = today
  BY DEF Apply
<1>2. PICK kind \in {"create", "update", "cancel", "truncate"} :
        rows' = [u \in Uids |->
          IF u \in Planned(s, kind) THEN Written(kind, rows[u], ev[s][u], day[s]) ELSE rows[u]]
  BY DEF Apply
<1>3. \A u \in Uids : rows'[u] # rows[u] =>
        /\ plan[s][u] = kind
        /\ rows'[u] = Written(plan[s][u], rows[u], ev[s][u], day[s])
  BY <1>2 DEF Planned
<1>4. DOMAIN rows' = Uids
  BY <1>2
<1>5. CASE kind = "create"
  <2>1. \A u \in Uids : rows'[u] # rows[u] => Imported!Inserted(rows[u], rows'[u])
    BY <1>1, <1>3, <1>5, WrittenIsAllowed
  <2> QED BY <1>1, <1>4, <2>1 DEF Imported!Statement
<1>6. CASE kind = "update"
  <2>1. \A u \in Uids : rows'[u] # rows[u] => Imported!Redated(rows[u], rows'[u])
    BY <1>1, <1>3, <1>6, WrittenIsAllowed
  <2> QED BY <1>1, <1>4, <2>1 DEF Imported!Statement
<1>7. CASE kind = "cancel"
  <2>1. \A u \in Uids : rows'[u] # rows[u] => Imported!Cancelled(rows[u], rows'[u])
    BY <1>1, <1>3, <1>7, WrittenIsAllowed
  <2> QED BY <1>1, <1>4, <2>1 DEF Imported!Statement
<1>8. CASE kind = "truncate"
  <2>1. \A u \in Uids : rows'[u] # rows[u] => Imported!Truncated(rows[u], rows'[u])
    BY <1>1, <1>3, <1>8, WrittenIsAllowed
  <2> QED BY <1>1, <1>4, <2>1 DEF Imported!Statement
<1> QED BY <1>2, <1>5, <1>6, <1>7, <1>8

(* Only a statement, a deletion or midnight changes what ImportedRows sees.  *)
LEMMA StepImports ==
  ASSUME TypeOK, PlansFit, DaysHaveCome, [Next]_vars
  PROVE  [Imported!Next]_<<today, rows>>
<1>1. ASSUME NEW s \in Syncs, Apply(s) PROVE Imported!Next
  BY <1>1, ApplyIsStatement DEF Imported!Next
<1>2. ASSUME NEW u \in Uids, DeleteRow(u) PROVE Imported!Next
  BY <1>2 DEF DeleteRow, Imported!Next, Imported!DeleteRow
<1>3. NextDay => Imported!Next
  BY DEF NextDay, Imported!Next, Imported!NextDay
<1>4. CASE ~NextDay /\ (\A s \in Syncs : ~Apply(s)) /\ \A u \in Uids : ~DeleteRow(u)
  BY <1>4 DEF Next, vars, Resume, CreateFeed, DeleteFeed, ChannelEdit, Begin, SweepBegin,
              ManualBegin, Fetch, ReadRows, Record, Fail, Killed
<1> QED BY <1>1, <1>2, <1>3, <1>4

(* However many syncs overlap: rows are only inserted, re-dated, cancelled,  *)
(* ended on a day that has come, or deleted, as BookingLifecycle supposes.   *)
THEOREM SyncImplementsImportedRows == Spec => RefinesImportedRows
<1>1. Init => Imported!Init
  BY DEF Init, Imported!Init
<1>2. IInv /\ DaysHaveCome /\ [Next]_vars => [Imported!Next]_<<today, rows>>
  BY StepImports DEF IInv
<1> QED
  BY <1>1, <1>2, SyncInvariance, DaysHaveComeHolds, PTL DEF Spec, Imported!Spec, RefinesImportedRows
=============================================================================
