----------------------- MODULE BookingLifecycleProofs -----------------------
(***************************************************************************)
(* Proofs about BookingLifecycle for every value of its constants.         *)
(***************************************************************************)
EXTENDS BookingLifecycleInv, TLAPS

-----------------------------------------------------------------------------
(* Lemmas about the operators of Stays.                                     *)

(* The code's overlap test on two half-open windows is right: it holds      *)
(* exactly when some night belongs to both.                                 *)
LEMMA OverlapIsSharedNight ==
  ASSUME NEW a \in Int, NEW b \in Int, NEW c \in Int, NEW d \in Int, a < b, c < d,
         NEW s, NEW t, s.from = a, s.to = b, t.from = c, t.to = d
  PROVE  Overlaps(s, t) <=> SharesNight(s, t)
<1>1. ASSUME Overlaps(s, t) PROVE SharesNight(s, t)
  <2>1. CASE a <= c
    BY <1>1, <2>1 DEF Overlaps, SharesNight, Nights
  <2>2. CASE c < a
    BY <1>1, <2>2 DEF Overlaps, SharesNight, Nights
  <2> QED BY <2>1, <2>2
<1>2. ASSUME SharesNight(s, t) PROVE Overlaps(s, t)
  BY <1>2 DEF Overlaps, SharesNight, Nights
<1> QED BY <1>1, <1>2

(* A night in both windows makes them overlap, even when truncation has     *)
(* left one of them empty or turned round.                                  *)
LEMMA SharedNightOverlaps ==
  ASSUME NEW s, NEW t, s.from \in Int, s.to \in Int, t.from \in Int, t.to \in Int,
         SharesNight(s, t)
  PROVE  Overlaps(s, t)
BY DEF Overlaps, SharesNight, Nights

(* Which of two stays comes first does not matter for a shared night.       *)
LEMMA SharesNightSymmetric ==
  ASSUME NEW s, NEW t
  PROVE  SharesNight(s, t) <=> SharesNight(t, s)
BY DEF SharesNight

(* The refund schedule yields 0, 50 or 100 percent.                         *)
LEMMA RefundPercentType ==
  ASSUME NEW policy \in Policy, NEW d \in Int
  PROVE  RefundPercent(policy, d) \in {0, 50, 100}
BY DEF RefundPercent, Policy

(* Waiting never raises a refund.                                           *)
LEMMA RefundPercentMonotone ==
  ASSUME NEW policy \in Policy, NEW d \in Int, NEW e \in Int, d <= e
  PROVE  RefundPercent(policy, d) <= RefundPercent(policy, e)
<1>1. CASE policy = "free"
  BY <1>1 DEF RefundPercent
<1>2. CASE policy = "moderate"
  BY <1>2 DEF RefundPercent
<1>3. CASE policy = "strict"
  BY <1>3 DEF RefundPercent
<1>4. CASE policy = "unknown"
  BY <1>4 DEF RefundPercent
<1> QED BY <1>1, <1>2, <1>3, <1>4 DEF Policy

(* No transition of the table leads back to pending, and none leaves        *)
(* cancelled.                                                               *)
LEMMA TransitionTargets ==
  ASSUME NEW s \in Status, NEW t \in ValidTransitions[s]
  PROVE  t \in Status /\ t # "pending" /\ s \in ActiveStatus /\ (t = "confirmed" => s = "pending")
BY DEF ValidTransitions, Status, ActiveStatus

-----------------------------------------------------------------------------
(* Type correctness.                                                        *)

LEMMA DayType == Day \subseteq Int
BY DEF Day

LEMMA DaysPast == \A t \in Day : \A d \in 0 .. t : d \in Day
BY HorizonAssumption DEF Day

(* An offered stay has two dates of the calendar, the first before the      *)
(* second.                                                                  *)
LEMMA OfferType ==
  ASSUME NEW s \in Offers
  PROVE  s.from \in Day /\ s.to \in Day /\ s.from < s.to
BY OffersAssumption DEF StaysOver

(* The initial state is well typed.                                         *)
LEMMA InitType == Init => TypeOK
<1> SUFFICES ASSUME Init PROVE TypeOK
  OBVIOUS
<1>1. today \in Day
  BY HorizonAssumption DEF Init, Day
<1>3. NoRefund \in Refund
  BY DEF NoRefund, Refund
<1>4. refund \in [Updates -> Refund]
  BY <1>3 DEF Init
<1> QED BY <1>1, <1>4 DEF Init, TypeOK, CreateStage, PatchStep

(* Every step of POST /bookings/ keeps the variables in their domains.      *)
LEMMA CreateType ==
  ASSUME TypeOK, NEW b \in Bookings, CreateStep(b)
  PROVE  TypeOK'
<1> USE DEF TypeOK
<1>1. CASE CreateRequest(b)
  <2>1. PICK p \in Properties, u \in Users, s \in Offers :
          LET r == [property |-> p, guest |-> u, from |-> s.from, to |-> s.to] IN
          /\ CreateMoves(b, "idle", IF NeedsNeighbours(r) THEN "gap" ELSE "quoting")
          /\ request' = [request EXCEPT ![b] = r]
    BY <1>1 DEF CreateRequest
  <2>2. [property |-> p, guest |-> u, from |-> s.from, to |-> s.to] \in Request
    BY OfferType DEF Request
  <2>3. /\ stage' \in [Bookings -> CreateStage]
        /\ request' \in [Bookings -> Request \cup {NoRequest}]
    BY <2>1, <2>2 DEF CreateMoves, CreateStage
  <2>4. \A c \in Bookings : stage'[c] \notin {"idle", "refused"} => request'[c] # NoRequest
    BY <2>1, <2>2, NullAssumption DEF CreateMoves
  <2> QED BY <1>1, <2>3, <2>4 DEF CreateRequest, patchVars, historyVars
<1>2. CASE CreateGapCheck(b)
  BY <1>2 DEF CreateGapCheck, CreateMoves, CreateStage, patchVars, historyVars
<1>3. CASE CreateQuote(b)
  BY <1>3 DEF CreateQuote, CreateMoves, CreateStage, patchVars, historyVars
<1>4. CASE CreateRefused(b)
  BY <1>4 DEF CreateRefused, CreateMoves, CreateStage, patchVars, historyVars
<1>5. CASE TxnCheck(b)
  <2>1. unseen \subseteq SUBSET Rows
    OBVIOUS
  <2>2. \A c \in Bookings : {b, c} \in SUBSET Rows
    BY DEF Rows
  <2>3. unseen' \subseteq SUBSET Rows
    <3> HIDE DEF TypeOK
    <3>1. \A e \in unseen' : e \in unseen \/ \E c \in Bookings : e = {b, c}
      BY <1>5 DEF TxnCheck
    <3> QED BY <2>1, <2>2, <3>1
  <2> QED BY <1>5, <2>3 DEF TxnCheck, CreateMoves, CreateStage, patchVars
<1>6. CASE TxnInsert(b)
  <2>1. request[b] \in Request
    BY <1>6 DEF TxnInsert, CreateMoves
  <2>2. table' \in [Rows -> Row \cup {NoRow}]
    BY <1>6, <2>1, OwnerAssumption DEF TxnInsert, Request, Row, Rows, Status
  <2> QED BY <1>6, <2>2 DEF TxnInsert, CreateMoves, CreateStage, patchVars, historyVars
<1>7. CASE CreateFinish(b)
  <2>1. notices' \subseteq Notice
    <3>1. [booking |-> b, kind |-> "created"] \in Notice
      BY DEF Notice, Rows
    <3> QED BY <1>7, <3>1 DEF CreateFinish
  <2> QED BY <1>7, <2>1 DEF CreateFinish, CreateMoves, CreateStage, patchVars, historyVars
<1>8. CASE CreateKilled(b)
  BY <1>8 DEF CreateKilled, CreateMoves, CreateStage, patchVars, historyVars
<1> HIDE DEF TypeOK
<1> QED BY <1>1, <1>2, <1>3, <1>4, <1>5, <1>6, <1>7, <1>8 DEF CreateStep

(* What a cancellation asks of payments-ms is a refund.                     *)
LEMMA RefundsAskedType ==
  ASSUME TypeOK, NEW c \in Call, NEW r \in RefundsAsked(c)
  PROVE  r \in Refund
<1>1. c.seen.from - today \in Int
  <2>1. today \in Int
    BY DayType DEF TypeOK
  <2>2. c.seen \in Row
    BY DEF Call
  <2>3. c.seen.from \in Int
    BY <2>2, DayType DEF Row
  <2> QED BY <2>1, <2>3
<1>2. \A policy \in Policy : RefundPercent(policy, c.seen.from - today) \in {0, 50, 100}
  BY <1>1, RefundPercentType
<1> QED BY <1>2 DEF RefundsAsked, NoRefund, Refund

(* Every step of PATCH /bookings/{id}/status keeps the variables in their   *)
(* domains.                                                                 *)
LEMMA PatchType ==
  ASSUME TypeOK, NEW h \in Updates, PatchProcess(h)
  PROVE  TypeOK'
<1> USE DEF TypeOK
<1>1. CASE PatchRead(h)
  <2>1. PICK b \in Rows, u \in Users, new \in Status :
          /\ PatchAccepts(b, new, u)
          /\ call' = [call EXCEPT ![h] =
               [booking |-> b, user |-> u, target |-> new, seen |-> table[b], day |-> today]]
          /\ contested' = IF \E g \in Updates : InPatch(g, b)
                          THEN contested \cup {b} ELSE contested
    BY <1>1 DEF PatchRead
  <2>2. [booking |-> b, user |-> u, target |-> new, seen |-> table[b], day |-> today] \in Call
    BY <2>1 DEF PatchAccepts, Stored, Call
  <2>3. call' \in [Updates -> Call \cup {NoCall}] /\ call'[h] # NoCall
    BY <2>1, <2>2, NullAssumption
  <2>4. step' \in [Updates -> PatchStep]
    BY <1>1 DEF PatchRead, PatchMoves, PatchStep
  <2>5. \A g \in Updates :
          step'[g] \notin {"idle", "answered"} => call'[g] # NoCall
    BY <1>1, <2>1, <2>3 DEF PatchRead, PatchMoves
  <2>6. contested' \subseteq Rows
    <3>1. contested \subseteq Rows
      OBVIOUS
    <3> HIDE DEF TypeOK
    <3> QED BY <2>1, <3>1
  <2> QED BY <1>1, <2>3, <2>4, <2>5, <2>6 DEF PatchRead, createVars
<1>2. CASE PatchRefused(h)
  BY <1>2 DEF PatchRefused, PatchMoves, PatchStep, createVars, historyVars
<1>3. CASE PatchReload(h)
  BY <1>3 DEF PatchReload, PatchMoves, PatchStep, createVars, historyVars
<1>4. CASE PatchSave(h)
  <2>1. call[h] \in Call
    BY <1>4 DEF PatchSave, PatchMoves
  <2> DEFINE b == call[h].booking
  <2>2. b \in Rows /\ call[h].target \in Status
    BY <2>1 DEF Call
  <2>3. CASE Stored(b)
    <3>1. table[b] \in Row
      BY <2>2, <2>3 DEF Stored
    <3>2. table' = [table EXCEPT ![b].status = call[h].target]
      BY <1>4, <2>3 DEF PatchSave
    <3>3. table' \in [Rows -> Row \cup {NoRow}]
      BY <2>2, <3>1, <3>2 DEF Row
    <3>4. overwrote' \in [Updates -> Status \cup {"none", "no row"}]
      BY <1>4, <2>3, <3>1 DEF PatchSave, Row
    <3> QED BY <1>4, <3>3, <3>4 DEF PatchSave, PatchMoves, PatchStep, createVars
  <2>4. CASE ~Stored(b)
    BY <1>4, <2>4 DEF PatchSave, PatchMoves, PatchStep, createVars
  <2> QED BY <2>3, <2>4
<1>5. CASE PatchInvalidate(h)
  BY <1>5 DEF PatchInvalidate, PatchMoves, PatchStep, createVars, historyVars
<1>6. CASE PatchRefund(h)
  <2>1. call[h] \in Call
    BY <1>6 DEF PatchRefund, PatchMoves
  <2>2. refund' \in [Updates -> Refund]
    <3>1. PICK r \in RefundsAsked(call[h]) : refund' = [refund EXCEPT ![h] = r]
      BY <1>6 DEF PatchRefund
    <3>2. r \in Refund
      BY <2>1, RefundsAskedType DEF TypeOK
    <3> QED BY <3>1, <3>2
  <2> QED BY <1>6, <2>2
            DEF PatchRefund, PatchMoves, PatchStep, createVars, historyVars
<1>7. CASE PatchNotify(h)
  <2>1. call[h].booking \in Rows
    BY <1>7 DEF PatchNotify, PatchMoves, Call
  <2>2. notices' \subseteq Notice
    <3> HIDE DEF TypeOK
    <3>1. \A n \in Notifies(call[h]) :
            \/ n = [booking |-> call[h].booking, kind |-> "confirmed"]
            \/ n = [booking |-> call[h].booking, kind |-> "cancelled"]
            \/ n = [booking |-> call[h].booking, kind |-> "checkin"]
      BY DEF Notifies
    <3>2. Notifies(call[h]) \subseteq Notice
      BY <2>1, <3>1 DEF Notice
    <3> QED BY <1>7, <3>2 DEF PatchNotify, TypeOK
  <2> QED BY <1>7, <2>2
            DEF PatchNotify, PatchMoves, PatchStep, createVars, historyVars
<1>8. CASE PatchKilled(h)
  BY <1>8 DEF PatchKilled, PatchMoves, PatchStep, createVars, historyVars
<1> HIDE DEF TypeOK
<1> QED BY <1>1, <1>2, <1>3, <1>4, <1>5, <1>6, <1>7, <1>8 DEF PatchProcess, PatchHandlerStep

(* So does DELETE.                                                          *)
LEMMA DeleteType ==
  ASSUME TypeOK, NEW x \in Rows, DeleteBooking(x)
  PROVE  TypeOK'
BY DEF DeleteBooking, TypeOK, createVars, patchVars, historyVars

(* So does every statement of the calendar sync.                            *)
LEMMA ChannelType ==
  ASSUME TypeOK, NEW i \in Imports, ChannelStep(i)
  PROVE  TypeOK'
<1> USE DEF TypeOK
<1>1. i \in Rows
  BY DEF Rows
<1>2. Unchecked(i) => unseen' \subseteq SUBSET Rows
  <2>1. \A b \in Bookings : {i, b} \in SUBSET Rows
    BY DEF Rows
  <2>2. unseen \subseteq SUBSET Rows
    OBVIOUS
  <2> HIDE DEF TypeOK
  <2>3. Unchecked(i) => \A e \in unseen' : e \in unseen \/ \E b \in Bookings : e = {i, b}
    BY DEF Unchecked
  <2> QED BY <2>1, <2>2, <2>3
<1>3. CASE ChannelInsert(i)
  <2>1. table' \in [Rows -> Row \cup {NoRow}]
    <3>1. PICK p \in Properties, s \in Offers :
            table' = [table EXCEPT ![i] =
              [ property |-> p, owner |-> Owner[p], guest |-> ChannelGuest,
                channel |-> "imported", from |-> s.from, to |-> s.to, status |-> "confirmed" ] ]
      BY <1>3 DEF ChannelInsert
    <3>2. [ property |-> p, owner |-> Owner[p], guest |-> ChannelGuest,
            channel |-> "imported", from |-> s.from, to |-> s.to, status |-> "confirmed" ] \in Row
      BY OfferType, OwnerAssumption DEF Row, Status
    <3> QED BY <1>1, <3>1, <3>2
  <2> QED BY <1>2, <1>3, <2>1 DEF ChannelInsert, SyncUnchanged, createVars, patchVars
<1>4. CASE ChannelSetDates(i)
  <2>1. PICK s \in Offers :
          table' = [table EXCEPT ![i].from = s.from, ![i].to = s.to, ![i].status = "confirmed"]
    BY <1>4 DEF ChannelSetDates
  <2>2. table[i] \in Row
    BY <1>1, <1>4 DEF ChannelSetDates, Stored
  <2>3. table' \in [Rows -> Row \cup {NoRow}]
    BY <1>1, <2>1, <2>2, OfferType DEF Row, Status
  <2> QED BY <1>2, <1>4, <2>3 DEF ChannelSetDates, SyncUnchanged, createVars, patchVars
<1>5. CASE ChannelCancel(i)
  <2>1. table[i] \in Row
    BY <1>1, <1>5 DEF ChannelCancel, Stored
  <2>2. table' \in [Rows -> Row \cup {NoRow}]
    BY <1>1, <1>5, <2>1 DEF ChannelCancel, Row, Status
  <2> QED BY <1>5, <2>2 DEF ChannelCancel, SyncUnchanged, createVars, patchVars
<1>6. CASE ChannelTruncate(i)
  <2>1. table[i] \in Row
    BY <1>1, <1>6 DEF ChannelTruncate, Stored
  <2>2. PICK day \in 0 .. today : table' = [table EXCEPT ![i].to = day]
    BY <1>6 DEF ChannelTruncate
  <2>3. day \in Day
    BY <2>2, DaysPast
  <2>4. table' \in [Rows -> Row \cup {NoRow}]
    BY <1>1, <2>1, <2>2, <2>3 DEF Row
  <2>5. unseen' \subseteq SUBSET Rows
    BY <1>2, <1>6 DEF ChannelTruncate
  <2> QED BY <1>6, <2>4, <2>5 DEF ChannelTruncate, SyncUnchanged, createVars, patchVars
<1> HIDE DEF TypeOK
<1> QED BY <1>3, <1>4, <1>5, <1>6 DEF ChannelStep

(* Type correctness is inductive.                                           *)
LEMMA NextType == TypeOK /\ [Next]_vars => TypeOK'
<1> SUFFICES ASSUME TypeOK, [Next]_vars PROVE TypeOK'
  OBVIOUS
<1>1. CASE NextDay
  <2>1. today' \in Day
    <3>1. today \in Day
      BY DEF TypeOK
    <3>2. today < LastToday /\ today' = today + 1
      BY <1>1 DEF NextDay
    <3> QED BY <3>1, <3>2, HorizonAssumption DEF Day
  <2> QED BY <1>1, <2>1 DEF NextDay, TypeOK, createVars, patchVars, historyVars
<1>2. ASSUME NEW b \in Bookings, CreateStep(b) PROVE TypeOK'
  BY <1>2, CreateType
<1>3. ASSUME NEW h \in Updates, PatchProcess(h) PROVE TypeOK'
  BY <1>3, PatchType
<1>4. ASSUME NEW x \in Rows, DeleteBooking(x) PROVE TypeOK'
  BY <1>4, DeleteType
<1>5. ASSUME NEW i \in Imports, ChannelStep(i) PROVE TypeOK'
  BY <1>5, ChannelType
<1>6. CASE UNCHANGED vars
  BY <1>6 DEF TypeOK, vars, createVars, patchVars, historyVars
<1> QED BY <1>1, <1>2, <1>3, <1>4, <1>5, <1>6 DEF Next

(* The table always holds whole rows, and a suspended handler always holds  *)
(* the payload and the snapshot it goes on to use.                          *)
THEOREM TypeCorrect == Spec => []TypeOK
<1>1. Init => TypeOK
  BY InitType
<1>2. TypeOK /\ [Next]_vars => TypeOK'
  BY NextType
<1> QED BY <1>1, <1>2, PTL DEF Spec

-----------------------------------------------------------------------------
(* Frames: a conjunct of the invariant is not disturbed by a step that      *)
(* leaves its variables alone.                                              *)

LEMMA RowsFrame ==
  RowsMatchRequests /\ UNCHANGED <<table, request, stage, today>> => RowsMatchRequests'
BY DEF RowsMatchRequests, Stored

(* A check stays good while the table, the requests and the stages stay.    *)
LEMMA ChecksFrame ==
  ChecksStillHold /\ UNCHANGED <<table, request, stage>>
    /\ unseen \subseteq unseen' /\ contested \subseteq contested'
    => ChecksStillHold'
BY DEF ChecksStillHold, Active, Stored, SharesNight, Nights

(* Nights stay sold once while the table stays.                             *)
LEMMA NightsFrame ==
  NightsSoldOnce /\ UNCHANGED table
    /\ unseen \subseteq unseen' /\ contested \subseteq contested'
    => NightsSoldOnce'
BY DEF NightsSoldOnce, SoldTogether, Active, Stored, SharesNight, Nights

(* A PATCH was allowed on what it read, whatever the table holds by now.    *)
LEMMA CallsFrame ==
  CallsWereAllowed /\ UNCHANGED <<call, stage, today>> => CallsWereAllowed'
BY DEF CallsWereAllowed

(* A snapshot stays current while its row and the PATCHes stay.             *)
LEMMA SnapshotsFrame ==
  SnapshotsAreCurrent /\ UNCHANGED <<step, call, contested, table>> => SnapshotsAreCurrent'
BY DEF SnapshotsAreCurrent, InPatch, Stored

(* What a save left behind stays while nothing it speaks of changes.        *)
LEMMA SavesFrame ==
  SavesAreRecorded /\ UNCHANGED <<step, call, contested, table, refund, overwrote>>
    => SavesAreRecorded'
<1> SUFFICES ASSUME SavesAreRecorded,
                    UNCHANGED <<step, call, contested, table, refund, overwrote>>
             PROVE  SavesAreRecorded'
  OBVIOUS
<1>1. \A h \in Updates : /\ Overwrote(h)' <=> Overwrote(h)
                         /\ AskedRefund(h)' <=> AskedRefund(h)
  BY DEF Overwrote, AskedRefund, NoRefund
<1>2. \A x : Stored(x)' <=> Stored(x)
  BY DEF Stored
<1> QED BY <1>1, <1>2 DEF SavesAreRecorded

(* A cancellation stays final while its row and the PATCHes stay.           *)
LEMMA CancelsFrame ==
  CancelsAreFinal /\ UNCHANGED <<step, call, contested, table, overwrote>> => CancelsAreFinal'
BY DEF CancelsAreFinal, Overwrote, InPatch, Stored

(* A decision mail keeps its author.                                        *)
LEMMA NoticesFrame ==
  NoticesHaveAuthors /\ UNCHANGED <<notices, call, overwrote>> => NoticesHaveAuthors'
BY DEF NoticesHaveAuthors, Overwrote

(* A settled guest cancel stays settled.                                    *)
LEMMA SettleFrame ==
  GuestCancelsSettle /\ UNCHANGED <<step, call, overwrote, refund>> => GuestCancelsSettle'
BY DEF GuestCancelsSettle, Decided, Overwrote, IsGuestCancel, IsStaffCancel

(* A refund within the policy stays within it: later days do not count.     *)
LEMMA PolicyFrame ==
  RefundWithinPolicy /\ UNCHANGED <<call, refund>> => RefundWithinPolicy'
BY DEF RefundWithinPolicy

-----------------------------------------------------------------------------
(* The invariant holds initially.                                           *)

LEMMA InitInvariant == Init => IInv
<1> SUFFICES ASSUME Init PROVE IInv
  OBVIOUS
<1>1. TypeOK
  BY InitType
<1>2. RowsMatchRequests /\ ChecksStillHold /\ NightsSoldOnce
  BY DEF Init, RowsMatchRequests, ChecksStillHold, NightsSoldOnce, SoldTogether, Active,
         Stored, Rows
<1>3. CallsWereAllowed /\ SnapshotsAreCurrent
  BY DEF Init, CallsWereAllowed, SnapshotsAreCurrent
<1>4. SavesAreRecorded /\ CancelsAreFinal /\ NoticesHaveAuthors /\ GuestCancelsSettle
  BY DEF Init, SavesAreRecorded, CancelsAreFinal, NoticesHaveAuthors, GuestCancelsSettle,
         Decided, Overwrote, AskedRefund
<1>5. RefundWithinPolicy
  BY DEF Init, RefundWithinPolicy, NoRefund, Policy
<1> QED BY <1>1, <1>2, <1>3, <1>4, <1>5 DEF IInv

-----------------------------------------------------------------------------
(* POST /bookings/ preserves the invariant.                                 *)

(* Progress of a request that neither enters "checked" nor forgets that its *)
(* row was inserted.                                                        *)
LEMMA StageMovePreserves ==
  ASSUME IInv, NEW b \in Bookings, NEW from, NEW to,
         CreateMoves(b, from, to), to # "checked",
         from \in {"stored", "done"} => to \in {"stored", "done"},
         UNCHANGED <<today, table, request, call, unseen, contested>>
  PROVE  RowsMatchRequests' /\ ChecksStillHold' /\ CallsWereAllowed'
<1>1. stage \in [Bookings -> CreateStage]
  BY DEF IInv, TypeOK
<1>2. \A c \in Bookings : stage'[c] = IF c = b THEN to ELSE stage[c]
  BY <1>1 DEF CreateMoves
<1>3. stage[b] = from
  BY DEF CreateMoves
<1>4. RowsMatchRequests'
  BY <1>2, <1>3 DEF IInv, RowsMatchRequests, Stored
<1>5. ChecksStillHold'
  BY <1>2 DEF IInv, ChecksStillHold, Active, Stored, SharesNight, Nights
<1>6. CallsWereAllowed'
  BY <1>2, <1>3 DEF IInv, CallsWereAllowed
<1> QED BY <1>4, <1>5, <1>6

(* Accepting a request records a payload and touches no row.                *)
LEMMA CreateRequestPreserves ==
  ASSUME IInv, NEW b \in Bookings, CreateRequest(b)
  PROVE  IInv'
<1> USE DEF IInv, patchVars, historyVars
<1>1. TypeOK'
  BY CreateType DEF CreateStep
<1>2. PICK p \in Properties, u \in Users, s \in Offers :
        LET r == [property |-> p, guest |-> u, from |-> s.from, to |-> s.to] IN
        /\ CreateMoves(b, "idle", IF NeedsNeighbours(r) THEN "gap" ELSE "quoting")
        /\ request' = [request EXCEPT ![b] = r]
  BY DEF CreateRequest
<1>3. UNCHANGED <<today, table, step, call, refund, notices, unseen, contested, overwrote>>
  BY DEF CreateRequest
<1>4. /\ stage[b] = "idle" /\ stage'[b] \in {"gap", "quoting"}
      /\ \A c \in Bookings \ {b} : stage'[c] = stage[c] /\ request'[c] = request[c]
      /\ request'[b] = [property |-> p, guest |-> u, from |-> s.from, to |-> s.to]
  BY <1>2 DEF TypeOK, CreateMoves
<1>5. RowsMatchRequests'
  BY <1>3, <1>4, OfferType DEF RowsMatchRequests, Stored
<1>6. ChecksStillHold'
  BY <1>3, <1>4 DEF ChecksStillHold, Active, Stored, SharesNight, Nights
<1>7. CallsWereAllowed'
  BY <1>3, <1>4 DEF CallsWereAllowed
<1> QED BY <1>1, <1>3, <1>5, <1>6, <1>7, NightsFrame, SnapshotsFrame, SavesFrame,
           CancelsFrame, NoticesFrame, SettleFrame, PolicyFrame

(* The check of the transaction: whoever passes it knows of every active    *)
(* row on its nights, or the pair is recorded in unseen.                    *)
LEMMA TxnCheckPreserves ==
  ASSUME IInv, NEW b \in Bookings, TxnCheck(b)
  PROVE  IInv'
<1> USE DEF IInv, patchVars
<1>1. TypeOK'
  BY CreateType DEF CreateStep
<1>2. UNCHANGED <<today, table, request, step, call, refund, notices, contested, overwrote>>
  BY DEF TxnCheck
<1>3. unseen \subseteq unseen'
  BY DEF TxnCheck
<1>4. RowsMatchRequests' /\ ChecksStillHold' /\ CallsWereAllowed'
  <2>1. CASE HasConflict(request[b].property, request[b])
    BY <1>2, <2>1, StageMovePreserves DEF TxnCheck
  <2>2. CASE ~HasConflict(request[b].property, request[b])
    <3>1. /\ stage[b] = "quoted" /\ stage'[b] = "checked"
          /\ \A c \in Bookings \ {b} : stage'[c] = stage[c]
      BY <2>2 DEF TxnCheck, CreateMoves, TypeOK
    <3>2. \A c \in Bookings : stage[c] = "checked" => {b, c} \in unseen'
      BY <2>2 DEF TxnCheck
    <3>3. RowsMatchRequests' /\ CallsWereAllowed'
      BY <1>2, <3>1 DEF RowsMatchRequests, Stored, CallsWereAllowed
    <3>4. ASSUME NEW c \in Bookings, NEW d \in Bookings, c # d,
                 stage'[c] = "checked", stage'[d] = "checked"
          PROVE  {c, d} \in unseen'
      <4>1. CASE c = b
        BY <3>1, <3>2, <3>4, <4>1
      <4>2. CASE d = b
        <5>1. {d, c} \in unseen'
          BY <3>1, <3>2, <3>4, <4>2
        <5>2. {c, d} = {d, c}
          OBVIOUS
        <5> QED BY <5>1, <5>2
      <4>3. CASE c # b /\ d # b
        BY <1>3, <3>1, <3>4, <4>3 DEF ChecksStillHold
      <4> QED BY <4>1, <4>2, <4>3
    <3>5. ASSUME NEW x \in Rows, Active(x), table[x].property = request[b].property,
                 SharesNight(request[b], table[x])
          PROVE  FALSE
      <4> DEFINE slot == [from |-> table[x].from, to |-> table[x].to]
      <4>1. slot \in OccupiedSlots(request[b].property)
        BY <3>5 DEF OccupiedSlots
      <4>2. table[x] \in Row
        BY <3>5 DEF Active, Stored, TypeOK
      <4>3. request[b] \in Request
        BY <3>1 DEF TypeOK
      <4>4. SharesNight(slot, request[b])
        BY <3>5 DEF SharesNight, Nights
      <4>5. /\ slot.from \in Int /\ slot.to \in Int
            /\ request[b].from \in Int /\ request[b].to \in Int
        BY <4>2, <4>3, DayType DEF Row, Request
      <4>6. Overlaps(slot, request[b])
        BY <4>4, <4>5, SharedNightOverlaps
      <4> QED BY <2>2, <4>1, <4>6 DEF HasConflict
    <3>6. ASSUME NEW c \in Bookings, NEW x \in Rows,
                 stage'[c] = "checked", x # c, Active(x)',
                 table'[x].property = request'[c].property,
                 SharesNight(request[c], table[x])
          PROVE  {c, x} \in unseen' \/ x \in contested'
      <4>1. Active(x) /\ table[x].property = request[c].property
        BY <1>2, <3>6 DEF Active, Stored
      <4>2. CASE c = b
        BY <3>5, <3>6, <4>1, <4>2
      <4>3. CASE c # b
        BY <1>2, <1>3, <3>1, <3>6, <4>1, <4>3 DEF ChecksStillHold
      <4> QED BY <4>2, <4>3
    <3>7. ChecksStillHold'
      BY <1>2, <3>4, <3>6 DEF ChecksStillHold, SharesNight, Nights
    <3> QED BY <3>3, <3>7
  <2> QED BY <2>1, <2>2
<1> QED BY <1>1, <1>2, <1>3, <1>4, NightsFrame, SnapshotsFrame, SavesFrame, CancelsFrame,
           NoticesFrame, SettleFrame, PolicyFrame

(* The insert: the new row shares a night only with rows the pair is        *)
(* accounted for.                                                           *)
LEMMA TxnInsertPreserves ==
  ASSUME IInv, NEW b \in Bookings, TxnInsert(b)
  PROVE  IInv'
<1> USE DEF IInv, patchVars, historyVars
<1>1. TypeOK'
  BY CreateType DEF CreateStep
<1>2. UNCHANGED <<today, request, step, call, refund, notices, unseen, contested, overwrote>>
  BY DEF TxnInsert
<1>3. /\ stage[b] = "checked" /\ stage'[b] = "stored"
      /\ \A c \in Bookings \ {b} : stage'[c] = stage[c]
  BY DEF TxnInsert, CreateMoves, TypeOK
<1>4. \A x \in Rows \ {b} : table'[x] = table[x]
  BY DEF TxnInsert, TypeOK
<1>5. b \in Rows /\ b \notin Imports
  BY DisjointAssumption DEF Rows
<1>6. /\ table'[b].property = request[b].property
      /\ table'[b].from = request[b].from /\ table'[b].to = request[b].to
  BY <1>5 DEF TxnInsert, TypeOK
<1>7. request[b] \in Request /\ request[b] # NoRequest
  BY <1>3 DEF TypeOK
<1>8. RowsMatchRequests'
  <2>1. \A c \in Bookings : Stored(c)' =>
          /\ stage'[c] \in {"stored", "done"}
          /\ table'[c].property = request[c].property
          /\ table'[c].from = request[c].from /\ table'[c].to = request[c].to
    BY <1>3, <1>4, <1>6 DEF RowsMatchRequests, Stored, Rows
  <2>2. \A i \in Imports : Stored(i)' => table'[i].channel = "imported"
    BY <1>4, <1>5 DEF RowsMatchRequests, Stored, Rows
  <2>3. \A x \in Rows : Stored(x)' => table'[x].from < table'[x].to \/ table'[x].to <= today
    BY <1>4, <1>6, <1>7 DEF RowsMatchRequests, Stored
  <2> QED BY <1>2, <2>1, <2>2, <2>3 DEF RowsMatchRequests
<1>9. ChecksStillHold'
  <2>1. ASSUME NEW c \in Bookings, NEW d \in Bookings, c # d,
               stage'[c] = "checked", stage'[d] = "checked"
        PROVE  {c, d} \in unseen'
    BY <1>2, <1>3, <2>1 DEF ChecksStillHold
  <2>2. ASSUME NEW c \in Bookings, NEW x \in Rows,
               stage'[c] = "checked", x # c, Active(x)',
               table'[x].property = request[c].property, SharesNight(request[c], table'[x])
        PROVE  {c, x} \in unseen' \/ x \in contested'
    <3>1. CASE x = b
      BY <1>2, <1>3, <2>2, <3>1 DEF ChecksStillHold
    <3>2. CASE x # b
      BY <1>2, <1>3, <1>4, <2>2, <3>2 DEF ChecksStillHold, Active, Stored
    <3> QED BY <3>1, <3>2
  <2> QED BY <1>2, <2>1, <2>2 DEF ChecksStillHold, SharesNight, Nights
<1>10. NightsSoldOnce'
  <2>1. ASSUME NEW y \in Rows, y # b, Active(y)',
               table'[y].property = request[b].property, SharesNight(request[b], table'[y])
        PROVE  {b, y} \in unseen' \/ y \in contested'
    BY <1>2, <1>3, <1>4, <2>1 DEF ChecksStillHold, Active, Stored
  <2>2. \A s : SharesNight(table'[b], s) <=> SharesNight(request[b], s)
    BY <1>6 DEF SharesNight, Nights
  <2>3. ASSUME NEW x \in Rows, NEW y \in Rows, x # y, {x, y} \cap Bookings # {},
               Active(x)', Active(y)', table'[x].property = table'[y].property,
               SharesNight(table'[x], table'[y])
        PROVE  {x, y} \in unseen' \/ x \in contested' \/ y \in contested'
    <3>1. CASE x = b
      BY <1>6, <2>1, <2>2, <2>3, <3>1
    <3>2. CASE y = b
      <4>1. SharesNight(table'[b], table'[x])
        BY <2>3, <3>2, SharesNightSymmetric
      <4>2. {b, x} \in unseen' \/ x \in contested'
        BY <1>6, <2>1, <2>2, <2>3, <3>2, <4>1
      <4>3. {b, x} = {x, y}
        BY <3>2
      <4> QED BY <4>2, <4>3
    <3>3. CASE x # b /\ y # b
      BY <1>2, <1>4, <2>3, <3>3 DEF NightsSoldOnce, SoldTogether, Active, Stored
    <3> QED BY <3>1, <3>2, <3>3
  <2> QED BY <2>3 DEF NightsSoldOnce, SoldTogether, SharesNight, Nights
<1>11. CallsWereAllowed'
  BY <1>2, <1>3 DEF CallsWereAllowed
<1>12. \A h \in Updates : call[h] # NoCall =>
         call[h].booking \in Rows /\ table'[call[h].booking] = table[call[h].booking]
  BY <1>3, <1>4 DEF CallsWereAllowed, Rows
<1>13. SnapshotsAreCurrent'
  BY <1>2, <1>12 DEF SnapshotsAreCurrent, InPatch, Stored, TypeOK
<1>14. SavesAreRecorded'
  BY <1>2, <1>12 DEF SavesAreRecorded, Overwrote, AskedRefund, Stored
<1>15. CancelsAreFinal'
  BY <1>2, <1>12 DEF CancelsAreFinal, SavesAreRecorded, Overwrote, InPatch, Stored
<1> QED BY <1>1, <1>2, <1>8, <1>9, <1>10, <1>11, <1>13, <1>14, <1>15,
           NoticesFrame, SettleFrame, PolicyFrame

(* The mail about a creation decides nothing.                               *)
LEMMA CreateFinishPreserves ==
  ASSUME IInv, NEW b \in Bookings, CreateFinish(b)
  PROVE  IInv'
<1> USE DEF IInv, patchVars, historyVars
<1>1. TypeOK'
  BY CreateType DEF CreateStep
<1>2. UNCHANGED <<today, table, request, step, call, refund, unseen, contested, overwrote>>
  BY DEF CreateFinish
<1>3. RowsMatchRequests' /\ ChecksStillHold' /\ CallsWereAllowed'
  BY <1>2, StageMovePreserves DEF CreateFinish
<1>4. NoticesHaveAuthors'
  BY <1>2 DEF CreateFinish, NoticesHaveAuthors, Overwrote
<1> QED BY <1>1, <1>2, <1>3, <1>4, NightsFrame, SnapshotsFrame, SavesFrame, CancelsFrame,
           SettleFrame, PolicyFrame

(* Every step of POST /bookings/ preserves the invariant.                   *)
LEMMA CreatePreserves ==
  ASSUME IInv, NEW b \in Bookings, CreateStep(b)
  PROVE  IInv'
<1>1. CASE CreateRequest(b)
  BY <1>1, CreateRequestPreserves
<1>2. CASE TxnCheck(b)
  BY <1>2, TxnCheckPreserves
<1>3. CASE TxnInsert(b)
  BY <1>3, TxnInsertPreserves
<1>4. CASE CreateFinish(b)
  BY <1>4, CreateFinishPreserves
<1>5. CASE CreateGapCheck(b) \/ CreateQuote(b) \/ CreateRefused(b) \/ CreateKilled(b)
  <2> USE DEF IInv
  <2>1. TypeOK'
    BY CreateType
  <2>2. UNCHANGED <<today, table, request, step, call, refund, notices, unseen,
                    contested, overwrote>>
    BY <1>5 DEF CreateGapCheck, CreateQuote, CreateRefused, CreateKilled, patchVars, historyVars
  <2>3. \E from \in CreateStage, to \in CreateStage :
          /\ CreateMoves(b, from, to) /\ to # "checked"
          /\ from \in {"stored", "done"} => to \in {"stored", "done"}
    BY <1>5 DEF CreateGapCheck, CreateQuote, CreateRefused, CreateKilled, CreateStage
  <2>4. RowsMatchRequests' /\ ChecksStillHold' /\ CallsWereAllowed'
    BY <2>2, <2>3, StageMovePreserves
  <2> QED BY <2>1, <2>2, <2>4, NightsFrame, SnapshotsFrame, SavesFrame, CancelsFrame,
             NoticesFrame, SettleFrame, PolicyFrame
<1> QED BY <1>1, <1>2, <1>3, <1>4, <1>5 DEF CreateStep

-----------------------------------------------------------------------------
(* PATCH /bookings/{id}/status preserves the invariant.                     *)

LEMMA PatchReadPreserves ==
  ASSUME IInv, NEW h \in Updates, PatchRead(h)
  PROVE  IInv'
<1> USE DEF IInv, createVars
<1>1. TypeOK'
  BY PatchType DEF PatchProcess
<1>2. UNCHANGED <<today, table, stage, request, refund, notices, unseen, overwrote>>
  BY DEF PatchRead
<1>3. PICK b \in Rows, u \in Users, new \in Status :
        /\ PatchAccepts(b, new, u)
        /\ call' = [call EXCEPT ![h] =
             [booking |-> b, user |-> u, target |-> new, seen |-> table[b], day |-> today]]
        /\ contested' = IF \E g \in Updates : InPatch(g, b)
                        THEN contested \cup {b} ELSE contested
  BY DEF PatchRead
<1>4. /\ step[h] = "idle" /\ step'[h] = "accepted"
      /\ \A g \in Updates \ {h} : step'[g] = step[g] /\ call'[g] = call[g]
      /\ call'[h] = [booking |-> b, user |-> u, target |-> new, seen |-> table[b], day |-> today]
  BY <1>3 DEF PatchRead, PatchMoves, TypeOK
<1>5. contested \subseteq contested'
  BY <1>3
<1>6. Stored(b) /\ new \in ValidTransitions[table[b].status] /\ table[b] \in Row
  BY <1>3 DEF PatchAccepts, TransitionAllowed, Stored, TypeOK
<1>7. b \in Bookings
  BY <1>3 DEF PatchAccepts, RowsMatchRequests, Rows
<1>8. ~Overwrote(h) /\ ~AskedRefund(h)
  BY <1>4 DEF SavesAreRecorded
<1>9. CallsWereAllowed'
  <2>1. today <= today
    <3>1. today \in Int
      BY DayType DEF TypeOK
    <3> QED BY <3>1
  <2>2. stage[b] \in {"stored", "done"}
    BY <1>6, <1>7 DEF RowsMatchRequests
  <2> QED BY <1>2, <1>4, <1>6, <1>7, <2>1, <2>2 DEF CallsWereAllowed
<1> DEFINE Pending(k, x) == step'[k] \in {"accepted", "loaded"} /\ call'[k].booking = x
<1>10. SnapshotsAreCurrent'
  <2>1. ASSUME NEW g \in Updates, step'[g] \in {"accepted", "loaded"},
               call'[g].booking \notin contested'
        PROVE  /\ \A k \in Updates : Pending(k, call'[g].booking) => k = g
               /\ table'[call'[g].booking] # NoRow
                    => table'[call'[g].booking].status = call'[g].seen.status
    <3>1. CASE g = h
      <4>1. call'[g].booking = b /\ call'[g].seen = table[b]
        BY <1>4, <3>1
      <4>2. \A k \in Updates : ~InPatch(k, b)
        BY <1>3, <2>1, <4>1
      <4>3. \A k \in Updates : Pending(k, b) => k = h
        BY <1>4, <4>2 DEF InPatch
      <4> QED BY <1>2, <3>1, <4>1, <4>3
    <3>2. CASE g # h
      <4>1. step[g] \in {"accepted", "loaded"} /\ call'[g] = call[g]
        BY <1>4, <2>1, <3>2
      <4>2. InPatch(g, call[g].booking) /\ call[g].booking \notin contested
        BY <1>5, <2>1, <4>1 DEF InPatch
      <4>3. call[g].booking # b
        BY <1>3, <2>1, <4>1, <4>2
      <4>4. /\ \A k \in Updates : InPatch(k, call[g].booking) => k = g
            /\ Stored(call[g].booking)
                 => table[call[g].booking].status = call[g].seen.status
        BY <4>1, <4>2 DEF SnapshotsAreCurrent
      <4>5. \A k \in Updates : Pending(k, call[g].booking) => InPatch(k, call[g].booking)
        BY <1>4, <4>3 DEF InPatch
      <4> QED BY <1>2, <4>1, <4>4, <4>5 DEF Stored
    <3> QED BY <3>1, <3>2
  <2> QED BY <2>1 DEF SnapshotsAreCurrent, InPatch, Stored
<1>11. \A g \in Updates : /\ Overwrote(g)' <=> Overwrote(g)
                          /\ AskedRefund(g)' <=> AskedRefund(g)
                          /\ Overwrote(g) \/ AskedRefund(g) => g # h
  BY <1>2, <1>8 DEF Overwrote, AskedRefund, NoRefund
<1>12. SavesAreRecorded'
  <2>1. ASSUME NEW g \in Updates
        PROVE  /\ step'[g] \in {"idle", "accepted", "loaded"} => ~Overwrote(g)'
               /\ step'[g] \in {"saved", "invalidated", "refunded"} => Overwrote(g)'
               /\ AskedRefund(g)' => /\ Overwrote(g)' /\ step'[g] \in {"refunded", "answered", "killed"}
                                     /\ call'[g].target = "cancelled"
    BY <1>4, <1>8, <1>11 DEF SavesAreRecorded
  <2>2. ASSUME NEW g \in Updates, Overwrote(g)
        PROVE  /\ call'[g] # NoCall
               /\ table'[call'[g].booking] # NoRow => table'[call'[g].booking].status # "pending"
               /\ \/ call'[g].booking \in contested'
                  \/ overwrote'[g] = "no row"
                  \/ overwrote'[g] = call'[g].seen.status
    <3>1. call'[g] = call[g]
      BY <1>4, <1>11, <2>2
    <3> QED BY <1>2, <1>5, <2>2, <3>1 DEF SavesAreRecorded, Stored
  <2> QED BY <1>11, <2>1, <2>2 DEF SavesAreRecorded, Stored
<1>13. CancelsAreFinal'
  <2>1. ASSUME NEW g \in Updates, Overwrote(g), call'[g].target = "cancelled",
               call'[g].booking \notin contested'
        PROVE  /\ table'[call'[g].booking] # NoRow
                    => table'[call'[g].booking].status = "cancelled"
               /\ \A k \in Updates : ~Pending(k, call'[g].booking)
               /\ \A k \in Updates :
                    Overwrote(k) /\ call'[k].target = "cancelled"
                      /\ call'[k].booking = call'[g].booking => k = g
    <3>1. call'[g] = call[g]
      BY <1>4, <1>11, <2>1
    <3>2. /\ Stored(call[g].booking) => table[call[g].booking].status = "cancelled"
          /\ \A k \in Updates : ~InPatch(k, call[g].booking)
          /\ \A k \in Updates :
               Overwrote(k) /\ call[k].target = "cancelled"
                 /\ call[k].booking = call[g].booking => k = g
      BY <1>5, <2>1, <3>1 DEF CancelsAreFinal
    <3>3. call[g].booking # b
      BY <1>6, <3>2, TransitionTargets DEF Row, ActiveStatus
    <3>4. \A k \in Updates : ~Pending(k, call[g].booking)
      BY <1>4, <3>2, <3>3 DEF InPatch
    <3>5. \A k \in Updates : Overwrote(k) => call'[k] = call[k]
      BY <1>4, <1>11
    <3> QED BY <1>2, <3>1, <3>2, <3>4, <3>5 DEF Stored
  <2> QED BY <1>11, <2>1 DEF CancelsAreFinal, InPatch, Stored
<1>14. NoticesHaveAuthors'
  BY <1>2, <1>4, <1>11 DEF NoticesHaveAuthors
<1>15. GuestCancelsSettle'
  <2>1. \A g \in Updates \ {h} : IsGuestCancel(call'[g]) <=> IsGuestCancel(call[g])
    BY <1>4
  <2> QED BY <1>2, <1>4, <1>11, <2>1 DEF GuestCancelsSettle, Decided
<1>16. RefundWithinPolicy'
  <2>1. \A g \in Updates : refund[g].basis \in Policy => AskedRefund(g)
    BY DEF AskedRefund, NoRefund, Policy
  <2> QED BY <1>2, <1>4, <1>11, <2>1 DEF RefundWithinPolicy
<1> QED BY <1>1, <1>2, <1>5, <1>9, <1>10, <1>12, <1>13, <1>14, <1>15, <1>16,
           RowsFrame, ChecksFrame, NightsFrame

(* A handler that moves on without writing anything.                        *)
LEMMA PatchMovePreserves ==
  ASSUME IInv, NEW h \in Updates,
         PatchRefused(h) \/ PatchReload(h) \/ PatchInvalidate(h) \/ PatchKilled(h)
  PROVE  IInv'
<1> USE DEF IInv, createVars, historyVars
<1>1. TypeOK'
  BY PatchType DEF PatchProcess, PatchHandlerStep
<1>2. UNCHANGED <<today, table, stage, request, call, refund, notices, unseen, contested,
                  overwrote>>
  BY DEF PatchRefused, PatchReload, PatchInvalidate, PatchKilled
<1>3. /\ \A g \in Updates \ {h} : step'[g] = step[g]
      /\ \/ step[h] = "idle" /\ step'[h] = "answered"
         \/ step[h] = "accepted" /\ step'[h] \in {"loaded", "answered", "killed"}
         \/ step[h] = "loaded" /\ step'[h] = "killed"
         \/ step[h] = "saved" /\ step'[h] \in {"invalidated", "killed"}
         \/ step[h] \in {"invalidated", "refunded"} /\ step'[h] = "killed"
  BY DEF PatchRefused, PatchReload, PatchInvalidate, PatchKilled, PatchMoves, TypeOK
<1>4. \A g \in Updates : \A b : InPatch(g, b)' => InPatch(g, b)
  BY <1>2, <1>3 DEF InPatch
<1>5. SnapshotsAreCurrent'
  <2>1. \A g \in Updates : step'[g] \in {"accepted", "loaded"} => step[g] \in {"accepted", "loaded"}
    BY <1>3
  <2> QED BY <1>2, <1>4, <2>1 DEF SnapshotsAreCurrent, Stored
<1>6. \A g \in Updates : /\ Overwrote(g)' <=> Overwrote(g)
                         /\ AskedRefund(g)' <=> AskedRefund(g)
  BY <1>2 DEF Overwrote, AskedRefund, NoRefund
<1>7. \A x : Stored(x)' <=> Stored(x)
  BY <1>2 DEF Stored
<1>8. SavesAreRecorded'
  BY <1>2, <1>3, <1>6, <1>7 DEF SavesAreRecorded
<1>9. CancelsAreFinal'
  BY <1>2, <1>4, <1>6, <1>7 DEF CancelsAreFinal
<1>10. GuestCancelsSettle'
  <2>1. \A g \in Updates : Decided(g)' => Decided(g)
    BY <1>3, <1>6 DEF Decided, SavesAreRecorded
  <2>2. \A g \in Updates : IsGuestCancel(call'[g]) <=> IsGuestCancel(call[g])
    BY <1>2
  <2> QED BY <1>2, <2>1, <2>2 DEF GuestCancelsSettle
<1> QED BY <1>1, <1>2, <1>5, <1>8, <1>9, <1>10, RowsFrame, ChecksFrame, NightsFrame,
           CallsFrame, NoticesFrame, PolicyFrame

(* The save: a status that was current when it was read is replaced along   *)
(* the transition table; a stale one leaves the booking contested.          *)
LEMMA PatchSavePreserves ==
  ASSUME IInv, NEW h \in Updates, PatchSave(h)
  PROVE  IInv'
<1> USE DEF IInv, createVars
<1> DEFINE b == call[h].booking
<1> DEFINE Pending(k, x) == step'[k] \in {"accepted", "loaded"} /\ call[k].booking = x
<1>1. TypeOK'
  BY PatchType DEF PatchProcess, PatchHandlerStep
<1>2. UNCHANGED <<today, stage, request, call, refund, notices, unseen, contested>>
  BY DEF PatchSave
<1>3. /\ step[h] = "loaded" /\ step'[h] = "saved"
      /\ \A g \in Updates \ {h} : step'[g] = step[g]
  BY DEF PatchSave, PatchMoves, TypeOK
<1>4. call[h] \in Call /\ call[h] # NoCall
  BY <1>3 DEF TypeOK
<1>5. /\ b \in Bookings /\ b \in Rows /\ b \notin Imports
      /\ call[h].target \in ValidTransitions[call[h].seen.status]
  BY <1>4, DisjointAssumption DEF CallsWereAllowed, Rows
<1>6. call[h].seen.status \in Status
  BY <1>4 DEF Call, Row
<1>7. \A x \in Rows \ {b} : table'[x] = table[x]
  BY DEF PatchSave, TypeOK
<1> DEFINE saved == [table[b] EXCEPT !.status = call[h].target]
<1>stored. Stored(b) => table[b] \in Row /\ table'[b] = saved
  BY <1>5 DEF PatchSave, Stored, TypeOK
<1>gone. ~Stored(b) => table'[b] = NoRow
  BY DEF PatchSave, Stored
<1>fields. table[b] \in Row =>
         /\ saved.property = table[b].property /\ saved.from = table[b].from
         /\ saved.to = table[b].to /\ saved.status = call[h].target
         /\ saved \in Row
  <2>1. call[h].target \in Status
    BY <1>4 DEF Call
  <2> HIDE DEF IInv
  <2> QED BY <2>1 DEF Row
<1> HIDE DEF saved
<1>8. Stored(b) <=> table'[b] # NoRow
  BY <1>gone, <1>stored, <1>fields, NullAssumption
<1>9. Stored(b) => /\ table'[b].property = table[b].property
                   /\ table'[b].from = table[b].from /\ table'[b].to = table[b].to
                   /\ table'[b].status = call[h].target
  BY <1>stored, <1>fields
<1>10. \/ b \in contested
       \/ /\ \A g \in Updates : InPatch(g, b) => g = h
          /\ Stored(b) => table[b].status = call[h].seen.status
  BY <1>3 DEF SnapshotsAreCurrent
<1>11. call[h].target # "pending"
  BY <1>5, <1>6, TransitionTargets
<1>12. b \notin contested => \A x \in Rows : table'[x] # NoRow /\ table'[x].status \in ActiveStatus => Active(x)
  <2>1. call[h].target \in ActiveStatus => call[h].seen.status \in ActiveStatus
    BY <1>5, <1>6, TransitionTargets
  <2> QED BY <1>7, <1>8, <1>9, <1>10, <2>1 DEF Active, Stored
<1>13. \A x \in Rows : table'[x] # NoRow =>
         /\ Stored(x) /\ table'[x].property = table[x].property
         /\ table'[x].from = table[x].from /\ table'[x].to = table[x].to
  BY <1>7, <1>8, <1>9 DEF Stored
<1>14. RowsMatchRequests'
  <2>1. \A i \in Imports : table'[i] = table[i] /\ i \in Rows
    BY <1>5, <1>7 DEF Rows
  <2> QED BY <1>2, <1>13, <2>1 DEF RowsMatchRequests, Stored, Rows
<1>15. ChecksStillHold'
  <2>1. ASSUME NEW c \in Bookings, NEW x \in Rows,
               stage[c] = "checked", x # c, table'[x] # NoRow,
               table'[x].status \in ActiveStatus,
               table'[x].property = request[c].property, SharesNight(request[c], table'[x])
        PROVE  {c, x} \in unseen \/ x \in contested
    <3>1. SharesNight(request[c], table[x])
      BY <1>13, <2>1 DEF SharesNight, Nights
    <3>2. CASE b \notin contested \/ x # b
      <4>1. Active(x)
        BY <1>7, <1>12, <2>1, <3>2 DEF Active, Stored
      <4> QED BY <1>13, <2>1, <3>1, <4>1 DEF ChecksStillHold
    <3>3. CASE b \in contested /\ x = b
      BY <3>3
    <3> QED BY <3>2, <3>3
  <2>2. \A c, d \in Bookings :
          c # d /\ stage[c] = "checked" /\ stage[d] = "checked" => {c, d} \in unseen
    BY DEF ChecksStillHold
  <2> QED BY <1>2, <2>1, <2>2 DEF ChecksStillHold, Active, Stored, SharesNight, Nights
<1>16. NightsSoldOnce'
  <2>1. ASSUME NEW x \in Rows, NEW y \in Rows, x # y, {x, y} \cap Bookings # {},
               table'[x] # NoRow, table'[x].status \in ActiveStatus,
               table'[y] # NoRow, table'[y].status \in ActiveStatus,
               table'[x].property = table'[y].property, SharesNight(table'[x], table'[y])
        PROVE  {x, y} \in unseen \/ x \in contested \/ y \in contested
    <3>1. SharesNight(table[x], table[y]) /\ table[x].property = table[y].property
      BY <1>13, <2>1 DEF SharesNight, Nights
    <3>2. CASE b \notin contested \/ (x # b /\ y # b)
      <4>1. Active(x) /\ Active(y)
        BY <1>7, <1>12, <2>1, <3>2 DEF Active, Stored
      <4> QED BY <2>1, <3>1, <4>1 DEF NightsSoldOnce, SoldTogether
    <3>3. CASE b \in contested /\ (x = b \/ y = b)
      BY <3>3
    <3> QED BY <3>2, <3>3
  <2> QED BY <1>2, <2>1 DEF NightsSoldOnce, SoldTogether, Active, Stored, SharesNight, Nights
<1>17. \A g \in Updates : Overwrote(g)' <=> Overwrote(g) \/ g = h
  <2>1. \A g \in Updates \ {h} : overwrote'[g] = overwrote[g]
    BY DEF PatchSave, TypeOK
  <2>2. overwrote'[h] = IF Stored(b) THEN table[b].status ELSE "no row"
    BY DEF PatchSave, TypeOK
  <2>3. Stored(b) => table[b].status \in Status
    BY <1>5 DEF Stored, TypeOK, Row
  <2>4. overwrote'[h] # "none"
    BY <2>2, <2>3 DEF Status
  <2> QED BY <2>1, <2>4 DEF Overwrote
<1>18. ~Overwrote(h) /\ ~AskedRefund(h)
  BY <1>3 DEF SavesAreRecorded
<1>19. \A g \in Updates : AskedRefund(g)' <=> AskedRefund(g)
  BY <1>2 DEF AskedRefund, NoRefund
<1>20. SnapshotsAreCurrent'
  <2>1. ASSUME NEW g \in Updates, step'[g] \in {"accepted", "loaded"},
               call[g].booking \notin contested
        PROVE  /\ \A k \in Updates : Pending(k, call[g].booking) => k = g
               /\ table'[call[g].booking] # NoRow
                    => table'[call[g].booking].status = call[g].seen.status
    <3>1. g # h /\ step[g] \in {"accepted", "loaded"}
      BY <1>3, <2>1
    <3>2. /\ \A k \in Updates : InPatch(k, call[g].booking) => k = g
          /\ Stored(call[g].booking) => table[call[g].booking].status = call[g].seen.status
      BY <2>1, <3>1 DEF SnapshotsAreCurrent
    <3>3. call[g].booking # b
      BY <1>3, <3>1, <3>2 DEF InPatch
    <3>4. call[g].booking \in Rows
      BY <3>1 DEF TypeOK, Call
    <3> QED BY <1>3, <1>7, <3>2, <3>3, <3>4 DEF InPatch, Stored
  <2> QED BY <1>2, <2>1 DEF SnapshotsAreCurrent, InPatch, Stored
<1>21. SavesAreRecorded'
  <2>1. ASSUME NEW g \in Updates
        PROVE  /\ step'[g] \in {"idle", "accepted", "loaded"} => ~Overwrote(g)'
               /\ step'[g] \in {"saved", "invalidated", "refunded"} => Overwrote(g)'
               /\ AskedRefund(g)' => /\ Overwrote(g)' /\ step'[g] \in {"refunded", "answered", "killed"}
                                     /\ call[g].target = "cancelled"
    BY <1>3, <1>17, <1>18, <1>19 DEF SavesAreRecorded
  <2>2. ASSUME NEW g \in Updates, Overwrote(g) \/ g = h
        PROVE  /\ call[g] # NoCall
               /\ table'[call[g].booking] # NoRow => table'[call[g].booking].status # "pending"
               /\ \/ call[g].booking \in contested
                  \/ overwrote'[g] = "no row"
                  \/ overwrote'[g] = call[g].seen.status
    <3>1. CASE g = h
      <4>1. overwrote'[h] = IF Stored(b) THEN table[b].status ELSE "no row"
        BY DEF PatchSave, TypeOK
      <4> QED BY <1>4, <1>8, <1>9, <1>10, <1>11, <3>1, <4>1
    <3>2. CASE g # h
      <4>1. overwrote'[g] = overwrote[g]
        BY <3>2 DEF PatchSave, TypeOK
      <4>2. /\ call[g] # NoCall
            /\ Stored(call[g].booking) => table[call[g].booking].status # "pending"
            /\ \/ call[g].booking \in contested
               \/ overwrote[g] = "no row"
               \/ overwrote[g] = call[g].seen.status
        BY <2>2, <3>2 DEF SavesAreRecorded
      <4>3. call[g].booking \in Rows
        BY <4>2 DEF TypeOK, Call
      <4>4. table'[call[g].booking] # NoRow => table'[call[g].booking].status # "pending"
        BY <1>7, <1>8, <1>9, <1>11, <4>2, <4>3 DEF Stored
      <4> QED BY <4>1, <4>2, <4>4
    <3> QED BY <3>1, <3>2
  <2> QED BY <1>2, <1>17, <2>1, <2>2 DEF SavesAreRecorded, Stored
<1>22. CancelsAreFinal'
  <2>1. ASSUME NEW g \in Updates, Overwrote(g), call[g].target = "cancelled",
               call[g].booking \notin contested
        PROVE  call[g].booking # b
    BY <1>3, <2>1 DEF CancelsAreFinal, InPatch
  <2>2. ASSUME NEW g \in Updates, Overwrote(g) \/ g = h, call[g].target = "cancelled",
               call[g].booking \notin contested
        PROVE  /\ table'[call[g].booking] # NoRow
                    => table'[call[g].booking].status = "cancelled"
               /\ \A k \in Updates : ~Pending(k, call[g].booking)
               /\ \A k \in Updates :
                    (Overwrote(k) \/ k = h) /\ call[k].target = "cancelled"
                      /\ call[k].booking = call[g].booking => k = g
    <3>1. CASE g = h
      <4>1. \A k \in Updates : ~Pending(k, b)
        BY <1>3, <1>10, <2>2, <3>1 DEF InPatch
      <4> QED BY <1>8, <1>9, <2>1, <2>2, <3>1, <4>1
    <3>2. CASE g # h
      <4>1. call[g].booking # b
        BY <2>1, <2>2, <3>2
      <4>2. call[g].booking \in Rows
        BY <2>2, <3>2 DEF SavesAreRecorded, TypeOK, Call
      <4>3. /\ Stored(call[g].booking) => table[call[g].booking].status = "cancelled"
            /\ \A k \in Updates : ~InPatch(k, call[g].booking)
            /\ \A k \in Updates :
                 Overwrote(k) /\ call[k].target = "cancelled"
                   /\ call[k].booking = call[g].booking => k = g
        BY <2>2, <3>2 DEF CancelsAreFinal
      <4>4. \A k \in Updates : ~Pending(k, call[g].booking)
        BY <1>3, <4>3 DEF InPatch
      <4> QED BY <1>7, <4>1, <4>2, <4>3, <4>4 DEF Stored
    <3> QED BY <3>1, <3>2
  <2> QED BY <1>2, <1>17, <2>2 DEF CancelsAreFinal, InPatch, Stored
<1>23. NoticesHaveAuthors'
  BY <1>2, <1>17 DEF NoticesHaveAuthors
<1>24. GuestCancelsSettle'
  <2>1. \A g \in Updates : Decided(g)' => Decided(g)
    BY <1>3, <1>17 DEF Decided
  <2>2. \A g \in Updates : IsGuestCancel(call'[g]) <=> IsGuestCancel(call[g])
    BY <1>2
  <2> QED BY <1>2, <2>1, <2>2 DEF GuestCancelsSettle
<1> QED BY <1>1, <1>2, <1>14, <1>15, <1>16, <1>20, <1>21, <1>22, <1>23, <1>24,
           CallsFrame, PolicyFrame

(* The refund is decided on the snapshot and on a date no earlier than the  *)
(* day of the call.                                                         *)
LEMMA PatchRefundPreserves ==
  ASSUME IInv, NEW h \in Updates, PatchRefund(h)
  PROVE  IInv'
<1> USE DEF IInv, createVars, historyVars
<1>1. TypeOK'
  BY PatchType DEF PatchProcess, PatchHandlerStep
<1>2. UNCHANGED <<today, table, stage, request, call, notices, unseen, contested, overwrote>>
  BY DEF PatchRefund
<1>3. /\ step[h] = "invalidated" /\ step'[h] = "refunded"
      /\ \A g \in Updates \ {h} : step'[g] = step[g]
  BY DEF PatchRefund, PatchMoves, TypeOK
<1>4. PICK r \in RefundsAsked(call[h]) : refund' = [refund EXCEPT ![h] = r]
  BY DEF PatchRefund
<1>5. refund'[h] = r /\ \A g \in Updates \ {h} : refund'[g] = refund[g]
  BY <1>4 DEF TypeOK
<1>6. call[h] \in Call /\ call[h] # NoCall
  BY <1>3 DEF TypeOK
<1>7. Overwrote(h)
  BY <1>3 DEF SavesAreRecorded
<1>8. r # NoRefund => call[h].target = "cancelled"
  BY DEF RefundsAsked, IsStaffCancel, IsGuestCancel
<1>9. \A g \in Updates : \A b : InPatch(g, b)' => InPatch(g, b)
  BY <1>2, <1>3 DEF InPatch
<1>10. \A g \in Updates : Overwrote(g)' <=> Overwrote(g)
  BY <1>2 DEF Overwrote
<1>11. \A x : Stored(x)' <=> Stored(x)
  BY <1>2 DEF Stored
<1>12. SnapshotsAreCurrent'
  <2>1. \A g \in Updates :
          step'[g] \in {"accepted", "loaded"} => step[g] \in {"accepted", "loaded"}
    BY <1>3
  <2> QED BY <1>2, <1>9, <1>11, <2>1 DEF SnapshotsAreCurrent
<1>13. SavesAreRecorded'
  <2>1. \A g \in Updates : AskedRefund(g)' =>
          /\ Overwrote(g) /\ call[g].target = "cancelled"
          /\ step'[g] \in {"refunded", "answered", "killed"}
    BY <1>3, <1>5, <1>7, <1>8 DEF SavesAreRecorded, AskedRefund, NoRefund
  <2> QED BY <1>2, <1>3, <1>10, <1>11, <2>1 DEF SavesAreRecorded
<1>14. CancelsAreFinal'
  BY <1>2, <1>9, <1>10, <1>11 DEF CancelsAreFinal
<1>15. GuestCancelsSettle'
  <2>1. ASSUME IsGuestCancel(call[h]), call[h].seen.status = "confirmed"
        PROVE  r.basis \in Policy \cup {"unavailable"}
    BY <2>1 DEF RefundsAsked, IsGuestCancel
  <2>2. \A g \in Updates : IsGuestCancel(call'[g]) <=> IsGuestCancel(call[g])
    BY <1>2
  <2>3. \A g \in Updates \ {h} : Decided(g)' <=> Decided(g)
    BY <1>3, <1>10 DEF Decided
  <2> QED BY <1>2, <1>5, <2>1, <2>2, <2>3 DEF GuestCancelsSettle
<1>16. RefundWithinPolicy'
  <2>1. ASSUME r.basis \in Policy
        PROVE  /\ call[h].seen.status = "confirmed" /\ call[h].user = call[h].seen.guest
               /\ r.percent <= RefundPercent(r.basis, call[h].seen.from - call[h].day)
    <3>1. /\ IsGuestCancel(call[h]) /\ call[h].seen.status = "confirmed"
          /\ r.percent = RefundPercent(r.basis, call[h].seen.from - today)
      BY <2>1 DEF RefundsAsked, NoRefund, Policy
    <3>2. /\ today \in Int /\ call[h].day \in Int /\ call[h].seen.from \in Int
          /\ call[h].day <= today
      BY <1>6, DayType DEF TypeOK, Call, Row, CallsWereAllowed
    <3>3. /\ call[h].seen.from - today \in Int /\ call[h].seen.from - call[h].day \in Int
          /\ call[h].seen.from - today <= call[h].seen.from - call[h].day
      BY <3>2
    <3>4. RefundPercent(r.basis, call[h].seen.from - today)
            <= RefundPercent(r.basis, call[h].seen.from - call[h].day)
      BY <2>1, <3>3, RefundPercentMonotone
    <3> QED BY <3>1, <3>4 DEF IsGuestCancel
  <2> QED BY <1>2, <1>5, <2>1 DEF RefundWithinPolicy
<1> QED BY <1>1, <1>2, <1>12, <1>13, <1>14, <1>15, <1>16, RowsFrame, ChecksFrame,
           NightsFrame, CallsFrame, NoticesFrame

(* A decision mail is sent only by the PATCH that saved the decision.       *)
LEMMA PatchNotifyPreserves ==
  ASSUME IInv, NEW h \in Updates, PatchNotify(h)
  PROVE  IInv'
<1> USE DEF IInv, createVars, historyVars
<1>1. TypeOK'
  BY PatchType DEF PatchProcess, PatchHandlerStep
<1>2. UNCHANGED <<today, table, stage, request, call, refund, unseen, contested, overwrote>>
  BY DEF PatchNotify
<1>3. /\ step[h] = "refunded" /\ step'[h] = "answered"
      /\ \A g \in Updates \ {h} : step'[g] = step[g]
  BY DEF PatchNotify, PatchMoves, TypeOK
<1>4. Overwrote(h)
  BY <1>3 DEF SavesAreRecorded
<1>5. \A g \in Updates : \A b : InPatch(g, b)' => InPatch(g, b)
  BY <1>2, <1>3 DEF InPatch
<1>6. \A g \in Updates : /\ Overwrote(g)' <=> Overwrote(g)
                         /\ AskedRefund(g)' <=> AskedRefund(g)
                         /\ Decided(g)' <=> Decided(g)
  BY <1>2, <1>3 DEF Overwrote, AskedRefund, NoRefund, Decided
<1>7. \A x : Stored(x)' <=> Stored(x)
  BY <1>2 DEF Stored
<1>8. SnapshotsAreCurrent'
  <2>1. \A g \in Updates :
          step'[g] \in {"accepted", "loaded"} => step[g] \in {"accepted", "loaded"}
    BY <1>3
  <2> QED BY <1>2, <1>5, <1>7, <2>1 DEF SnapshotsAreCurrent
<1>9. SavesAreRecorded'
  BY <1>2, <1>3, <1>6, <1>7 DEF SavesAreRecorded
<1>10. CancelsAreFinal'
  BY <1>2, <1>5, <1>6, <1>7 DEF CancelsAreFinal
<1>11. NoticesHaveAuthors'
  <2>1. \A n \in Notifies(call[h]) :
          /\ n.booking = call[h].booking
          /\ n.kind = "cancelled" => call[h].target = "cancelled"
          /\ n.kind # "cancelled" => call[h].target = "confirmed"
    BY DEF Notifies
  <2>2. \A n \in notices' : n \in notices \/ n \in Notifies(call[h])
    BY DEF PatchNotify
  <2> QED BY <1>2, <1>4, <1>6, <2>1, <2>2 DEF NoticesHaveAuthors
<1>12. GuestCancelsSettle'
  <2>1. \A g \in Updates : IsGuestCancel(call'[g]) <=> IsGuestCancel(call[g])
    BY <1>2
  <2> QED BY <1>2, <1>6, <2>1 DEF GuestCancelsSettle
<1> QED BY <1>1, <1>2, <1>8, <1>9, <1>10, <1>11, <1>12, RowsFrame, ChecksFrame,
           NightsFrame, CallsFrame, PolicyFrame

(* Every step of PATCH /bookings/{id}/status preserves the invariant.       *)
LEMMA PatchPreserves ==
  ASSUME IInv, NEW h \in Updates, PatchProcess(h)
  PROVE  IInv'
<1>1. CASE PatchRead(h)
  BY <1>1, PatchReadPreserves
<1>2. CASE PatchRefused(h) \/ PatchReload(h) \/ PatchInvalidate(h) \/ PatchKilled(h)
  BY <1>2, PatchMovePreserves
<1>3. CASE PatchSave(h)
  BY <1>3, PatchSavePreserves
<1>4. CASE PatchRefund(h)
  BY <1>4, PatchRefundPreserves
<1>5. CASE PatchNotify(h)
  BY <1>5, PatchNotifyPreserves
<1> QED BY <1>1, <1>2, <1>3, <1>4, <1>5 DEF PatchProcess, PatchHandlerStep

-----------------------------------------------------------------------------
(* DELETE, the calendar sync and the clock preserve the invariant.          *)

LEMMA DeletePreserves ==
  ASSUME IInv, NEW x \in Rows, DeleteBooking(x)
  PROVE  IInv'
<1> USE DEF IInv, createVars, patchVars, historyVars
<1>1. TypeOK'
  BY DeleteType
<1>2. UNCHANGED <<today, stage, request, step, call, refund, notices, unseen, contested,
                  overwrote>>
  BY DEF DeleteBooking
<1>3. \A y \in Rows : table'[y] # NoRow => Stored(y) /\ table'[y] = table[y]
  BY DEF DeleteBooking, Stored, TypeOK
<1> DEFINE Known(g) == call[g].booking \in Rows
<1>kept. \A g \in Updates : step[g] \in {"accepted", "loaded"} \/ Overwrote(g) => Known(g)
  BY DEF SavesAreRecorded, TypeOK, Call
<1>4. RowsMatchRequests'
  BY <1>2, <1>3 DEF RowsMatchRequests, Stored, Rows
<1>5. ChecksStillHold'
  BY <1>2, <1>3 DEF ChecksStillHold, Active, Stored, SharesNight, Nights
<1>6. NightsSoldOnce'
  BY <1>2, <1>3 DEF NightsSoldOnce, SoldTogether, Active, Stored, SharesNight, Nights
<1>7. SnapshotsAreCurrent'
  BY <1>2, <1>3, <1>kept DEF SnapshotsAreCurrent, InPatch, Stored
<1>8. SavesAreRecorded'
  <2>1. \A g \in Updates : /\ Overwrote(g)' <=> Overwrote(g)
                           /\ AskedRefund(g)' <=> AskedRefund(g)
    BY <1>2 DEF Overwrote, AskedRefund, NoRefund
  <2> QED BY <1>2, <1>3, <1>kept, <2>1 DEF SavesAreRecorded, Stored
<1>9. CancelsAreFinal'
  <2>1. \A g \in Updates : Overwrote(g)' <=> Overwrote(g)
    BY <1>2 DEF Overwrote
  <2> QED BY <1>2, <1>3, <1>kept, <2>1 DEF CancelsAreFinal, InPatch, Stored
<1> QED BY <1>1, <1>2, <1>4, <1>5, <1>6, <1>7, <1>8, <1>9, CallsFrame, NoticesFrame,
           SettleFrame, PolicyFrame

(* A statement of the calendar sync may overbook, and is recorded in unseen *)
(* when it does; it never touches a booked row.                             *)
LEMMA ChannelPreserves ==
  ASSUME IInv, NEW i \in Imports, ChannelStep(i)
  PROVE  IInv'
<1> USE DEF IInv, createVars, patchVars
<1>1. TypeOK'
  BY ChannelType
<1>2. /\ UNCHANGED <<today, stage, request, step, call, refund, notices, contested, overwrote>>
      /\ unseen \subseteq unseen'
  BY DEF ChannelStep, ChannelInsert, ChannelSetDates, ChannelCancel, ChannelTruncate,
         SyncUnchanged, Unchecked
<1>3. i \in Rows /\ i \notin Bookings
  BY DisjointAssumption DEF Rows
<1>4. \A x \in Rows \ {i} : table'[x] = table[x]
  BY DEF ChannelStep, ChannelInsert, ChannelSetDates, ChannelCancel, ChannelTruncate, TypeOK
<1>5. \A b \in Bookings : b \in Rows /\ table'[b] = table[b]
  BY <1>3, <1>4 DEF Rows
<1>6. /\ table'[i].channel = "imported"
      /\ table'[i].from < table'[i].to \/ table'[i].to <= today
  <2>1. CASE ChannelInsert(i)
    <3>1. PICK p \in Properties, s \in Offers :
            table' = [table EXCEPT ![i] =
              [ property |-> p, owner |-> Owner[p], guest |-> ChannelGuest,
                channel |-> "imported", from |-> s.from, to |-> s.to, status |-> "confirmed" ] ]
      BY <2>1 DEF ChannelInsert
    <3>2. table \in [Rows -> Row \cup {NoRow}]
      BY DEF TypeOK
    <3>3. table'[i].channel = "imported" /\ table'[i].from = s.from /\ table'[i].to = s.to
      BY <1>3, <3>1, <3>2
    <3> QED BY <3>3, OfferType
  <2>2. CASE ChannelSetDates(i)
    <3>1. PICK s \in Offers :
            table' = [table EXCEPT ![i].from = s.from, ![i].to = s.to, ![i].status = "confirmed"]
      BY <2>2 DEF ChannelSetDates
    <3>2. table[i] \in Row /\ table[i].channel = "imported"
      <4>1. Stored(i)
        BY <2>2 DEF ChannelSetDates
      <4>2. table[i].channel = "imported"
        BY <4>1 DEF RowsMatchRequests
      <4> QED BY <1>3, <4>1, <4>2 DEF Stored, TypeOK
    <3>3. /\ table'[i].channel = table[i].channel
          /\ table'[i].from = s.from /\ table'[i].to = s.to
      BY <1>3, <3>1, <3>2 DEF TypeOK, Row
    <3> QED BY <3>2, <3>3, OfferType
  <2>3. CASE ChannelCancel(i)
    <3>1. table[i] \in Row /\ table[i].channel = "imported"
      BY <1>3, <2>3 DEF ChannelCancel, Stored, TypeOK, RowsMatchRequests
    <3>2. /\ table'[i].channel = table[i].channel
          /\ table'[i].from = table[i].from /\ table'[i].to = table[i].to
      BY <1>3, <2>3, <3>1 DEF ChannelCancel, TypeOK, Row
    <3> QED BY <1>3, <2>3, <3>1, <3>2 DEF ChannelCancel, RowsMatchRequests
  <2>4. CASE ChannelTruncate(i)
    <3>1. table[i] \in Row /\ table[i].channel = "imported"
      <4>1. Stored(i)
        BY <2>4 DEF ChannelTruncate
      <4>2. table[i].channel = "imported"
        BY <4>1 DEF RowsMatchRequests
      <4> QED BY <1>3, <4>1, <4>2 DEF Stored, TypeOK
    <3>2. PICK day \in 0 .. today : table' = [table EXCEPT ![i].to = day]
      BY <2>4 DEF ChannelTruncate
    <3>3. table'[i].channel = table[i].channel /\ table'[i].to = day
      BY <1>3, <3>1, <3>2 DEF TypeOK, Row
    <3> QED BY <3>1, <3>2, <3>3
  <2> QED BY <2>1, <2>2, <2>3, <2>4 DEF ChannelStep
(* An imported row can share a night with a written request only if the     *)
(* pair is accounted for, or if it did so before.                           *)
<1>7. ASSUME NEW b \in Bookings, Written(b), NEW t,
             table'[i] # NoRow, table'[i].status \in ActiveStatus, SharesNight(t, table'[i])
      PROVE  \/ {i, b} \in unseen'
             \/ Active(i) /\ table'[i].property = table[i].property /\ SharesNight(t, table[i])
  <2>1. CASE ChannelInsert(i) \/ ChannelSetDates(i)
    BY <1>7, <2>1 DEF ChannelInsert, ChannelSetDates, Unchecked
  <2>2. CASE ChannelCancel(i)
    <3>1. table[i] \in Row
      BY <1>3, <2>2 DEF ChannelCancel, Stored, TypeOK
    <3>2. table'[i].status = "cancelled"
      BY <1>3, <2>2, <3>1 DEF ChannelCancel, TypeOK, Row
    <3> QED BY <1>7, <3>2 DEF ActiveStatus
  <2>3. CASE ChannelTruncate(i)
    <3>1. table[i] \in Row
      BY <1>3, <2>3 DEF ChannelTruncate, Stored, TypeOK
    <3>2. PICK day \in 0 .. today :
            /\ table' = [table EXCEPT ![i].to = day]
            /\ IF day > table[i].to THEN Unchecked(i) ELSE UNCHANGED unseen
      BY <2>3 DEF ChannelTruncate
    <3>3. CASE day > table[i].to
      BY <1>7, <3>2, <3>3 DEF Unchecked
    <3>4. CASE ~(day > table[i].to)
      <4>1. /\ table'[i].status = table[i].status /\ table'[i].property = table[i].property
            /\ table'[i].from = table[i].from /\ table'[i].to = day
        BY <1>3, <3>1, <3>2 DEF TypeOK, Row
      <4>2. day \in Int /\ table[i].from \in Int /\ table[i].to \in Int
        <5>1. table[i].from \in Day /\ table[i].to \in Day
          BY <3>1 DEF Row
        <5> QED BY <3>2, <5>1, DayType
      <4>3. Active(i)
        BY <1>7, <2>3, <4>1 DEF ChannelTruncate, Active, Stored
      <4>4. SharesNight(t, table[i])
        BY <1>7, <3>4, <4>1, <4>2 DEF SharesNight, Nights
      <4> QED BY <4>1, <4>3, <4>4
    <3> QED BY <3>3, <3>4
  <2> QED BY <2>1, <2>2, <2>3 DEF ChannelStep
<1>8. RowsMatchRequests'
  BY <1>2, <1>3, <1>4, <1>5, <1>6 DEF RowsMatchRequests, Stored, Rows
<1>9. ChecksStillHold'
  <2>1. ASSUME NEW b \in Bookings, NEW x \in Rows,
               stage[b] = "checked", x # b, table'[x] # NoRow,
               table'[x].status \in ActiveStatus,
               table'[x].property = request[b].property, SharesNight(request[b], table'[x])
        PROVE  {b, x} \in unseen' \/ x \in contested
    <3>1. CASE x = i
      <4>1. \/ {i, b} \in unseen'
            \/ Active(i) /\ table[i].property = request[b].property
                         /\ SharesNight(request[b], table[i])
        BY <1>7, <2>1, <3>1 DEF Written
      <4>2. {i, b} = {b, x}
        BY <3>1
      <4> QED BY <1>2, <2>1, <3>1, <4>1, <4>2 DEF ChecksStillHold
    <3>2. CASE x # i
      BY <1>2, <1>4, <2>1, <3>2 DEF ChecksStillHold, Active, Stored
    <3> QED BY <3>1, <3>2
  <2>2. \A c, d \in Bookings :
          c # d /\ stage[c] = "checked" /\ stage[d] = "checked" => {c, d} \in unseen'
    BY <1>2 DEF ChecksStillHold
  <2> QED BY <1>2, <2>1, <2>2 DEF ChecksStillHold, Active, Stored, SharesNight, Nights
<1>10. NightsSoldOnce'
  <2>1. ASSUME NEW b \in Bookings, table'[b] # NoRow, table'[b].status \in ActiveStatus,
               table'[i] # NoRow, table'[i].status \in ActiveStatus,
               table'[b].property = table'[i].property, SharesNight(table'[b], table'[i])
        PROVE  {i, b} \in unseen' \/ i \in contested \/ b \in contested
    <3>1. Active(b) /\ Written(b) /\ table'[b] = table[b]
      BY <1>5, <2>1 DEF Active, Stored, Written, RowsMatchRequests
    <3>2. \/ {i, b} \in unseen'
          \/ Active(i) /\ table[b].property = table[i].property
                       /\ SharesNight(table[b], table[i])
      BY <1>7, <2>1, <3>1
    <3>3. {b, i} = {i, b} /\ b # i /\ {b, i} \cap Bookings # {}
      BY <1>3
    <3> QED BY <1>2, <1>3, <1>5, <3>1, <3>2, <3>3 DEF NightsSoldOnce, SoldTogether
  <2>2. ASSUME NEW x \in Rows, NEW y \in Rows, x # y, {x, y} \cap Bookings # {},
               table'[x] # NoRow, table'[x].status \in ActiveStatus,
               table'[y] # NoRow, table'[y].status \in ActiveStatus,
               table'[x].property = table'[y].property, SharesNight(table'[x], table'[y])
        PROVE  {x, y} \in unseen' \/ x \in contested \/ y \in contested
    <3>1. CASE x = i
      <4>1. y \in Bookings
        BY <1>3, <2>2, <3>1
      <4>2. SharesNight(table'[y], table'[i])
        BY <2>2, <3>1, SharesNightSymmetric
      <4> QED BY <2>1, <2>2, <3>1, <4>1, <4>2
    <3>2. CASE y = i
      <4>1. x \in Bookings
        BY <1>3, <2>2, <3>2
      <4>2. {i, x} = {x, y}
        BY <3>2
      <4> QED BY <2>1, <2>2, <3>2, <4>1, <4>2
    <3>3. CASE x # i /\ y # i
      BY <1>2, <1>4, <2>2, <3>3 DEF NightsSoldOnce, SoldTogether, Active, Stored
    <3> QED BY <3>1, <3>2, <3>3
  <2> QED BY <1>2, <2>2 DEF NightsSoldOnce, SoldTogether, Active, Stored, SharesNight, Nights
<1>11. \A g \in Updates : step[g] \in {"accepted", "loaded"} \/ Overwrote(g) =>
         table'[call[g].booking] = table[call[g].booking]
  BY <1>5 DEF SavesAreRecorded, CallsWereAllowed, TypeOK
<1>12. SnapshotsAreCurrent'
  BY <1>2, <1>11 DEF SnapshotsAreCurrent, InPatch, Stored
<1>13. \A g \in Updates : /\ Overwrote(g)' <=> Overwrote(g)
                          /\ AskedRefund(g)' <=> AskedRefund(g)
  BY <1>2 DEF Overwrote, AskedRefund, NoRefund
<1>14. SavesAreRecorded'
  BY <1>2, <1>11, <1>13 DEF SavesAreRecorded, Stored
<1>15. CancelsAreFinal'
  BY <1>2, <1>11, <1>13 DEF CancelsAreFinal, InPatch, Stored
<1> QED BY <1>1, <1>2, <1>8, <1>9, <1>10, <1>12, <1>14, <1>15, CallsFrame, NoticesFrame,
           SettleFrame, PolicyFrame

(* The clock moves no booking; stays that were ended by today stay ended.   *)
LEMMA NextDayPreserves == IInv /\ NextDay => IInv'
<1> SUFFICES ASSUME IInv, NextDay PROVE IInv'
  OBVIOUS
<1> USE DEF IInv, createVars, patchVars, historyVars
<1>1. TypeOK'
  BY NextType DEF Next
<1>2. UNCHANGED <<table, stage, request, step, call, refund, notices, unseen, contested,
                  overwrote>>
  BY DEF NextDay
<1>3. today \in Int /\ today' = today + 1
  BY DayType DEF NextDay, TypeOK
<1>4. RowsMatchRequests'
  <2>1. \A x \in Rows : Stored(x) => table[x].to \in Int
    BY DayType DEF Stored, TypeOK, Row
  <2>2. \A x \in Rows : Stored(x) => table[x].from < table[x].to \/ table[x].to <= today'
    BY <1>3, <2>1 DEF RowsMatchRequests
  <2> QED BY <1>2, <2>2 DEF RowsMatchRequests, Stored
<1>5. CallsWereAllowed'
  <2>1. \A h \in Updates : call[h] # NoCall => call[h].day \in Int
    BY DayType DEF TypeOK, Call
  <2>2. \A h \in Updates : call[h] # NoCall => call[h].day <= today'
    BY <1>3, <2>1 DEF CallsWereAllowed
  <2> QED BY <1>2, <2>2 DEF CallsWereAllowed
<1> QED BY <1>1, <1>2, <1>4, <1>5, ChecksFrame, NightsFrame, SnapshotsFrame, SavesFrame,
           CancelsFrame, NoticesFrame, SettleFrame, PolicyFrame

(* A stuttering step preserves the invariant.                               *)
LEMMA StutterPreserves == IInv /\ UNCHANGED vars => IInv'
<1> SUFFICES ASSUME IInv, UNCHANGED vars PROVE IInv'
  OBVIOUS
<1> USE DEF IInv, vars, createVars, patchVars, historyVars
<1>1. TypeOK'
  BY NextType
<1>2. UNCHANGED <<today, table, stage, request, step, call, refund, notices, unseen,
                  contested, overwrote>>
  OBVIOUS
<1> QED BY <1>1, <1>2, RowsFrame, ChecksFrame, NightsFrame, CallsFrame, SnapshotsFrame,
           SavesFrame, CancelsFrame, NoticesFrame, SettleFrame, PolicyFrame

(* What every suspended handler may rely on holds in every reachable state. *)
THEOREM Invariance == Spec => []IInv
<1>1. Init => IInv
  BY InitInvariant
<1>2. IInv /\ [Next]_vars => IInv'
  <2> SUFFICES ASSUME IInv, [Next]_vars PROVE IInv'
    OBVIOUS
  <2>1. CASE NextDay
    BY <2>1, NextDayPreserves
  <2>2. ASSUME NEW b \in Bookings, CreateStep(b) PROVE IInv'
    BY <2>2, CreatePreserves
  <2>3. ASSUME NEW h \in Updates, PatchProcess(h) PROVE IInv'
    BY <2>3, PatchPreserves
  <2>4. ASSUME NEW x \in Rows, DeleteBooking(x) PROVE IInv'
    BY <2>4, DeletePreserves
  <2>5. ASSUME NEW i \in Imports, ChannelStep(i) PROVE IInv'
    BY <2>5, ChannelPreserves
  <2>6. CASE UNCHANGED vars
    BY <2>6, StutterPreserves
  <2> QED BY <2>1, <2>2, <2>3, <2>4, <2>5, <2>6 DEF Next
<1> QED BY <1>1, <1>2, PTL DEF Spec

-----------------------------------------------------------------------------
(* What follows from the invariant.                                         *)

(* A double booking needs a race: two active rows of a property that sell   *)
(* the same night were written without seeing one another, or one of them   *)
(* had two PATCHes in flight.                                               *)
THEOREM NightsSoldOnceHolds == Spec => []NightsSoldOnce
<1>1. IInv => NightsSoldOnce
  BY DEF IInv
<1> QED BY <1>1, Invariance, PTL

(* One refund request per booking, unless two PATCHes of it raced.          *)
THEOREM RefundedOnceHolds == Spec => []RefundedOnce
<1>1. IInv => RefundedOnce
  <2> SUFFICES ASSUME IInv, NEW g \in Updates, NEW h \in Updates, g # h,
                      AskedRefund(g), AskedRefund(h), call[g].booking = call[h].booking
               PROVE  call[g].booking \in contested
    BY DEF RefundedOnce
  <2>1. /\ Overwrote(g) /\ call[g].target = "cancelled"
        /\ Overwrote(h) /\ call[h].target = "cancelled"
    BY DEF IInv, SavesAreRecorded
  <2> QED BY <2>1 DEF IInv, CancelsAreFinal
<1> QED BY <1>1, Invariance, PTL

(* A guest's refund never exceeds the policy's on the day of the cancel.    *)
THEOREM RefundWithinPolicyHolds == Spec => []RefundWithinPolicy
<1>1. IInv => RefundWithinPolicy
  BY DEF IInv
<1> QED BY <1>1, Invariance, PTL

(* Decision mails stay true, unless two PATCHes of the booking raced.       *)
THEOREM NoticesTruthfulHolds == Spec => []NoticesTruthful
<1>1. IInv => NoticesTruthful
  <2> SUFFICES ASSUME IInv, NEW n \in notices, Stored(n.booking), n.booking \notin contested
               PROVE  /\ n.kind = "cancelled" => table[n.booking].status = "cancelled"
                      /\ n.kind \in {"confirmed", "checkin"}
                           => table[n.booking].status # "pending"
    BY DEF NoticesTruthful
  <2>1. CASE n.kind = "created"
    BY <2>1
  <2>2. CASE n.kind # "created"
    <3>1. PICK h \in Updates :
            /\ Overwrote(h) /\ call[h].booking = n.booking
            /\ call[h].target = IF n.kind = "cancelled" THEN "cancelled" ELSE "confirmed"
      BY <2>2 DEF IInv, NoticesHaveAuthors
    <3>2. table[n.booking].status # "pending"
      BY <3>1 DEF IInv, SavesAreRecorded
    <3>3. n.kind = "cancelled" => table[n.booking].status = "cancelled"
      BY <3>1 DEF IInv, CancelsAreFinal
    <3> QED BY <3>2, <3>3
  <2> QED BY <2>1, <2>2
<1> QED BY <1>1, Invariance, PTL

(* A guest's cancel of a confirmed booking goes through the cancellation    *)
(* policy, unless another PATCH of it was in flight.                        *)
THEOREM GuestCancelConsidersPolicyHolds == Spec => []GuestCancelConsidersPolicy
<1>1. IInv => GuestCancelConsidersPolicy
  <2> SUFFICES ASSUME IInv, NEW h \in Updates, call[h] # NoCall,
                      call[h].booking \notin contested, Settled(h),
                      IsGuestCancel(call[h]), overwrote[h] = "confirmed"
               PROVE  refund[h].basis \in Policy \cup {"unavailable"}
    BY DEF GuestCancelConsidersPolicy, PolicyConsidered
  <2>1. overwrote[h] = call[h].seen.status
    BY DEF IInv, SavesAreRecorded, Settled
  <2> QED BY <2>1 DEF IInv, GuestCancelsSettle, Decided, Settled
<1> QED BY <1>1, Invariance, PTL

(* The transition table is obeyed by every step on a platform booking that  *)
(* never had two PATCHes in flight at once.                                 *)
THEOREM TransitionsFollowedHolds == Spec => TransitionsFollowed
<1>1. IInv /\ [Next]_vars => [\A b \in Bookings : b \notin contested => FollowsTable(b)]_vars
  <2> SUFFICES ASSUME IInv, Next, NEW b \in Bookings, b \notin contested
               PROVE  FollowsTable(b)
    OBVIOUS
  <2>1. b \in Rows /\ b \notin Imports
    BY DisjointAssumption DEF Rows
  <2>2. table \in [Rows -> Row \cup {NoRow}]
    BY DEF IInv, TypeOK
  <2>3. CASE UNCHANGED table
    BY <2>3 DEF FollowsTable
  <2>4. ASSUME NEW c \in Bookings, TxnInsert(c) PROVE FollowsTable(b)
    <3>1. CASE c = b
      <4>1. stage[b] = "checked"
        BY <2>4, <3>1 DEF TxnInsert, CreateMoves
      <4>2. ~Stored(b)
        BY <4>1 DEF IInv, RowsMatchRequests
      <4> QED BY <4>2 DEF Stored, FollowsTable
    <3>2. CASE c # b
      BY <2>1, <2>2, <2>4, <3>2 DEF TxnInsert, FollowsTable
    <3> QED BY <3>1, <3>2
  <2>5. ASSUME NEW h \in Updates, PatchSave(h) PROVE FollowsTable(b)
    <3>1. CASE call[h].booking = b /\ Stored(b)
      <4>1. step[h] = "loaded" /\ call[h] # NoCall
        BY <2>5 DEF PatchSave, PatchMoves, IInv, TypeOK
      <4>2. table[b].status = call[h].seen.status
        BY <3>1, <4>1 DEF IInv, SnapshotsAreCurrent
      <4>3. call[h].target \in ValidTransitions[table[b].status]
        BY <4>1, <4>2 DEF IInv, CallsWereAllowed
      <4>4. table[b] \in Row
        BY <2>1, <2>2, <3>1 DEF Stored
      <4>5. table' = [table EXCEPT ![b].status = call[h].target]
        BY <2>5, <3>1 DEF PatchSave
      <4>6. table'[b].status = call[h].target
        BY <2>1, <2>2, <4>4, <4>5 DEF Row
      <4> QED BY <4>3, <4>6 DEF FollowsTable
    <3>2. CASE call[h].booking # b
      BY <2>1, <2>2, <2>5, <3>2 DEF PatchSave, FollowsTable
    <3>3. CASE ~Stored(b)
      BY <3>3 DEF Stored, FollowsTable
    <3> QED BY <3>1, <3>2, <3>3
  <2>6. ASSUME NEW x \in Rows, DeleteBooking(x) PROVE FollowsTable(b)
    BY <2>1, <2>2, <2>6 DEF DeleteBooking, FollowsTable
  <2>7. ASSUME NEW i \in Imports, ChannelStep(i) PROVE FollowsTable(b)
    <3>1. table'[b] = table[b]
      BY <2>1, <2>2, <2>7 DEF ChannelStep, ChannelInsert, ChannelSetDates, ChannelCancel,
                              ChannelTruncate
    <3> QED BY <3>1 DEF FollowsTable
  <2>8. ASSUME NEW c \in Bookings, CreateStep(c), ~TxnInsert(c) PROVE UNCHANGED table
    BY <2>8 DEF CreateStep, CreateRequest, CreateGapCheck, CreateQuote, CreateRefused, TxnCheck,
                CreateFinish, CreateKilled
  <2>9. ASSUME NEW h \in Updates, PatchProcess(h), ~PatchSave(h) PROVE UNCHANGED table
    BY <2>9 DEF PatchProcess, PatchHandlerStep, PatchRead, PatchRefused, PatchReload,
                PatchInvalidate, PatchRefund, PatchNotify, PatchKilled
  <2>10. NextDay => UNCHANGED table
    BY DEF NextDay
  <2> QED BY <2>3, <2>4, <2>5, <2>6, <2>7, <2>8, <2>9, <2>10 DEF Next
<1> QED BY <1>1, Invariance, PTL DEF Spec, TransitionsFollowed

(* A booked stay never covers an unavailable night of its property.         *)
THEOREM BlockedNightsUnsoldHolds == Spec => []BlockedNightsUnsold
<1>1. Init => QuotedNightsAreFree
  BY DEF Init, QuotedNightsAreFree
<1>2. IInv /\ QuotedNightsAreFree /\ [Next]_vars => QuotedNightsAreFree'
  <2> SUFFICES ASSUME IInv, QuotedNightsAreFree, [Next]_vars,
                      NEW b \in Bookings, stage'[b] \in {"quoted", "checked", "stored", "done"},
                      NEW w \in Blocked[request'[b].property]
               PROVE  ~SharesNight(request'[b], w)
    BY DEF QuotedNightsAreFree, SharesNight, Nights
  <2>0. /\ stage \in [Bookings -> CreateStage]
        /\ request \in [Bookings -> Request \cup {NoRequest}]
    BY DEF IInv, TypeOK
  <2>1. CASE UNCHANGED <<stage, request>>
    BY <2>1 DEF QuotedNightsAreFree
  <2>2. ASSUME NEW c \in Bookings, CreateRequest(c) PROVE ~SharesNight(request'[b], w)
    <3>1. stage'[c] \in {"gap", "quoting"} /\ c # b
      BY <2>0, <2>2 DEF CreateRequest, CreateMoves
    <3>2. stage'[b] = stage[b] /\ request'[b] = request[b]
      BY <2>0, <2>2, <3>1 DEF CreateRequest, CreateMoves
    <3> QED BY <3>2 DEF QuotedNightsAreFree
  <2>3. ASSUME NEW c \in Bookings, CreateQuote(c) PROVE ~SharesNight(request'[b], w)
    <3>1. request' = request
      BY <2>3 DEF CreateQuote
    <3>2. CASE c # b
      <4>1. stage'[b] = stage[b]
        BY <2>0, <2>3, <3>2 DEF CreateQuote, CreateMoves
      <4> QED BY <3>1, <4>1 DEF QuotedNightsAreFree
    <3>3. CASE c = b
      <4>1. stage[b] = "quoting" /\ ~Overlaps(request[b], w)
        BY <2>3, <3>1, <3>3 DEF CreateQuote, CreateMoves
      <4>2. request[b] \in Request
        BY <4>1 DEF IInv, TypeOK
      <4>3. w \in StaysOver(Day)
        BY <3>1, <4>2, BlockedAssumption DEF Request
      <4>4. /\ request[b].from \in Int /\ request[b].to \in Int
            /\ w.from \in Int /\ w.to \in Int
        BY <4>2, <4>3, DayType DEF Request, StaysOver
      <4>5. ~SharesNight(request[b], w)
        BY <4>1, <4>4, SharedNightOverlaps
      <4> QED BY <3>1, <4>5
    <3> QED BY <3>2, <3>3
  <2>4. ASSUME NEW c \in Bookings, CreateStep(c), ~CreateRequest(c), ~CreateQuote(c)
        PROVE  ~SharesNight(request'[b], w)
    <3>1. /\ request' = request
          /\ stage'[b] \in {"quoted", "checked", "stored", "done"}
               => stage[b] \in {"quoted", "checked", "stored", "done"}
      BY <2>0, <2>4 DEF CreateStep, CreateGapCheck, CreateRefused, TxnCheck, TxnInsert,
                        CreateFinish, CreateKilled, CreateMoves
    <3> QED BY <3>1 DEF QuotedNightsAreFree
  <2>5. CASE ~\E c \in Bookings : CreateStep(c)
    BY <2>1, <2>5 DEF Next, NextDay, PatchProcess, PatchHandlerStep, PatchRead, PatchRefused,
       PatchReload, PatchSave, PatchInvalidate, PatchRefund, PatchNotify, PatchKilled, DeleteBooking,
       ChannelStep, ChannelInsert, ChannelSetDates, ChannelCancel, ChannelTruncate,
       SyncUnchanged, vars, createVars
  <2> QED BY <2>2, <2>3, <2>4, <2>5
<1>3. IInv /\ QuotedNightsAreFree => BlockedNightsUnsold
  BY DEF IInv, QuotedNightsAreFree, RowsMatchRequests, BlockedNightsUnsold, SharesNight, Nights
<1> QED BY <1>1, <1>2, <1>3, Invariance, PTL DEF Spec

(* A conflict refuses a stay that is not in the past only for a night that  *)
(* is really taken.                                                         *)
THEOREM ConflictsAreRealHolds == Spec => ConflictsAreReal
<1> DEFINE Real ==
      \A b \in Bookings :
        stage[b] = "quoted" /\ stage'[b] = "conflict" /\ request[b].from >= today
          => ConflictIsReal(b)
<1>1. IInv /\ [Next]_vars => [Real]_vars
  <2> SUFFICES ASSUME IInv, Next, NEW b \in Bookings, stage[b] = "quoted",
                      stage'[b] = "conflict", request[b].from >= today
               PROVE  ConflictIsReal(b)
    OBVIOUS
  <2>1. stage \in [Bookings -> CreateStage] /\ request[b] \in Request /\ today \in Int
    BY DayType DEF IInv, TypeOK
  <2>2. TxnCheck(b)
    <3>1. PICK c \in Bookings : CreateStep(c)
      BY DEF Next, NextDay, PatchProcess, PatchHandlerStep, PatchRead, PatchRefused,
         PatchReload, PatchSave, PatchInvalidate, PatchRefund, PatchNotify, PatchKilled, DeleteBooking,
         ChannelStep, ChannelInsert, ChannelSetDates, ChannelCancel, ChannelTruncate,
         SyncUnchanged, createVars
    <3>2. TxnCheck(c)
      BY <2>1, <3>1 DEF CreateStep, CreateRequest, CreateGapCheck, CreateQuote, CreateRefused,
         TxnInsert, CreateFinish, CreateKilled, CreateMoves
    <3>3. c = b
      BY <2>1, <3>2 DEF TxnCheck, CreateMoves
    <3> QED BY <3>2, <3>3
  <2>3. HasConflict(request[b].property, request[b])
    BY <2>1, <2>2 DEF TxnCheck, CreateMoves
  <2>4. PICK x \in Rows :
          /\ Active(x) /\ table[x].property = request[b].property
          /\ Overlaps([from |-> table[x].from, to |-> table[x].to], request[b])
    BY <2>3 DEF HasConflict, OccupiedSlots
  <2>5. table[x] \in Row /\ (table[x].from < table[x].to \/ table[x].to <= today)
    BY <2>4 DEF IInv, TypeOK, RowsMatchRequests, Active, Stored
  <2>6. /\ table[x].from \in Int /\ table[x].to \in Int
        /\ request[b].from \in Int /\ request[b].to \in Int
    BY <2>1, <2>5, DayType DEF Row, Request
  <2>7. Overlaps(table[x], request[b])
    BY <2>4 DEF Overlaps
  <2>8. table[x].from < table[x].to
    BY <2>1, <2>5, <2>6, <2>7 DEF Overlaps
  <2>9. request[b].from < request[b].to
    BY <2>1, NullAssumption DEF IInv, RowsMatchRequests
  <2>10. SharesNight(table[x], request[b])
    BY <2>6, <2>7, <2>8, <2>9, OverlapIsSharedNight
  <2> QED BY <2>4, <2>10 DEF ConflictIsReal
<1> QED BY <1>1, Invariance, PTL DEF Spec, ConflictsAreReal
=============================================================================
