------------------------- MODULE BookingLifecycleInv -------------------------
(***************************************************************************)
(* The inductive invariant behind the safety properties of                 *)
(* BookingLifecycle.  Each conjunct says what one handler may rely on while *)
(* it is suspended; NightsSoldOnce, RefundedOnce and the others follow.     *)
(***************************************************************************)
EXTENDS BookingLifecycle

(* A booked row is its request, inserted once; an imported row says so; a  *)
(* stay sells a night unless truncation has ended it.                      *)
RowsMatchRequests ==
  /\ \A b \in Bookings : request[b] # NoRequest => request[b].from < request[b].to
  /\ \A b \in Bookings : Stored(b) =>
       /\ stage[b] \in {"stored", "done"}
       /\ table[b].property = request[b].property
       /\ table[b].from = request[b].from /\ table[b].to = request[b].to
  /\ \A i \in Imports : Stored(i) => table[i].channel = "imported"
  /\ \A x \in Rows : Stored(x) => table[x].from < table[x].to \/ table[x].to <= today

(* Between its check and its insert a transaction knows of every active    *)
(* row that takes one of its nights, or the pair is accounted for.         *)
ChecksStillHold ==
  /\ \A b, c \in Bookings :
       b # c /\ stage[b] = "checked" /\ stage[c] = "checked" => {b, c} \in unseen
  /\ \A b \in Bookings, x \in Rows :
       /\ stage[b] = "checked" /\ x # b /\ Active(x)
       /\ table[x].property = request[b].property
       /\ SharesNight(request[b], table[x])
       => {b, x} \in unseen \/ x \in contested

(* What a PATCH took from its first read.                                  *)
CallsWereAllowed ==
  \A h \in Updates : call[h] # NoCall =>
    /\ call[h].booking \in Bookings
    /\ stage[call[h].booking] \in {"stored", "done"}
    /\ call[h].target \in ValidTransitions[call[h].seen.status]
    /\ call[h].day <= today

(* A PATCH that has not saved shares its booking with no other, and the    *)
(* status it read is still the row's, or the booking is contested.         *)
SnapshotsAreCurrent ==
  \A h \in Updates : step[h] \in {"accepted", "loaded"} =>
    LET b == call[h].booking IN
      \/ b \in contested
      \/ /\ \A g \in Updates : InPatch(g, b) => g = h
         /\ Stored(b) => table[b].status = call[h].seen.status

(* What a PATCH leaves behind when it saves.                               *)
SavesAreRecorded ==
  \A h \in Updates :
    /\ step[h] \in {"idle", "accepted", "loaded"} => ~Overwrote(h)
    /\ step[h] \in {"saved", "invalidated", "refunded"} => Overwrote(h)
    /\ AskedRefund(h) =>
         /\ Overwrote(h) /\ call[h].target = "cancelled"
         /\ step[h] \in {"refunded", "answered", "killed"}
    /\ Overwrote(h) =>
         /\ call[h] # NoCall
         /\ Stored(call[h].booking) => table[call[h].booking].status # "pending"
         /\ \/ call[h].booking \in contested
            \/ overwrote[h] = "no row"
            \/ overwrote[h] = call[h].seen.status

(* A cancellation is final: afterwards the booking is cancelled or gone,   *)
(* and no other PATCH is under way or has also cancelled it.               *)
CancelsAreFinal ==
  \A h \in Updates :
    LET b == call[h].booking IN
    Overwrote(h) /\ call[h].target = "cancelled" /\ b \notin contested =>
      /\ Stored(b) => table[b].status = "cancelled"
      /\ \A g \in Updates : ~InPatch(g, b)
      /\ \A g \in Updates :
           Overwrote(g) /\ call[g].target = "cancelled" /\ call[g].booking = b => g = h

(* Every decision mail has a PATCH that saved that decision.               *)
NoticesHaveAuthors ==
  \A n \in notices : n.kind # "created" =>
    \E h \in Updates :
      /\ Overwrote(h) /\ call[h].booking = n.booking
      /\ call[h].target = IF n.kind = "cancelled" THEN "cancelled" ELSE "confirmed"

(* A guest cancel of a booking read as confirmed settles by the policy.    *)
Decided(h) == step[h] \in {"refunded", "answered"} /\ Overwrote(h)

GuestCancelsSettle ==
  \A h \in Updates :
    Decided(h) /\ IsGuestCancel(call[h]) /\ call[h].seen.status = "confirmed"
      => refund[h].basis \in Policy \cup {"unavailable"}

(* A request past the unavailability check covers no blocked night.        *)
QuotedNightsAreFree ==
  \A b \in Bookings : stage[b] \in {"quoted", "checked", "stored", "done"} =>
    \A w \in Blocked[request[b].property] : ~SharesNight(request[b], w)

IInv ==
  /\ TypeOK
  /\ RowsMatchRequests
  /\ ChecksStillHold
  /\ NightsSoldOnce
  /\ CallsWereAllowed
  /\ SnapshotsAreCurrent
  /\ SavesAreRecorded
  /\ CancelsAreFinal
  /\ NoticesHaveAuthors
  /\ GuestCancelsSettle
  /\ RefundWithinPolicy
=============================================================================
