------------------------------- MODULE Stays -------------------------------
(***************************************************************************)
(* The vocabulary every other module shares: stays (half-open date         *)
(* windows), booking statuses with the transitions the API allows, and the *)
(* refund schedule.  Dates are integers, one per day.                      *)
(***************************************************************************)
EXTENDS Integers

-----------------------------------------------------------------------------
(* Stays.  A stay [from, to) sells the nights from, ..., to - 1.           *)

StaysOver(days) ==
  { s \in [from : days, to : days] : s.from < s.to }

Nights(s) == s.from .. (s.to - 1)

NightCount(s) == s.to - s.from

(* Slips a check must catch: only the start is compared; windows that touch *)
(* are taken to overlap.                                                    *)
OverlapsIfStartsInside(s, t) == t.from <= s.from /\ s.from < t.to
OverlapsIfTouching(s, t) == s.from <= t.to /\ s.to >= t.from

Overlaps(s, t) == s.from < t.to /\ s.to > t.from

SharesNight(s, t) == \E n \in Nights(s) : n \in Nights(t)

-----------------------------------------------------------------------------
(* Statuses.                                                               *)

Status == {"pending", "confirmed", "completed", "cancelled", "no_show"}

ActiveStatus == {"pending", "confirmed"}

ValidTransitions ==
  [ s \in Status |->
      IF s = "pending" THEN {"confirmed", "cancelled"}
      ELSE IF s = "confirmed" THEN {"completed", "cancelled", "no_show"}
      ELSE {} ]

CancelStatuses == {"cancelled"}

-----------------------------------------------------------------------------
(* The guest's refund, in percent of the price: the first tier whose       *)
(* threshold of days before check-in is met.                               *)

Policy == {"free", "moderate", "strict", "unknown"}

RefundPercent(policy, daysUntil) ==
  IF policy = "free" /\ daysUntil >= 1 THEN 100
  ELSE IF policy = "moderate" /\ daysUntil >= 5 THEN 100
  ELSE IF policy = "moderate" /\ daysUntil >= 0 THEN 50
  ELSE IF policy = "strict" /\ daysUntil >= 7 THEN 50
  ELSE 0
=============================================================================
