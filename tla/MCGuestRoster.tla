---------------------------- MODULE MCGuestRoster ----------------------------
(* Two bookings for one guest each.  The first is checked out on day 0 and    *)
(* its window closes on day 2, which begins in Sofia with the third half day; *)
(* the second is imported, from day 1 at first.                               *)
(*                                                                            *)
(* The instance is one of two.  Two requests overlap, while the sync keeps     *)
(* still and purge runs do not die; or both may happen while one request       *)
(* comes at a time.                                                           *)
EXTENDS GuestRoster

CONSTANTS b1, b2, q1, q2

VARIABLE part

MCEnd == [b \in Bookings |-> IF b = b1 THEN 0 ELSE 1]
MCNumGuests == [b \in Bookings |-> 1]

MCInit == Init /\ part \in {"crowded", "moved"}

MCNext ==
  /\ Next
  /\ part = "crowded" => UNCHANGED <<end, deaths>> /\ row'[b2] # "closed"
  /\ part = "moved" => UNCHANGED req[q2]
  /\ UNCHANGED part

MCSpec == MCInit /\ [][MCNext]_<<vars, part>> /\ Fairness
=============================================================================
