------------------------- MODULE MCBookingLifecycle -------------------------
(* Instances of BookingLifecycle for TLC.                                   *)
EXTENDS BookingLifecycleInv, TLC

CONSTANTS b1, b2, b3, i1, u1, u2, p1, guest, owner, admin, sentinel

MCNone == {}
MCBookings1 == {b1}
MCBookings2 == {b1, b2}
MCBookings3 == {b1, b2, b3}
MCImports1  == {i1}
MCUpdates1  == {u1}
MCUpdates2  == {u1, u2}
MCProperties == {p1}
MCUsers == {guest, owner}
MCUsersAdmin == {guest, owner, admin}

MCOwner == [p \in MCProperties |-> owner]

MCScopes == (guest :> {"write", "cancel"} @@ owner :> {"manage", "cancel"})
MCScopesAdmin == MCScopes @@ (admin :> {"admin_write"})

Rules(window, minNights, adjacentOnly) ==
  [p \in MCProperties |->
    [ window |-> window, minNights |-> minNights, gapFiller |-> TRUE,
      lastMinute |-> 1, adjacentOnly |-> adjacentOnly ]]
MCAnyLength == Rules(8, 1, FALSE)
MCGapFiller == Rules(2, 2, TRUE)

S(from, to) == [from |-> from, to |-> to]
MCOneOffer     == {S(0, 2)}
MCTierOffers   == {S(0, 1), S(1, 2), S(5, 6), S(7, 8)}
MCTwoOffers    == {S(0, 2), S(1, 3)}
MCGapOffers    == {S(0, 2), S(1, 3), S(2, 3), S(3, 5)}
MCOpen         == [p \in MCProperties |-> {}]
MCBlockedNight == [p \in MCProperties |-> {S(4, 5)}]

MCSymmetry == Permutations(Bookings) \cup Permutations(Updates)
=============================================================================
