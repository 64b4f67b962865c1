---------------------------- MODULE ImportedRows ----------------------------
(***************************************************************************)
(* What may happen to the imported bookings of one property and channel,    *)
(* however many syncs overlap: a sync's statements insert rows, give them   *)
(* other dates, cancel them or end them on a day that has come, each        *)
(* statement any number of rows, and a row may be deleted.  The Channel     *)
(* actions of BookingLifecycle are these statements, row by row.            *)
(***************************************************************************)
EXTENDS Integers

CONSTANTS
  Uids,
  Offers,  \* the stays a channel serves: [from, to]
  NoRow

VARIABLES
  today,
  rows     \* the imported bookings, by external UID

Booked(stay) == [from |-> stay.from, to |-> stay.to, status |-> "confirmed"]

Inserted(row, new)  == row = NoRow /\ \E stay \in Offers : new = Booked(stay)
Redated(row, new)   == row # NoRow /\ \E stay \in Offers : new = Booked(stay)
Cancelled(row, new) == row # NoRow /\ new = [row EXCEPT !.status = "cancelled"]

(* The day is the one the sync took for its diff.  A sync that overlaps may  *)
(* have given the row dates that lie elsewhere by now.                      *)
Truncated(row, new) == row # NoRow /\ \E day \in 0..today : new = [row EXCEPT !.to = day]

Init == today = 0 /\ rows = [u \in Uids |-> NoRow]

NextDay == today' = today + 1 /\ UNCHANGED rows

Statement ==
  /\ DOMAIN rows' = Uids
  /\ \/ \A u \in Uids : rows'[u] # rows[u] => Inserted(rows[u], rows'[u])
     \/ \A u \in Uids : rows'[u] # rows[u] => Redated(rows[u], rows'[u])
     \/ \A u \in Uids : rows'[u] # rows[u] => Cancelled(rows[u], rows'[u])
     \/ \A u \in Uids : rows'[u] # rows[u] => Truncated(rows[u], rows'[u])
  /\ UNCHANGED today

DeleteRow == (\E u \in Uids : rows' = [rows EXCEPT ![u] = NoRow]) /\ UNCHANGED today

Next == NextDay \/ Statement \/ DeleteRow

Spec == Init /\ [][Next]_<<today, rows>>
=============================================================================
