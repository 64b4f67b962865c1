CONSTANTS
  b1 = b1
  b2 = b2
  q1 = q1
  q2 = q2
  Bookings = {b1, b2}
  Ids = {1, 2}
  Requests = {q1, q2}
  Purges = {g1}
  Imported = {}
  End <- MCEnd
  Ends = {0, 1}
  NumGuests <- MCNumGuests
  Grace = 1
  Window = 2
  BatchSize = 1
  LastTick = 3
  Patience = 1
  MaxDeaths = 1
  NoGuest = NoGuest
  NoBooking = NoBooking
SPECIFICATION MCSpec
INVARIANTS OnlyNamesSurvive
