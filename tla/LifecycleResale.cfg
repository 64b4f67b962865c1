SPECIFICATION Spec
CONSTANTS
  b1 = b1  b2 = b2  b3 = b3  i1 = i1
  u1 = u1  u2 = u2  p1 = p1
  guest = guest  owner = owner  admin = admin  sentinel = sentinel
  NoRow = NoRow  NoRequest = NoRequest  NoCall = NoCall
  ChannelGuest = sentinel
  Horizon = 2
  LastToday = 0
  Bookings <- MCBookings2
  Imports <- MCImports1
  Updates <- MCUpdates2
  Properties <- MCProperties
  Users <- MCUsers
  Scopes <- MCScopes
  Owner <- MCOwner
  Settings <- MCAnyLength
  Blocked <- MCOpen
  Offers <- MCOneOffer
SYMMETRY MCSymmetry
\* Every request may have been answered: the system then rests.
CHECK_DEADLOCK FALSE
INVARIANTS
  TypeOK
  NightsSoldOnce
