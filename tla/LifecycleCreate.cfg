SPECIFICATION Spec
CONSTANTS
  b1 = b1  b2 = b2  b3 = b3  i1 = i1
  u1 = u1  u2 = u2  p1 = p1
  guest = guest  owner = owner  admin = admin  sentinel = sentinel
  NoRow = NoRow  NoRequest = NoRequest  NoCall = NoCall
  ChannelGuest = sentinel
  Horizon = 5
  LastToday = 1
  Bookings <- MCBookings3
  Imports <- MCImports1
  Updates <- MCNone
  Properties <- MCProperties
  Users <- MCUsers
  Scopes <- MCScopes
  Owner <- MCOwner
  Settings <- MCGapFiller
  Blocked <- MCBlockedNight
  Offers <- MCGapOffers
SYMMETRY MCSymmetry
\* Every request may have been answered: the system then rests.
CHECK_DEADLOCK FALSE
INVARIANTS
  NightsSoldOnce
  BlockedNightsUnsold
PROPERTIES
  ConflictsAreReal
