SPECIFICATION Spec
CONSTANTS
  b1 = b1  b2 = b2  b3 = b3  i1 = i1
  u1 = u1  u2 = u2  p1 = p1
  guest = guest  owner = owner  admin = admin  sentinel = sentinel
  NoRow = NoRow  NoRequest = NoRequest  NoCall = NoCall
  ChannelGuest = sentinel
  Horizon = 8
  LastToday = 1
  Bookings <- MCBookings1
  Imports <- MCNone
  Updates <- MCUpdates2
  Properties <- MCProperties
  Users <- MCUsersAdmin
  Scopes <- MCScopesAdmin
  Owner <- MCOwner
  Settings <- MCAnyLength
  Blocked <- MCOpen
  Offers <- MCTierOffers
\* Every request may have been answered: the system then rests.
CHECK_DEADLOCK FALSE
INVARIANTS
  RefundedOnce
  NoticesTruthful
  GuestCancelConsidersPolicy
  RefundWithinPolicy
PROPERTIES
  TransitionsFollowed
  StaffCancelRefunded
