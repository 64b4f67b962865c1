SPECIFICATION Spec
CONSTANTS
  b1 = b1  b2 = b2  t1 = t1  t2 = t2  w1 = w1
  NoBooking = NoBooking
  LeadDays = 1
  LastToday = 1
  BatchSize = 1
  MaxKills = 1
  Bookings <- MCBookings
  Tasks <- MCTasks
  Sweeps <- MCSweeps1
  Imported <- MCImported
  Start <- MCStart
  Dates <- MCDates
INVARIANTS
  TypeOK
  AtMostOneLink
PROPERTIES
  NeverEarly
  SweepLeavesNothing
  DueIsClaimed
