SPECIFICATION Spec
CONSTANTS
  f1 = f1  f2 = f2  x1 = x1  x2 = x2  m1 = m1  sweep = sweep
  Absent = Absent  Unreadable = Unreadable
  NoRow = NoRow  NoHash = NoHash  NoFeed = NoFeed
  Sweep = sweep
  LastToday = 1
  MaxEdits = 2
  MaxMishaps = 0
  Feeds <- MCFeeds1
  Uids <- MCUids1
  Manuals <- MCManuals
  Offers <- MCOffers
\* With every feed deleted and the bounds used up, nothing is left to do.
CHECK_DEADLOCK FALSE
PROPERTIES
  SweepReconciles
