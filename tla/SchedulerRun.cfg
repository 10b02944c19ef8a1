CONSTANTS
  r1 = r1
  r2 = r2
  k1 = k1
  k2 = k2
  None = None
  Direct = Direct
  Home = k1
  Rules = {r1, r2}
  Trackers = {k1, k2}
  MaxEdits = 2
  MaxRequests = 1
  MaxRestarts = 1
\* The last process may be closed.
CHECK_DEADLOCK FALSE
SPECIFICATION FairSpec
INVARIANTS
  TypeOK
  SingleFlight
  ClosedIsQuiet
  StatusIsTrue
PROPERTIES
  NothingStartsAfterStop
  EditChecked
  ShutdownEnds
