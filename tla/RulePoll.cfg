CONSTANTS
  r1 = r1
  r2 = r2
  t1 = t1
  t2 = t2
  None = None
  Rules = {r1, r2}
  Topics = {t1, t2}
  Terms = {{t1}, {t2}}
  PageSize = 1
  FeedCache = 0
  Retention = 2
  ClockSkew = 1
  MaxTime = 3
  MaxEdits = 2
SYMMETRY Interchangeable
\* Time is bounded.
CHECK_DEADLOCK FALSE
SPECIFICATION Spec
INVARIANTS
  TypeOK
  SilentBaseline
PROPERTIES
  WatchPromise
  GapClosedKnowingly
