CONSTANTS
  t1 = t1
  t2 = t2
  t3 = t3
  m1 = m1
  m2 = m2
  None = None
  Topics = {t1, t2, t3}
  PageSize = 1
  FeedCache = 1
  Retention = 3
  ClockSkew = 2
  MaxAge = 3
  MaxTime = 4
  Queries = {{t1, t2, t3}}
  ResultPage = 1
  MaxRecoveryPages = 2
  Mirrors = {m1}
  MaxChanges = 1
SYMMETRY Interchangeable
\* Time is bounded.
CHECK_DEADLOCK FALSE
SPECIFICATION SearchSpec
INVARIANTS
  BufferFollowsFeed
  SkippedIsGap
  SkippedPageUnchanged
PROPERTIES
  SearchIsComplete
  FinalMeansFinal
