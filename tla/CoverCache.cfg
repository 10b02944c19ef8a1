CONSTANTS
  t1 = t1
  t2 = t2
  c1 = c1
  c2 = c2
  h1 = h1
  h2 = h2
  x1 = x1
  x2 = x2
  None = None
  Topics = {t1, t2}
  Covers = {c1, c2}
  Handlers = {h1}
  Readers = {x1}
  MaxRedirects = 1
  MaxEdits = 3
  MaxFaults = 1
\* The edits are bounded: without a subscription and requests all is done.
CHECK_DEADLOCK FALSE
SPECIFICATION FairSpec
INVARIANTS
  ReadMatches
PROPERTIES
  CoverKept
  CoverReturns
