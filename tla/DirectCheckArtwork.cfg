CONSTANTS
  u1 = u1
  u2 = u2
  urlA = urlA
  urlB = urlB
  v1 = v1
  v2 = v2
  m1 = m1
  m2 = m2
  c1 = c1
  c2 = c2
  None = None
  Users = {u1}
  Urls = {urlA, urlB}
  Versions = {v1}
  Mirrors = {m1}
  Callers = {c1, c2}
  MaxEdits = 2
  MaxCrashes = 1
\* The edits are bounded: with no subscription left and no caller, all is done.
CHECK_DEADLOCK FALSE
SPECIFICATION Spec
INVARIANT
  NoOldArtwork
