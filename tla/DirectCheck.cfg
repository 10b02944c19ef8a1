CONSTANTS
  u1 = u1
  u2 = u2
  urlA = urlA
  urlB = urlB
  v1 = v1
  v2 = v2
  m1 = m1
  m2 = m2
  c1 = c1
  c2 = c2
  None = None
  Users = {u1, u2}
  Urls = {urlA, urlB}
  Versions = {v1, v2}
  Mirrors = {m1, m2}
  Callers = {c1, c2}
  MaxEdits = 3
  MaxCrashes = 1
SYMMETRY Interchangeable
\* The edits are bounded: with no subscription left and no caller, all is done.
CHECK_DEADLOCK FALSE
SPECIFICATION Spec
INVARIANTS
  TypeOK
  BaselineOfTopic
  EditPursued
  ArtworkOfTopic
PROPERTY
  ReportsRealChanges
