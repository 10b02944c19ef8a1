CONSTANTS
  k1 = k1
  k2 = k2
  k3 = k3
  p1 = p1
  p2 = p2
  a1 = a1
  a2 = a2
  None = None
  Clients = {k1, k2, k3}
  Callers = {p1, p2}
  Accounts = {a1, a2}
  Lane = p1
  MaxEvents = 3
SPECIFICATION FairSpec
INVARIANTS
  AttemptsLimited
PROPERTIES
  ReplacedCloses
  Recovers
