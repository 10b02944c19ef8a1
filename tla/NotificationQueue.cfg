\* Two queue instances on one table: safety.
SPECIFICATION Spec
CONSTANTS
  n1 = n1
  n2 = n2
  u1 = u1
  q1 = q1
  q2 = q2
  None = None
  Notes = {n1, n2}
  Users = {u1}
  Owner <- OneOwner
  Queues = {q1, q2}
  RetryAfters = {2}
  BackoffBase = 1
  MaxRetry = 1
  Lease = 1
  PassLimit = 1
  PhotoMethods = 1
  AttemptCap = 1
  Overdue = 0
  MaxStops = 1
SYMMETRY Interchangeable
INVARIANTS
  TypeOK
  NoUnexplainedDuplicate
  RateLimitDefers
PROPERTIES
  OutboxPromise
CHECK_DEADLOCK FALSE
