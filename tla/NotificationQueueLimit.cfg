\* A row that is recorded while its user's bot is rate limited.
SPECIFICATION Spec
CONSTANTS
  n1 = n1
  n2 = n2
  u1 = u1
  q1 = q1
  q2 = q2
  None = None
  Notes = {n1, n2}
  Users = {u1}
  Owner <- OneOwner
  Queues = {q1}
  RetryAfters = {2}
  BackoffBase = 1
  MaxRetry = 1
  Lease = 1
  PassLimit = 2
  PhotoMethods = 0
  AttemptCap = 1
  Overdue = 0
  MaxStops = 0
PROPERTIES
  LimitHonoured
CHECK_DEADLOCK FALSE
