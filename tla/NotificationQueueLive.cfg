\* One queue instance, as deployed: liveness.
SPECIFICATION FairSpec
CONSTANTS
  n1 = n1
  n2 = n2
  u1 = u1
  q1 = q1
  q2 = q2
  None = None
  Notes = {n1, n2}
  Users = {u1}
  Owner <- OneOwner
  Queues = {q1}
  RetryAfters = {2}
  BackoffBase = 1
  MaxRetry = 2
  Lease = 1
  PassLimit = 1
  PhotoMethods = 0
  AttemptCap = 2
  Overdue = 1
  MaxStops = 1
PROPERTIES
  EventuallyDelivered
  ShutdownCompletes
CHECK_DEADLOCK FALSE
