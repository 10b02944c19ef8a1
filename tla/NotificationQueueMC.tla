------------------------ MODULE NotificationQueueMC ------------------------
(* Small instances of NotificationQueue for TLC. *)
EXTENDS NotificationQueue, TLC

CONSTANTS n1, n2, u1, q1, q2

OneOwner == [n \in Notes |-> u1]

\* Instances and rows of one user are interchangeable in the safety run.
Interchangeable == Permutations(Notes) \cup Permutations(Queues)
=============================================================================
