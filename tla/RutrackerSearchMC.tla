-------------------------- MODULE RutrackerSearchMC --------------------------
(* FeedCoverage, FeedAssist and RutrackerSearch on a small instance. *)
EXTENDS RutrackerSearch, TLC

CONSTANTS t1, t2, t3, m1, m2

Interchangeable == Permutations({t1, t2, t3}) \cup Permutations({m1, m2})
=============================================================================
