--------------------------- MODULE DirectCheckMC ---------------------------
(* DirectCheck on a small instance. *)
EXTENDS DirectCheck, TLC

CONSTANTS u1, u2, urlA, urlB, v1, v2, m1, m2, c1, c2

Interchangeable ==
  Permutations({u1, u2}) \cup Permutations({urlA, urlB}) \cup
  Permutations({v1, v2}) \cup Permutations({m1, m2}) \cup Permutations({c1, c2})
=============================================================================
