----------------------------- MODULE RulePollMC -----------------------------
(* RulePoll on a small instance. *)
EXTENDS RulePoll, TLC

CONSTANTS r1, r2, t1, t2

Interchangeable == Permutations({r1, r2}) \cup Permutations({t1, t2})
=============================================================================
