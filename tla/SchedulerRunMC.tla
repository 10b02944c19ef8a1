--------------------------- MODULE SchedulerRunMC ---------------------------
(* SchedulerRun on a small instance. *)
EXTENDS SchedulerRun

CONSTANTS r1, r2, k1, k2
=============================================================================
