-------------------------- MODULE KinozalSessionMC --------------------------
(* Values for the constants of KinozalSession. *)
EXTENDS KinozalSession

CONSTANTS k1, k2, k3, p1, p2, a1, a2
=============================================================================
