---------------------------- MODULE CoverCacheMC ----------------------------
(* Values for the constants of CoverCache. *)
EXTENDS CoverCache

CONSTANTS t1, t2, c1, c2, h1, h2, x1, x2
=============================================================================
