----------------------------- MODULE MCRateLimit -----------------------------
(***************************************************************************)
(* A small instance of RateLimit for TLC.  Threads are alike.              *)
(***************************************************************************)
EXTENDS RateLimit, TLC

Symmetry == Permutations(Thread)
=============================================================================
