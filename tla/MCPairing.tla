------------------------------ MODULE MCPairing -------------------------------
(***************************************************************************)
(* Small instances of Pairing for TLC.  Instances are alike, and so are    *)
(* threads and nicknames.                                                  *)
(***************************************************************************)
EXTENDS Pairing, TLC

Symmetry == Permutations(Host) \cup Permutations(Thread) \cup Permutations(Alias)
=============================================================================
