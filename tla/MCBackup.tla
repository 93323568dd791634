------------------------------- MODULE MCBackup -------------------------------
(***************************************************************************)
(* A small instance of Backup for TLC.  Messages are alike.                *)
(***************************************************************************)
EXTENDS Backup, TLC

Symmetry == Permutations(Msg)
=============================================================================
