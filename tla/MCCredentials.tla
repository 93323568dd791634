---------------------------- MODULE MCCredentials ----------------------------
(***************************************************************************)
(* Small instances of Credentials for TLC.  Chats are alike, and so are    *)
(* clients and threads.                                                    *)
(***************************************************************************)
EXTENDS Credentials, TLC

Symmetry == Permutations(Chat) \cup Permutations(Client) \cup Permutations(Thread)
=============================================================================
