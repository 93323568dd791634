----------------------------- MODULE MCInstance ------------------------------
(***************************************************************************)
(* Small instances of Instance for TLC.  Threads are alike, and so are the *)
(* chats of a configuration that names none of them.                       *)
(***************************************************************************)
EXTENDS Instance, TLC

\* Every chat is exposed to every paired instance.
Everyone == Peer \X Chat

\* Those whose overlaps break what its run checks, as other runs show, take
\* turns: two that change a delivery, cleaning beside a transfer, and the
\* owner's revocations beside anything.
Turns ==
  {{"read", "send"}, {"read", "unsend"}, {"read", "edit"}, {"unsend", "edit"},
   {"upload", "retain"}, {"download", "retain"}}
  \cup {{"revoke", op} : op \in Workload}

Symmetry == Permutations(Chat) \cup Permutations(Thread)
=============================================================================
