------------------------------ MODULE MCClients -------------------------------
(***************************************************************************)
(* Four messages: a note to oneself, one received, one sent to somebody    *)
(* else, and one between others.                                           *)
(***************************************************************************)
EXTENDS Clients

\* The walker beside a conversation that archives; the other two on their own.
Pairs == {{"walker", "other"}, {"assistant"}, {"watcher"}}
=============================================================================
