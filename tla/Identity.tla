------------------------------ MODULE Identity -------------------------------
(***************************************************************************)
(* What makes a chat addressable: its sessions (open_session,              *)
(* close_session) and its revocation by the owner (revoke_chat), all in    *)
(* app/main.py.  Chats are registered beforehand.                          *)
(***************************************************************************)
EXTENDS Store

SessionJob ==
  [op: {"open", "close"}, at: {"select", "reopen", "insert", "update"}, by: Chat,
   label: Label]

elsewhere == <<tables, files, cursor, boots, aged, asked, uploaded>>

SessionBegin(r, c) ==
  /\ \E op \in {"open", "close"}, l \in Label :
       AcceptFrom(c, r, [op |-> op, by |-> c, label |-> l,
                         at |-> IF op = "open" THEN "select" ELSE "update"])
  /\ UNCHANGED <<elsewhere, revoked, sessions>>

Key(r) == <<req[r].by, req[r].label>>

\* open_session, its SELECT: a label known before is opened again.
OpenSelect(r) ==
  /\ At(r, "open", "select")
  /\ Goto(r, IF Key(r) \in DOMAIN sessions THEN "reopen" ELSE "insert")
  /\ UNCHANGED <<elsewhere, revoked, sessions>>

OpenReopen(r) ==
  /\ At(r, "open", "reopen")
  /\ sessions' = Update(sessions, {Key(r)}, LAMBDA open : TRUE)
  /\ Answer(r)
  /\ UNCHANGED <<elsewhere, revoked>>

\* UNIQUE(chat_id, label) fails an INSERT that lost a race.
OpenInsert(r) ==
  /\ At(r, "open", "insert")
  /\ \/ Key(r) \notin DOMAIN sessions /\ sessions' = Put(sessions, Key(r), TRUE)
     \/ Key(r) \in DOMAIN sessions /\ UNCHANGED sessions
  /\ Answer(r)
  /\ UNCHANGED <<elsewhere, revoked>>

\* close_session: it stops being addressable; its mail stays.
Close(r) ==
  /\ At(r, "close", "update")
  /\ sessions' = Update(sessions, {Key(r)}, LAMBDA open : FALSE)
  /\ Answer(r)
  /\ UNCHANGED <<elsewhere, revoked>>

\* revoke_chat: one UPDATE, by the owner.
RevokeChat(r) ==
  /\ "revoke" \in Workload
  /\ req[r] = Idle /\ Serving
  /\ \A q \in Thread : {"revoke", req[q].op} \notin Apart
  /\ \E c \in Chat \ revoked : revoked' = revoked \cup {c}
  /\ Answer(r)
  /\ UNCHANGED <<elsewhere, sessions>>
=============================================================================
