-------------------------------- MODULE Store --------------------------------
(***************************************************************************)
(* The state every part of an instance shares: the SQLite tables of        *)
(* app/db.py, the content-addressed files beside them, and the requests in *)
(* flight.                                                                 *)
(*                                                                         *)
(* Each request runs on a thread with a connection of its own, opened in   *)
(* autocommit (db.Pool, db.connect): ONE STATEMENT IS ONE STEP, and other  *)
(* requests run between two statements of a handler, except inside the     *)
(* explicit transactions of send, register and peer_inbox, which are one   *)
(* step.  A table is a function from its primary key to its row; what a    *)
(* handler read and still holds in local variables is in req.              *)
(***************************************************************************)
EXTENDS Integers, FiniteSets, Sequences, Functions

CONSTANTS
  Chat,       \* the registered chats (table chats)
  Label,      \* session labels a client may declare
  Peer,       \* the active paired instances (table peers)
  MsgId,      \* message ids, minted by db.uuid7
  BlobId,     \* blob ids, minted by db.uuid7
  Sha,        \* digests: one per distinct content
  Thread,     \* the threads of the pool, each serving one request at a time
  Main,       \* the thread that runs create_app before anything is served
  Workload,   \* the operations the clients of this instance call
  Apart,      \* pairs of operations they never have in flight together
  None        \* SQL's NULL

Job == Thread \cup {Main}

ASSUME StoreAssumption ==
  /\ Main \notin Thread
  /\ None \notin Chat \cup Peer \cup Label \cup MsgId
  /\ IsFiniteSet(Chat)
  /\ Chat \cap Peer = {}
  /\ MsgId \cap BlobId = {}
  /\ \A pair \in Apart : pair \subseteq STRING

VARIABLES
  revoked,    \* the chats whose revoked_at is set
  sessions,   \* <<chat, label>> -> is it open? (closed_at IS NULL)
  messages,   \* message id -> row
  deliveries, \* <<message id, chat>> -> row
  events,     \* seq -> row
  lastSeq,    \* the AUTOINCREMENT counter of events.seq
  blobs,      \* blob id -> row
  files,      \* digest -> what is stored under its final path
  req,        \* job -> where its handler is, and its local variables; or Idle
  cursor,     \* chat -> the event cursor its client holds
  boots,      \* how many times the process has been started
  aged,       \* the ids whose rows are older than the cleaning windows
  asked,      \* history: message id -> what the request that sent it asked for
  uploaded    \* history: every blob id handed out

tables == <<messages, deliveries, events, lastSeq, blobs>>
store == <<revoked, sessions, messages, deliveries, events, lastSeq, blobs,
           files, req, cursor, boots, aged, asked, uploaded>>

-----------------------------------------------------------------------------
(* Rows.                                                                   *)

Status == {"delivered", "read", "replied", "closed"}

STATUS_RANK ==
  [s \in Status |-> CASE s = "delivered" -> 0 [] s = "read" -> 1
                      [] s = "replied" -> 2 [] s = "closed" -> 3]

EventType == {"message.received", "message.read", "message.replied",
              "message.recalled", "message.edited"}

Message == [from: Chat \cup Peer, via: Peer \cup {None},
            body: {"first", "edited"}, recalled: BOOLEAN]
Delivery == [session: Label \cup {None}, status: Status,
             read: BOOLEAN, archived: BOOLEAN]
Event == [chat: Chat, type: EventType, msg: MsgId]
Blob == [sha: Sha, by: Chat, attached: MsgId \cup {None}]
Asked == [from: Chat \cup Peer, to: SUBSET Chat, want: SUBSET BlobId]

\* What a final path holds: write_bytes truncates first, so a reader or a
\* crash can find a file that is neither absent nor complete.
File == {"absent", "partial", "whole"}

IsTable(t, keys, rows) ==
  DOMAIN t \subseteq keys /\ t \in [DOMAIN t -> rows]

-----------------------------------------------------------------------------
(* Statements.                                                             *)

\* INSERT of one row.
Put(t, k, row) == [x \in DOMAIN t \cup {k} |-> IF x = k THEN row ELSE t[x]]

\* UPDATE of the rows with these keys, those of them that exist.
Update(t, keys, F(_)) == [x \in DOMAIN t |-> IF x \in keys THEN F(t[x]) ELSE t[x]]

\* DELETE of the rows with these keys.
Drop(t, keys) == Restrict(t, DOMAIN t \ keys)

\* Mutant: seq is the largest one in the table plus one (no AUTOINCREMENT).
EmitAllReusing(rows) ==
  LET top == CHOOSE n \in DOMAIN events \cup {0} : \A i \in DOMAIN events : i <= n
  IN /\ lastSeq' = top + Len(rows)
     /\ events' = [i \in DOMAIN events \cup top + 1 .. top + Len(rows) |->
                     IF i \in DOMAIN events THEN events[i] ELSE rows[i - top]]

\* Mutant: only the first recipient is told.
EmitFirst(rows) ==
  /\ lastSeq' = lastSeq + 1
  /\ events' = Put(events, lastSeq + 1, rows[1])

\* INSERT INTO events, a row at a time (_emit).  seq is AUTOINCREMENT: it
\* counts up from the last seq ever used, so a deleted one never comes back.
EmitAll(rows) ==
  /\ lastSeq' = lastSeq + Len(rows)
  /\ events' = [i \in DOMAIN events \cup lastSeq + 1 .. lastSeq + Len(rows) |->
                  IF i \in DOMAIN events THEN events[i] ELSE rows[i - lastSeq]]

Emit(chat, type, m) == EmitAll(<<[chat |-> chat, type |-> type, msg |-> m]>>)

\* SELECT ... FROM deliveries WHERE message_id = m (_recipients).
Recipients(m) == {c \in Chat : <<m, c>> \in DOMAIN deliveries}

ReadBy(m) == {c \in Recipients(m) : deliveries[<<m, c>>].read}

\* Mutant: whoever knows the id may read.
IsKnownTo(m, c) == m \in DOMAIN messages

\* The one gate for reading a message: its sender or a recipient.
VisibleTo(m, c) ==
  /\ m \in DOMAIN messages
  /\ messages[m].from = c \/ c \in Recipients(m)

\* Mutant: an upload no message took does not count as a reference.
AttachedShas == {blobs[b].sha : b \in {x \in DOMAIN blobs : blobs[x].attached # None}}

\* Every file a row points to.
ReferencedShas == {blobs[b].sha : b \in DOMAIN blobs}

AttachedTo(m) == {b \in DOMAIN blobs : blobs[b].attached = m}
-----------------------------------------------------------------------------
(* Requests.                                                               *)

Idle == [op |-> "idle"]

At(j, op, at) == req[j].op = op /\ req[j].at = at

Goto(j, at) == req' = [req EXCEPT ![j].at = at]

Answer(j) == req' = [req EXCEPT ![j] = Idle]

\* The server answers requests once create_app has returned.
Serving == req[Main] = Idle

AtRest == \A j \in Job : req[j] = Idle

\* Thread t takes a request up, at the first statement of its handler.
Accept(t, local) ==
  /\ Serving /\ req[t] = Idle
  /\ local.op \in Workload
  /\ \A q \in Thread : {local.op, req[q].op} \notin Apart
  /\ req' = [req EXCEPT ![t] = local]

\* The same for a route that requires a chat: `authenticate` has found the
\* chat of the token, and found it not revoked.
AcceptFrom(c, t, local) == c \notin revoked /\ Accept(t, local)

\* A fresh id (db.uuid7); which one makes no difference.
Fresh(ids, used) == CHOOSE i \in ids \ used : TRUE
=============================================================================
