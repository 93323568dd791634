------------------------------- MODULE Messages ------------------------------
(***************************************************************************)
(* The messages routes of app/main.py: send, read, unsend, edit, archive,  *)
(* and the delivery of a paired instance's mail (app/peering.py).          *)
(***************************************************************************)
EXTENDS Store

CONSTANTS
  MaxTo,      \* how many recipients a client names in one message
  MaxBlobs,   \* config.MAX_ATTACHMENTS_PER_MESSAGE
  Exposed     \* the <<peer, chat>> pairs of peer_exposures

ASSUME MessagesAssumption ==
  /\ MaxTo \in Nat /\ MaxBlobs \in Nat
  /\ Exposed \subseteq Peer \X Chat

\* What a client may write to: a chat, one session of it, or, in the first
\* place of the pair, a paired instance (`someone@alias`).
Address == (Chat \X (Label \cup {None})) \cup (Peer \X {None})

\* The local variables of send: what the payload asks for (to, want), what is
\* still to be resolved or validated (todo, now, check, as, parent), and the
\* sender of the parent once it has been looked up.
SendJob ==
  {s \in [op: {"send"}, by: Chat,
          at: {"resolve", "label", "blobs", "session", "parent", "write", "record"},
          to: SUBSET Address, want: SUBSET BlobId, todo: SUBSET Address,
          now: Address \cup {None}, check: SUBSET BlobId, as: Label \cup {None},
          parent: MsgId \cup {None}, answers: Chat \cup Peer \cup {None}] :
     s.answers # None => s.parent # None}

\* read_message keeps the row it selected first, `row`, to the end.
ReadJob ==
  [op: {"read"}, at: {"lookup", "unread", "mark", "rank", "bump", "tell", "view"},
   by: Chat, msg: MsgId, peek: BOOLEAN, row: Message \cup {None}]

\* unsend and edit; `tell` holds the recipients still to be notified.
WithdrawJob ==
  [op: {"unsend", "edit"}, at: {"lookup", "unread", "update", "recipients", "tell"},
   by: Chat, msg: MsgId, tell: SUBSET Chat]

ArchiveJob == [op: {"archive"}, at: {"update"}, by: Chat, msg: MsgId]

PeerJob == [op: {"peer"}, at: {"commit"}, by: Peer, to: Chat]

quiet == <<revoked, sessions, files, cursor, boots, aged, uploaded>>

-----------------------------------------------------------------------------
(* send: resolve every recipient, validate every attachment, the session   *)
(* and the parent, each with statements of its own; then, for local mail,  *)
(* write it all in one transaction.                                        *)

Remote(s) == {a \in s.to : a[1] \in Peer}

\* v1 refuses to mix peers and chats, more than one peer, and attachments to
\* a peer, once every address has been resolved.
Refused(s) ==
  /\ s.todo = {} /\ Remote(s) # {}
  /\ s.to # Remote(s) \/ Cardinality(s.to) > 1 \/ s.want # {}

\* What send does next, from what is left to check.
Stage(s) ==
  CASE s.todo # {} -> "resolve"
    [] s.todo = {} /\ s.check # {} -> "blobs"
    [] s.todo = {} /\ s.check = {} /\ s.as # None -> "session"
    [] OTHER -> IF s.parent # None /\ s.answers = None THEN "parent" ELSE "write"

Advance(r, s) ==
  req' = [req EXCEPT ![r] = IF Refused(s) THEN Idle
                                          ELSE [s EXCEPT !.at = Stage(s)]]

SendBegin(r, c) ==
  \E to \in SUBSET Address, want \in SUBSET BlobId,
     as \in Label \cup {None}, parent \in DOMAIN asked \cup {None} :
    /\ Cardinality(to) \in 1 .. MaxTo
    /\ Cardinality(want) <= MaxBlobs
    /\ AcceptFrom(c, r,
         [op |-> "send", at |-> "resolve", by |-> c, to |-> to, want |-> want,
          todo |-> to, now |-> None, check |-> want, as |-> as,
          parent |-> parent, answers |-> None])
    /\ UNCHANGED <<quiet, tables, asked>>

Reachable(a) == a[1] \notin revoked

\* _resolve_address, first statement: the chat must exist, unrevoked; a peer
\* must be active.
ResolveChat(r) ==
  /\ At(r, "send", "resolve")
  /\ \E a \in req[r].todo :
       \/ ~Reachable(a) /\ Answer(r)
       \/ /\ Reachable(a) /\ a[2] = None
          /\ Advance(r, [req[r] EXCEPT !.todo = @ \ {a}])
       \/ /\ Reachable(a) /\ a[2] # None
          /\ req' = [req EXCEPT ![r].at = "label", ![r].now = a]
  /\ UNCHANGED <<quiet, tables, asked>>

\* Mutant: the label is looked up without its chat.
IsOpenAnywhere(c, l) == \E k \in DOMAIN sessions : k[2] = l /\ sessions[k]

IsOpen(c, l) == <<c, l>> \in DOMAIN sessions /\ sessions[<<c, l>>]

\* _resolve_address, second statement: the session must be open.
ResolveLabel(r) ==
  /\ At(r, "send", "label")
  /\ LET s == req[r] IN
       \/ ~IsOpen(s.now[1], s.now[2]) /\ Answer(r)
       \/ /\ IsOpen(s.now[1], s.now[2])
          /\ Advance(r, [s EXCEPT !.todo = @ \ {s.now}])
  /\ UNCHANGED <<quiet, tables, asked>>

\* Mutant: anyone's upload will do.
IsUnattached(b, c) == b \in DOMAIN blobs /\ blobs[b].attached = None

IsUnattachedUploadOf(b, c) ==
  b \in DOMAIN blobs /\ blobs[b].by = c /\ blobs[b].attached = None

\* An attachment must be the sender's upload, not attached yet.
ValidateBlob(r) ==
  /\ At(r, "send", "blobs")
  /\ \E b \in req[r].check :
       LET mine == IsUnattachedUploadOf(b, req[r].by)
       IN \/ ~mine /\ Answer(r)
          \/ mine /\ Advance(r, [req[r] EXCEPT !.check = @ \ {b}])
  /\ UNCHANGED <<quiet, tables, asked>>

\* as_session must be a session of the sender, open.
SpeakAs(r) ==
  /\ At(r, "send", "session")
  /\ LET s == req[r] IN
       \/ ~IsOpen(s.by, s.as) /\ Answer(r)
       \/ IsOpen(s.by, s.as) /\ Advance(r, [s EXCEPT !.as = None])
  /\ UNCHANGED <<quiet, tables, asked>>

\* in_reply_to must be a message the sender may read; its row is kept.
FindParent(r) ==
  /\ At(r, "send", "parent")
  /\ LET s == req[r] IN
       \/ ~VisibleTo(s.parent, s.by) /\ Answer(r)
       \/ /\ VisibleTo(s.parent, s.by)
          /\ Advance(r, [s EXCEPT !.answers = messages[s.parent].from])
  /\ UNCHANGED <<quiet, tables, asked>>

\* deliver_to_peer: the peer takes the message, or the sender is told it did
\* not (refused, unreachable, or the answer was lost).
Push(r) ==
  /\ At(r, "send", "write") /\ Remote(req[r]) # {}
  /\ Goto(r, "record") \/ Answer(r)
  /\ UNCHANGED <<quiet, tables, asked>>

NewDelivery(label) ==
  [session |-> label, status |-> "delivered", read |-> FALSE, archived |-> FALSE]

Row(from, via) == [from |-> from, via |-> via, body |-> "first", recalled |-> FALSE]

\* Push first, record second: only a message its peer took is written here.
RecordRemote(r) ==
  /\ At(r, "send", "record")
  /\ MsgId # DOMAIN asked
  /\ \E a \in Remote(req[r]) :
       LET m == Fresh(MsgId, DOMAIN asked) IN
       /\ messages' = Put(messages, m, Row(req[r].by, a[1]))
       /\ asked' = Put(asked, m, [from |-> req[r].by, to |-> {}, want |-> {}])
  /\ Answer(r)
  /\ UNCHANGED <<quiet, deliveries, events, lastSeq, blobs>>

\* Mutant: a note to oneself is not delivered.
OtherChats(s) == {a[1] : a \in s.to} \ {s.by}

Chats(s) == {a[1] : a \in s.to}

\* The (message_id, to_chat_id) key of deliveries: a chat and one of its
\* sessions, or two of its sessions, cannot both receive the message.
SameChatTwice(s) == \E a, b \in s.to : a # b /\ a[1] = b[1]

\* Mutant: the UPDATE does not look at attached_to.
StillThere(s) == s.want \subseteq DOMAIN blobs

\* The UPDATE that attaches a blob must find it, still unattached.
CanAttach(s) == \A b \in s.want : b \in DOMAIN blobs /\ blobs[b].attached = None

\* Mutant: events.chat_id is not NOT NULL.
IsRefusedButToPeers(s) == SameChatTwice(s) \/ ~CanAttach(s)

\* A constraint fails (the deliveries key; events.chat_id NOT NULL when the
\* parent came from a peer) or an attachment was taken: nothing is written.
IsRefused(s) == SameChatTwice(s) \/ ~CanAttach(s) \/ s.answers \in Peer

SendRollback(r) ==
  /\ At(r, "send", "write") /\ Remote(req[r]) = {}
  /\ IsRefused(req[r])
  /\ Answer(r)
  /\ UNCHANGED <<quiet, tables, asked>>

\* _bump_status for a reply, inside the transaction.
BumpReplied(s, d) ==
  LET k == <<s.parent, s.by>> IN
    IF k \in DOMAIN d /\ STATUS_RANK["replied"] > STATUS_RANK[d[k].status]
    THEN [d EXCEPT ![k].status = "replied"] ELSE d

\* The transaction: the message, one delivery and one event per recipient (in
\* the order of the payload), the attachments, and the news to the parent's
\* sender that it was answered.
SendCommit(r) ==
  /\ At(r, "send", "write") /\ Remote(req[r]) = {}
  /\ LET s == req[r] IN
       /\ ~IsRefused(s)
       /\ MsgId # DOMAIN asked
       /\ \E order \in Injection(1 .. Cardinality(s.to), s.to) :
            LET m == Fresh(MsgId, DOMAIN asked)
                new == {<<m, c>> : c \in Chats(s)}
                labelOf(c) == (CHOOSE a \in s.to : a[1] = c)[2]
                received == [i \in 1 .. Cardinality(s.to) |->
                               [chat |-> order[i][1],
                                type |-> "message.received", msg |-> m]]
                replied == [chat |-> s.answers, type |-> "message.replied",
                            msg |-> s.parent]
            IN /\ messages' = Put(messages, m, Row(s.by, None))
               /\ deliveries' = BumpReplied(s,
                    [k \in DOMAIN deliveries \cup new |->
                       IF k \in new
                       THEN NewDelivery(labelOf(k[2]))
                                   ELSE deliveries[k]])
               /\ EmitAll(IF s.answers = None THEN received
                                              ELSE Append(received, replied))
               /\ blobs' = Update(blobs, s.want,
                                  LAMBDA b : [b EXCEPT !.attached = m])
               /\ asked' = Put(asked, m, [from |-> s.by, want |-> s.want,
                                          to |-> {a[1] : a \in s.to}])
  /\ Answer(r)
  /\ UNCHANGED quiet

\* peer_inbox: a paired instance writes to a chat exposed to it.
PeerBegin(r) ==
  /\ \E p \in Peer, c \in Chat \ revoked :
       /\ <<p, c>> \in Exposed
       /\ Accept(r, [op |-> "peer", at |-> "commit", by |-> p, to |-> c])
  /\ UNCHANGED <<quiet, tables, asked>>

\* Its transaction; the message has no local sender.
PeerCommit(r) ==
  /\ At(r, "peer", "commit")
  /\ MsgId # DOMAIN asked
  /\ LET s == req[r]
         m == Fresh(MsgId, DOMAIN asked) IN
         /\ messages' = Put(messages, m, Row(s.by, None))
         /\ deliveries' = Put(deliveries, <<m, s.to>>, NewDelivery(None))
         /\ Emit(s.to, "message.received", m)
         /\ asked' = Put(asked, m, [from |-> s.by, to |-> {s.to}, want |-> {}])
  /\ Answer(r)
  /\ UNCHANGED <<quiet, blobs>>

-----------------------------------------------------------------------------
(* read_message: look the message up, mark it read, move its status up the *)
(* ladder, tell its sender, and answer with the row selected first.        *)

ReadBegin(r, c) ==
  /\ \E m \in DOMAIN asked, peek \in BOOLEAN :
       AcceptFrom(c, r, [op |-> "read", at |-> "lookup", by |-> c, msg |-> m,
                         peek |-> peek, row |-> None])
  /\ UNCHANGED <<quiet, tables, asked>>

\* Mutant: waits for the message instead of answering 404.
ReadLookupWaits(r) ==
  /\ At(r, "read", "lookup")
  /\ LET s == req[r] IN
       \/ ~VisibleTo(s.msg, s.by) /\ UNCHANGED req
       \/ /\ VisibleTo(s.msg, s.by)
          /\ req' = [req EXCEPT ![r].at = "unread", ![r].row = messages[s.msg]]
  /\ UNCHANGED <<quiet, tables, asked>>

ReadLookup(r) ==
  /\ At(r, "read", "lookup")
  /\ LET s == req[r] IN
       \/ ~VisibleTo(s.msg, s.by) /\ Answer(r)
       \/ /\ VisibleTo(s.msg, s.by)
          /\ req' = [req EXCEPT ![r].at = "unread", ![r].row = messages[s.msg]]
  /\ UNCHANGED <<quiet, tables, asked>>

\* The recipients, the recall (410, on the row held), and read_at: these read
\* one row of deliveries that only a deletion or the reader itself changes.
ReadUnread(r) ==
  /\ At(r, "read", "unread")
  /\ LET s == req[r]
         gone == s.row.recalled /\ s.row.from # s.by
         unread == <<s.msg, s.by>> \in DOMAIN deliveries
                   /\ ~deliveries[<<s.msg, s.by>>].read
     IN \/ gone /\ Answer(r)
        \/ ~gone /\ unread /\ ~s.peek /\ Goto(r, "mark")
        \/ ~gone /\ (s.peek \/ ~unread) /\ Goto(r, "view")
  /\ UNCHANGED <<quiet, tables, asked>>

OwnDelivery(s) == {<<s.msg, s.by>>}

\* UPDATE deliveries; the row may have been deleted meanwhile.
ReadMark(r) ==
  /\ At(r, "read", "mark")
  /\ deliveries' = Update(deliveries, OwnDelivery(req[r]),
                          LAMBDA d : [d EXCEPT !.read = TRUE])
  /\ Goto(r, "rank")
  /\ UNCHANGED <<quiet, messages, events, lastSeq, blobs, asked>>

\* Mutant: the status is set without a look at the ladder.
HasDelivery(m, c) == <<m, c>> \in DOMAIN deliveries

\* A status never goes down.
IsBelowRead(m, c) ==
  /\ <<m, c>> \in DOMAIN deliveries
  /\ STATUS_RANK["read"] > STATUS_RANK[deliveries[<<m, c>>].status]

\* Mutant: the sender is told only if the status changes.
ReadRankOrEnd(r) ==
  /\ At(r, "read", "rank")
  /\ Goto(r, IF IsBelowRead(req[r].msg, req[r].by) THEN "bump" ELSE "view")
  /\ UNCHANGED <<quiet, tables, asked>>

\* _bump_status, its SELECT.
ReadRank(r) ==
  /\ At(r, "read", "rank")
  /\ Goto(r, IF IsBelowRead(req[r].msg, req[r].by) THEN "bump" ELSE "tell")
  /\ UNCHANGED <<quiet, tables, asked>>

\* _bump_status, its UPDATE, whatever the status has become.
ReadBump(r) ==
  /\ At(r, "read", "bump")
  /\ deliveries' = Update(deliveries, OwnDelivery(req[r]),
                          LAMBDA d : [d EXCEPT !.status = "read"])
  /\ Goto(r, "tell")
  /\ UNCHANGED <<quiet, messages, events, lastSeq, blobs, asked>>

\* The read receipt; a peer's message has no local sender to tell.
ReadTell(r) ==
  /\ At(r, "read", "tell")
  /\ \/ /\ req[r].row.from \in Chat
        /\ Emit(req[r].row.from, "message.read", req[r].msg)
     \/ /\ req[r].row.from \in Peer
        /\ UNCHANGED <<events, lastSeq>>
  /\ Goto(r, "view")
  /\ UNCHANGED <<quiet, messages, deliveries, blobs, asked>>

\* _message_view: the row held, with the recipients and attachments of now.
ReadView(r) ==
  /\ At(r, "read", "view")
  /\ Answer(r)
  /\ UNCHANGED <<quiet, tables, asked>>

\* archive: a single UPDATE, of a delivery not archived yet.
ArchiveBegin(r, c) ==
  /\ \E m \in DOMAIN asked :
       AcceptFrom(c, r, [op |-> "archive", at |-> "update", by |-> c, msg |-> m])
  /\ UNCHANGED <<quiet, tables, asked>>

Archive(r) ==
  /\ At(r, "archive", "update")
  /\ deliveries' = Update(deliveries, OwnDelivery(req[r]),
                          LAMBDA d : [d EXCEPT !.archived = TRUE])
  /\ Answer(r)
  /\ UNCHANGED <<quiet, messages, events, lastSeq, blobs, asked>>

-----------------------------------------------------------------------------
(* unsend and edit: look the caller's message up, refuse if a recipient    *)
(* has read it, update it, and notify the recipients.                      *)

WithdrawBegin(r, c) ==
  /\ \E op \in {"unsend", "edit"}, m \in DOMAIN asked :
       AcceptFrom(c, r, [op |-> op, at |-> "lookup", by |-> c, msg |-> m,
                         tell |-> {}])
  /\ UNCHANGED <<quiet, tables, asked>>

Withdrawing(r, at) == At(r, "unsend", at) \/ At(r, "edit", at)

\* Someone else's message answers 404; a recalled one is left as it is.
WithdrawLookup(r) ==
  /\ Withdrawing(r, "lookup")
  /\ LET m == req[r].msg
         open == /\ m \in DOMAIN messages /\ messages[m].from = req[r].by
                 /\ ~messages[m].recalled
     IN (open /\ Goto(r, "unread")) \/ (~open /\ Answer(r))
  /\ UNCHANGED <<quiet, tables, asked>>

\* Mutant: the recipients are not asked.
WithdrawAnyway(r) ==
  /\ Withdrawing(r, "unread")
  /\ Goto(r, "update")
  /\ UNCHANGED <<quiet, tables, asked>>

\* Once read, it is gone from the sender's hands.
WithdrawUnread(r) ==
  /\ Withdrawing(r, "unread")
  /\ \/ ReadBy(req[r].msg) = {} /\ Goto(r, "update")
     \/ ReadBy(req[r].msg) # {} /\ Answer(r)
  /\ UNCHANGED <<quiet, tables, asked>>

\* The UPDATE, without a second look; it may find no row to change.
WithdrawUpdate(r) ==
  /\ Withdrawing(r, "update")
  /\ messages' = Update(messages, {req[r].msg}, LAMBDA m :
       IF req[r].op = "unsend" THEN [m EXCEPT !.recalled = TRUE]
                               ELSE [m EXCEPT !.body = "edited"])
  /\ Goto(r, "recipients")
  /\ UNCHANGED <<quiet, deliveries, events, lastSeq, blobs, asked>>

\* Mutant: a recipient who has just read it is not told.
WithdrawUnreadRecipients(r) ==
  /\ Withdrawing(r, "recipients")
  /\ LET to == Recipients(req[r].msg) \ ReadBy(req[r].msg) IN
       req' = [req EXCEPT ![r] = IF to = {} THEN Idle
                                 ELSE [@ EXCEPT !.at = "tell", !.tell = to]]
  /\ UNCHANGED <<quiet, tables, asked>>

WithdrawRecipients(r) ==
  /\ Withdrawing(r, "recipients")
  /\ LET to == Recipients(req[r].msg) IN
       req' = [req EXCEPT ![r] = IF to = {} THEN Idle
                                 ELSE [@ EXCEPT !.at = "tell", !.tell = to]]
  /\ UNCHANGED <<quiet, tables, asked>>

WithdrawTell(r) ==
  /\ Withdrawing(r, "tell")
  /\ \E c \in req[r].tell :
       LET left == req[r].tell \ {c} IN
       /\ Emit(c, IF req[r].op = "unsend" THEN "message.recalled"
                                          ELSE "message.edited", req[r].msg)
       /\ req' = [req EXCEPT ![r] = IF left = {} THEN Idle
                                    ELSE [@ EXCEPT !.tell = left]]
  /\ UNCHANGED <<quiet, messages, deliveries, blobs, asked>>
=============================================================================
