------------------------------ MODULE Instance -------------------------------
(***************************************************************************)
(* One instance: its routes, its housekeeping and its clients together.    *)
(***************************************************************************)
EXTENDS Identity, Messages, Attachments, Events, Housekeeping

CONSTANTS MaxServed   \* bound: how many requests are served in a behaviour

ASSUME InstanceAssumption == MaxServed \in Nat

VARIABLES served      \* how many have been taken up

vars == <<store, served>>

Request ==
  {Idle} \cup SendJob \cup ReadJob \cup WithdrawJob \cup ArchiveJob
  \cup PeerJob \cup UploadJob \cup DownloadJob \cup SessionJob \cup RetainJob
  \cup GcJob

Init ==
  /\ revoked = {}
  /\ sessions = [k \in {} |-> TRUE]
  /\ messages = [m \in {} |-> None]
  /\ deliveries = [k \in {} |-> None]
  /\ events = [i \in {} |-> None]
  /\ lastSeq = 0
  /\ blobs = [b \in {} |-> None]
  /\ files = [s \in Sha |-> "absent"]
  /\ req = [j \in Job |-> Idle]
  /\ cursor = [c \in Chat |-> 0]
  /\ boots = 1
  /\ aged = {}
  /\ asked = [m \in {} |-> None]
  /\ uploaded = {}
  /\ served = 0

\* A client calls, or the owner.
Begin(r) ==
  /\ served < MaxServed
  /\ served' = served + 1
  /\ \/ \E c \in Chat : \/ SendBegin(r, c) \/ ReadBegin(r, c) \/ ArchiveBegin(r, c)
                        \/ WithdrawBegin(r, c) \/ UploadBegin(r, c)
                        \/ DownloadBegin(r, c) \/ SessionBegin(r, c)
     \/ PeerBegin(r) \/ RetainBegin(r) \/ GcBegin(r) \/ RevokeChat(r)

SendStep(r) ==
  \/ ResolveChat(r) \/ ResolveLabel(r) \/ ValidateBlob(r) \/ SpeakAs(r)
  \/ FindParent(r) \/ Push(r) \/ RecordRemote(r) \/ SendRollback(r)
  \/ SendCommit(r) \/ PeerCommit(r)

ReadStep(r) ==
  \/ ReadLookup(r) \/ ReadUnread(r) \/ ReadMark(r) \/ ReadRank(r)
  \/ ReadBump(r) \/ ReadTell(r) \/ ReadView(r) \/ Archive(r)

WithdrawStep(r) ==
  \/ WithdrawLookup(r) \/ WithdrawUnread(r) \/ WithdrawUpdate(r)
  \/ WithdrawRecipients(r) \/ WithdrawTell(r)

AttachmentStep(r) ==
  \/ UploadExists(r) \/ UploadReplace(r) \/ InlineExists(r) \/ InlineTruncate(r)
  \/ InlineWrite(r) \/ InsertBlob(r) \/ DownloadLookup(r) \/ DownloadBlob(r)
  \/ DownloadOpen(r) \/ DownloadServe(r)

SessionStep(r) == OpenSelect(r) \/ OpenReopen(r) \/ OpenInsert(r) \/ Close(r)

RetainStep(j) ==
  \/ Orphans(j) \/ DropOrphans(j) \/ StillUsed(j) \/ FileExists(j) \/ Unlink(j)
  \/ Doomed(j) \/ DoomedShas(j) \/ DropBlobs(j) \/ DropDeliveries(j) \/ DropEvents(j)
  \/ DropMessages(j)

GcStep(r) == GcDeliveries(r) \/ GcMessages(r) \/ GcEvents(r)

\* A thread goes on with its handler.
Step(r) ==
  \/ SendStep(r) \/ ReadStep(r) \/ WithdrawStep(r) \/ AttachmentStep(r)
  \/ SessionStep(r) \/ RetainStep(r) \/ GcStep(r)

\* What happens without a client calling.
Work ==
  \/ \E r \in Thread : Step(r)
  \/ RetainStep(Main)
  \/ \E c \in Chat : Poll(c)
  \/ HoursPass \/ DaysPass \/ Crash

\* Nothing is in flight and no client calls.
Stop == AtRest /\ UNCHANGED vars

Next == (\E r \in Thread : Begin(r)) \/ (Work /\ UNCHANGED served) \/ Stop

Spec == Init /\ [][Next]_vars

-----------------------------------------------------------------------------
(* Properties.                                                             *)

\* Every table holds rows of its schema, and every handler is at a statement
\* of its own with local variables of their types.
StoreTypeOK ==
  /\ revoked \subseteq Chat
  /\ IsTable(sessions, Chat \X Label, BOOLEAN)
  /\ IsTable(messages, MsgId, Message)
  /\ IsTable(deliveries, MsgId \X Chat, Delivery)
  /\ IsTable(events, Nat, Event) /\ lastSeq \in Nat
  /\ IsTable(blobs, BlobId, Blob)
  /\ files \in [Sha -> File]
  /\ req \in [Job -> Request]
  /\ cursor \in [Chat -> Nat] /\ boots \in Nat
  /\ aged \subseteq MsgId \cup BlobId
  /\ IsTable(asked, MsgId, Asked)
  /\ uploaded \subseteq BlobId

TypeOK == StoreTypeOK /\ served \in Nat

Party(m, c) == c = asked[m].from \/ c \in asked[m].to

\* A handler that got past the gate to a message serves its sender or one of
\* its recipients as the sending request named them: whatever runs between
\* two statements, nobody else's request ever holds its content, its
\* attachments, or answers it.
Isolation ==
  \A r \in Thread :
    /\ req[r].op = "read" /\ req[r].at # "lookup" => Party(req[r].msg, req[r].by)
    /\ req[r].op = "download" /\ req[r].at # "lookup" => Party(req[r].msg, req[r].by)
    /\ req[r].op = "send" /\ req[r].answers # None => Party(req[r].parent, req[r].by)

\* The rows of a message old enough to be forgotten are going, one table at a
\* time.
BeingForgotten(m) ==
  \E j \in Job : /\ req[j].op = "retain"
                 /\ req[j].at \in {"deliveries", "events", "messages"}
                 /\ m \in req[j].ids

\* The messages that clients find, or will when the instance serves again: a
\* start cleans first.
Kept == {m \in DOMAIN messages : ~BeingForgotten(m) /\ (Serving \/ ~Window \/ m \notin aged)}

\* All or nothing: a message has exactly the attachments its sender asked for,
\* also when another send took one of them, or cleaning deleted it, between
\* their validation and the transaction.
AttachedAsAsked == \A m \in Kept : AttachedTo(m) = asked[m].want

\* All or nothing: a message is in the box of every recipient its sender
\* asked for, but those revoked since, and of nobody else.
DeliveredAsAsked ==
  \A m \in Kept : /\ Recipients(m) \subseteq asked[m].to
                  /\ asked[m].to \ revoked \subseteq Recipients(m)

\* No delivery outlives its message: the foreign key would make the statement
\* that deletes the message fail, and cleaning stop halfway.
NoStrandedDelivery == \A k \in DOMAIN deliveries : k[1] \in DOMAIN messages

\* No attachment outlives its message, whose bytes would be kept for nobody,
\* wherever cleaning is cut; but _gc deletes what revoked chats sent and leaves
\* its attachments.
NoStrandedAttachment ==
  \A b \in DOMAIN blobs :
    LET m == blobs[b].attached IN m # None /\ asked[m].from \notin revoked => m \in DOMAIN messages

\* An attachment was uploaded by the chat that sends it.
OwnAttachments ==
  \A m \in DOMAIN messages : \A b \in AttachedTo(m) : blobs[b].by = messages[m].from

Announced(c, type, m) ==
  \E i \in DOMAIN events : events[i] = [chat |-> c, type |-> type, msg |-> m]

\* Mail in a box was announced to its owner.
MailAnnounced ==
  \A k \in DOMAIN deliveries : k[2] \notin revoked => Announced(k[2], "message.received", k[1])

Working(m, ops, ats) ==
  \E r \in Thread : req[r].op \in ops /\ req[r].at \in ats /\ req[r].msg = m

\* A message marked read has a status that says so and its sender was told,
\* once the read that marked it is over.
ReceiptGiven ==
  \A k \in DOMAIN deliveries :
    deliveries[k].read /\ k[1] \in DOMAIN messages
      /\ ~Working(k[1], {"read"}, {"rank", "bump", "tell"})
    => /\ deliveries[k].status # "delivered"
       /\ messages[k[1]].from \in Chat \ revoked
            => Announced(messages[k[1]].from, "message.read", k[1])

\* A recalled or edited message was announced as such to every recipient, once
\* the request that did it is over.
WithdrawalAnnounced ==
  \A k \in DOMAIN deliveries :
    k[1] \in DOMAIN messages /\ k[2] \notin revoked
      /\ ~Working(k[1], {"unsend", "edit"}, {"recipients", "tell"})
    => /\ messages[k[1]].recalled => Announced(k[2], "message.recalled", k[1])
       /\ messages[k[1]].body = "edited" => Announced(k[2], "message.edited", k[1])

\* Mail to a session carries a label its recipient declared.
LabelDeclared ==
  \A k \in DOMAIN deliveries :
    deliveries[k].session # None => <<k[2], deliveries[k].session>> \in DOMAIN sessions

\* Every row of blobs has its bytes, complete, once no upload is under way.
BytesKept == AtRest => \A b \in DOMAIN blobs : files[blobs[b].sha] = "whole"

\* A download that found its attachment serves all of its bytes.
ServedWhole == \A r \in Thread : At(r, "download", "serve") => files[req[r].sha] = "whole"

\* A status never goes backwards.
LadderUp ==
  [][\A k \in DOMAIN deliveries \cap DOMAIN deliveries' :
       STATUS_RANK[deliveries[k].status] <= STATUS_RANK[deliveries'[k].status]]_vars

\* Once a recipient has read it, a message is neither recalled nor edited.
ReadIsFinal ==
  [][\A m \in DOMAIN messages \cap DOMAIN messages' :
       ReadBy(m) # {} => messages'[m] = messages[m]]_vars

\* Cleaning forgets a message only when it is old, or when every chat it was
\* for has been revoked, and its sender too.
ForgottenForAReason ==
  [][\A m \in DOMAIN messages \ DOMAIN messages' :
       m \in aged \/ asked[m].to \cup {asked[m].from} \subseteq revoked]_vars

\* A new event is numbered after every cursor, so no client skips it, also
\* after the newest events have been deleted.
NewEventsAreAhead ==
  [][\A i \in DOMAIN events' \ DOMAIN events : \A c \in Chat : cursor[c] < i]_vars

\* A client that moves its cursor has been given every event in between.
NothingSkipped ==
  [][\A c \in Chat : \A i \in DOMAIN events :
       events[i].chat = c /\ cursor[c] < i /\ i <= cursor'[c] => i \in Page(c)]_vars

-----------------------------------------------------------------------------
(* The contract of Mailbox, and the liveness of the instance.              *)

\* A message as its parties see it, whatever table it is read from.
Letter(m) ==
  [from |-> messages[m].from, body |-> messages[m].body,
   recalled |-> messages[m].recalled, read |-> ReadBy(m),
   status |-> [c \in Recipients(m) |-> deliveries[<<m, c>>].status],
   attached |-> AttachedTo(m)]

Contract == INSTANCE Mailbox WITH
  mail <- [m \in Kept |-> Letter(m)], gone <- revoked, Rank <- STATUS_RANK

\* Whatever statements its handlers are made of, an instance keeps the promises
\* of Mailbox to every client, as long as the operations that break them when
\* they overlap take turns, and a start after a crash cleans what is old.
KeepsContract == Contract!Spec

\* A handler goes on until it has answered, and a client that is not revoked
\* keeps polling.
Fairness ==
  /\ \A j \in Thread : WF_vars(Step(j) /\ UNCHANGED served)
  /\ WF_vars(RetainStep(Main) /\ UNCHANGED served)
  /\ \A c \in Chat : WF_vars(Poll(c) /\ c \notin revoked /\ UNCHANGED served)

FairSpec == Spec /\ Fairness

Behind(c) == \E i \in DOMAIN events : events[i].chat = c /\ cursor[c] < i

\* A client that is behind catches up: every event there is for it reaches it,
\* unless its chat is revoked first, whatever cleaning, crashes and its own
\* paging do to the events in between.
EventHeard == \A c \in Chat : Behind(c) ~> ~Behind(c) \/ c \in revoked

\* Every request is answered: whatever other handlers and cleaning do to the
\* rows it has read, a handler is never without a next statement, or goes round
\* for ever, and neither is a start, wherever the one before it was cut.
EveryRequestAnswered == \A j \in Job : req[j] # Idle ~> req[j] = Idle
=============================================================================
