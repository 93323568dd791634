--------------------------- MODULE InstanceProofs ----------------------------
(***************************************************************************)
(* Theorems about an Instance, for every value of its constants: the types *)
(* of its tables and handlers, then what the tables keep whatever its      *)
(* clients, its housekeeping and its crashes do.                           *)
(***************************************************************************)
EXTENDS Instance, FiniteSetTheorems, SequenceTheorems, TLAPS

USE StoreAssumption

-----------------------------------------------------------------------------
(* Statements keep a table a table.                                        *)

\* An INSERT keeps the schema.
LEMMA PutType ==
  ASSUME NEW keys, NEW rows, NEW t, IsTable(t, keys, rows),
         NEW k \in keys, NEW row \in rows
  PROVE  IsTable(Put(t, k, row), keys, rows)
BY DEF IsTable, Put

\* A DELETE keeps the schema.
LEMMA DropType ==
  ASSUME NEW keys, NEW rows, NEW t, IsTable(t, keys, rows), NEW gone
  PROVE  IsTable(Drop(t, gone), keys, rows)
BY DEF IsTable, Drop, Restrict

\* Appending events keeps the schema of events.
LEMMA EmitAllType ==
  ASSUME StoreTypeOK, NEW rows \in Seq(Event), EmitAll(rows)
  PROVE  IsTable(events', Nat, Event) /\ lastSeq' \in Nat
<1>1. Len(rows) \in Nat /\ \A i \in 1 .. Len(rows) : rows[i] \in Event
  BY LenProperties, ElementOfSeq
<1>2. lastSeq' \in Nat
  BY <1>1 DEF EmitAll, StoreTypeOK
<1>3. \A i \in lastSeq + 1 .. lastSeq + Len(rows) :
         i \in Nat /\ i > lastSeq /\ i - lastSeq \in 1 .. Len(rows)
  BY <1>1 DEF StoreTypeOK
<1>4. DOMAIN events' \subseteq Nat
  BY <1>3 DEF EmitAll, StoreTypeOK, IsTable
<1>5. ASSUME NEW i \in DOMAIN events' PROVE events'[i] \in Event
  <2>1. CASE i \in DOMAIN events
    BY <2>1 DEF EmitAll, StoreTypeOK, IsTable
  <2>2. CASE i \notin DOMAIN events
    BY <1>1, <1>3, <2>2 DEF EmitAll
  <2> QED BY <2>1, <2>2
<1> QED BY <1>2, <1>4, <1>5 DEF EmitAll, IsTable

-----------------------------------------------------------------------------
(* A request in flight is one of its operation's records.                  *)

\* The operation of a handler tells which local variables it has.
LEMMA RequestKinds ==
  ASSUME NEW s \in Request
  PROVE  /\ s.op = "send" => s \in SendJob
         /\ s.op = "read" => s \in ReadJob
         /\ s.op \in {"unsend", "edit"} => s \in WithdrawJob
         /\ s.op = "archive" => s \in ArchiveJob
         /\ s.op = "peer" => s \in PeerJob
         /\ s.op \in {"upload", "inline"} => s \in UploadJob
         /\ s.op = "download" => s \in DownloadJob
         /\ s.op \in {"open", "close"} => s \in SessionJob
         /\ s.op = "retain" => s \in RetainJob
         /\ s.op = "gc" => s \in GcJob
BY DEF Request, Idle, SendJob, ReadJob, WithdrawJob, ArchiveJob, PeerJob,
       UploadJob, DownloadJob, SessionJob, RetainJob, GcJob

\* A handler that moves on, or answers, leaves the other handlers alone.
LEMMA JobStep ==
  ASSUME StoreTypeOK, NEW j \in Job, NEW s \in Request,
         req' = [req EXCEPT ![j] = s]
  PROVE  req' \in [Job -> Request]
BY DEF StoreTypeOK

\* Answering is such a step.
LEMMA AnswerStep ==
  ASSUME StoreTypeOK, NEW j \in Job, Answer(j)
  PROVE  req' \in [Job -> Request]
<1>1. Idle \in Request
  BY DEF Request
<1> QED BY <1>1, JobStep DEF Answer

\* So is moving on to another statement.
LEMMA GotoStep ==
  ASSUME StoreTypeOK, NEW j \in Job, NEW at,
         [req[j] EXCEPT !.at = at] \in Request, Goto(j, at)
  PROVE  req' \in [Job -> Request]
BY JobStep DEF Goto

\* A statement that only reads changes nothing but its handler.
LEMMA ReadOnly ==
  ASSUME StoreTypeOK, req' \in [Job -> Request],
         UNCHANGED <<quiet, tables, asked>>
  PROVE  StoreTypeOK'
BY DEF StoreTypeOK, quiet, tables

-----------------------------------------------------------------------------
(* send                                                                    *)

LEMMA AdvanceStep ==
  ASSUME StoreTypeOK, NEW r \in Thread, NEW s \in SendJob, Advance(r, s)
  PROVE  req' \in [Job -> Request]
<1>1. Stage(s) \in {"resolve", "blobs", "session", "parent", "write"}
  BY DEF Stage
<1>2. [s EXCEPT !.at = Stage(s)] \in SendJob
  BY <1>1 DEF SendJob
<1>3. {Idle} \cup SendJob \subseteq Request
  BY DEF Request
<1> QED BY <1>2, <1>3, JobStep DEF Advance, Job

LEMMA SendReadsType ==
  ASSUME StoreTypeOK, NEW r \in Thread,
         \/ ResolveChat(r) \/ ResolveLabel(r) \/ ValidateBlob(r) \/ SpeakAs(r)
         \/ FindParent(r) \/ Push(r) \/ SendRollback(r)
  PROVE  StoreTypeOK'
<1>0. r \in Job /\ req[r] \in Request
  BY DEF StoreTypeOK, Job
<1>1. req[r].op = "send" => req[r] \in SendJob
  BY <1>0, RequestKinds
<1>2. SendJob \subseteq Request
  BY DEF Request
<1>3. CASE ResolveChat(r)
  <2>1. PICK a \in req[r].todo :
           \/ Answer(r)
           \/ Advance(r, [req[r] EXCEPT !.todo = @ \ {a}])
           \/ req' = [req EXCEPT ![r].at = "label", ![r].now = a]
    BY <1>3 DEF ResolveChat
  <2>2. req[r] \in SendJob
    BY <1>1, <1>3 DEF ResolveChat, At
  <2>3. [req[r] EXCEPT !.todo = @ \ {a}] \in SendJob
    BY <2>2 DEF SendJob
  <2>4. [req[r] EXCEPT !.at = "label", !.now = a] \in SendJob
    BY <2>1, <2>2 DEF SendJob
  <2>5. ASSUME req' = [req EXCEPT ![r].at = "label", ![r].now = a]
        PROVE  req' \in [Job -> Request]
    <3>1. req' = [req EXCEPT ![r] = [req[r] EXCEPT !.at = "label", !.now = a]]
      BY <2>5
    <3> QED BY <1>0, <1>2, <2>4, <3>1, JobStep
  <2>6. req' \in [Job -> Request]
    BY <1>0, <2>1, <2>3, <2>5, AnswerStep, AdvanceStep
  <2> QED BY <1>3, <2>6, ReadOnly DEF ResolveChat
<1>4. CASE ResolveLabel(r)
  <2>1. req[r] \in SendJob
    BY <1>1, <1>4 DEF ResolveLabel, At
  <2>2. [req[r] EXCEPT !.todo = @ \ {req[r].now}] \in SendJob
    BY <2>1 DEF SendJob
  <2>3. req' \in [Job -> Request]
    BY <1>0, <1>4, <2>2, AnswerStep, AdvanceStep DEF ResolveLabel
  <2> QED BY <1>4, <2>3, ReadOnly DEF ResolveLabel
<1>5. CASE ValidateBlob(r)
  <2>1. PICK b \in req[r].check :
           Answer(r) \/ Advance(r, [req[r] EXCEPT !.check = @ \ {b}])
    BY <1>5 DEF ValidateBlob
  <2>2. req[r] \in SendJob
    BY <1>1, <1>5 DEF ValidateBlob, At
  <2>3. [req[r] EXCEPT !.check = @ \ {b}] \in SendJob
    BY <2>2 DEF SendJob
  <2>4. req' \in [Job -> Request]
    BY <1>0, <2>1, <2>3, AnswerStep, AdvanceStep
  <2> QED BY <1>5, <2>4, ReadOnly DEF ValidateBlob
<1>6. CASE SpeakAs(r)
  <2>1. req[r] \in SendJob
    BY <1>1, <1>6 DEF SpeakAs, At
  <2>2. [req[r] EXCEPT !.as = None] \in SendJob
    BY <2>1 DEF SendJob
  <2>3. req' \in [Job -> Request]
    BY <1>0, <1>6, <2>2, AnswerStep, AdvanceStep DEF SpeakAs
  <2> QED BY <1>6, <2>3, ReadOnly DEF SpeakAs
<1>7. CASE FindParent(r)
  <2>1. req[r] \in SendJob
    BY <1>1, <1>7 DEF FindParent, At
  <2>2. ASSUME VisibleTo(req[r].parent, req[r].by)
        PROVE  [req[r] EXCEPT !.answers = messages[req[r].parent].from] \in SendJob
    <3>1. req[r].parent \in MsgId /\ messages[req[r].parent] \in Message
      BY <2>2 DEF VisibleTo, StoreTypeOK, IsTable
    <3>2. messages[req[r].parent].from \in Chat \cup Peer
      BY <3>1 DEF Message
    <3> QED BY <2>1, <3>1, <3>2 DEF SendJob
  <2>3. req' \in [Job -> Request]
    BY <1>0, <1>7, <2>2, AnswerStep, AdvanceStep DEF FindParent
  <2> QED BY <1>7, <2>3, ReadOnly DEF FindParent
<1>8. CASE Push(r)
  <2>1. [req[r] EXCEPT !.at = "record"] \in SendJob
    BY <1>1, <1>8 DEF Push, At, SendJob
  <2>2. req' \in [Job -> Request]
    BY <1>0, <1>2, <1>8, <2>1, AnswerStep, JobStep DEF Push, Goto
  <2> QED BY <1>8, <2>2, ReadOnly DEF Push
<1>9. CASE SendRollback(r)
  BY <1>0, <1>9, AnswerStep, ReadOnly DEF SendRollback
<1> QED BY <1>3, <1>4, <1>5, <1>6, <1>7, <1>8, <1>9

LEMMA SendBeginType ==
  ASSUME StoreTypeOK, NEW r \in Thread, NEW c \in Chat, SendBegin(r, c)
  PROVE  StoreTypeOK'
<1> DEFINE job(to, want, as, parent) ==
      [op |-> "send", at |-> "resolve", by |-> c, to |-> to, want |-> want,
       todo |-> to, now |-> None, check |-> want, as |-> as,
       parent |-> parent, answers |-> None]
<1>0. PICK to \in SUBSET Address, want \in SUBSET BlobId,
           as \in Label \cup {None}, parent \in DOMAIN asked \cup {None} :
         Accept(r, job(to, want, as, parent))
  BY DEF SendBegin, AcceptFrom
<1>1. req' = [req EXCEPT ![r] = job(to, want, as, parent)]
  BY <1>0 DEF Accept
<1>2. parent \in MsgId \cup {None}
  BY DEF StoreTypeOK, IsTable
<1>3. req' \in [Job -> Request]
  BY <1>1, <1>2, JobStep DEF SendJob, Request, Job
<1> QED BY <1>3, ReadOnly DEF SendBegin

\* An id that is not in use is one of the ids.
LEMMA FreshId ==
  ASSUME NEW ids, NEW used, used \subseteq ids, ids # used
  PROVE  Fresh(ids, used) \in ids \ used
BY DEF Fresh

LEMMA RecordRemoteType ==
  ASSUME StoreTypeOK, NEW r \in Thread, RecordRemote(r)
  PROVE  StoreTypeOK'
<1>1. req[r] \in SendJob /\ r \in Job
  BY RequestKinds DEF StoreTypeOK, RecordRemote, At, Job
<1> DEFINE m == Fresh(MsgId, DOMAIN asked)
<1>2. m \in MsgId
  BY FreshId DEF RecordRemote, StoreTypeOK, IsTable
<1>3. PICK a \in Remote(req[r]) :
         /\ messages' = Put(messages, m, Row(req[r].by, a[1]))
         /\ asked' = Put(asked, m, [from |-> req[r].by, to |-> {}, want |-> {}])
  BY DEF RecordRemote
<1>4. Row(req[r].by, a[1]) \in Message
  BY <1>1 DEF Remote, Row, Message, SendJob
<1>5. IsTable(messages', MsgId, Message)
  BY <1>2, <1>3, <1>4, PutType DEF StoreTypeOK
<1>6. [from |-> req[r].by, to |-> {}, want |-> {}] \in Asked
  BY <1>1 DEF SendJob, Asked
<1>7. IsTable(asked', MsgId, Asked)
  BY <1>2, <1>3, <1>6, PutType DEF StoreTypeOK
<1>8. req' \in [Job -> Request]
  BY <1>1, AnswerStep DEF RecordRemote
<1> QED BY <1>5, <1>7, <1>8 DEF RecordRemote, StoreTypeOK, quiet

\* There are no more addressees than chats once no chat is named twice.
LEMMA FewAddressees ==
  ASSUME NEW s, s.to \subseteq Chat \X (Label \cup {None}), ~SameChatTwice(s)
  PROVE  IsFiniteSet(s.to)
<1> DEFINE first == [a \in s.to |-> a[1]]
<1>1. \A a \in s.to : a[1] \in Chat
  OBVIOUS
<1>2. \A a, b \in s.to : a[1] = b[1] => a = b
  BY DEF SameChatTwice
<1>3. first \in Injection(s.to, Chat)
  BY <1>1, <1>2 DEF Injection, IsInjective
<1> QED BY <1>3, FS_Injection

LEMMA SendCommitType ==
  ASSUME StoreTypeOK, NEW r \in Thread, SendCommit(r)
  PROVE  StoreTypeOK'
<1> DEFINE s == req[r]
           m == Fresh(MsgId, DOMAIN asked)
           n == Cardinality(s.to)
           new == {<<m, c>> : c \in Chats(s)}
           labelOf(c) == (CHOOSE a \in s.to : a[1] = c)[2]
           added == [k \in DOMAIN deliveries \cup new |->
                       IF k \in new THEN NewDelivery(labelOf(k[2])) ELSE deliveries[k]]
<1>1. s \in SendJob /\ r \in Job
  BY RequestKinds DEF StoreTypeOK, SendCommit, At, Job
<1>2. m \in MsgId
  BY FreshId DEF SendCommit, StoreTypeOK, IsTable
<1>3. s.to \subseteq Chat \X (Label \cup {None})
  BY <1>1 DEF SendCommit, Remote, SendJob, Address
<1>4. Chats(s) \subseteq Chat
  BY <1>3 DEF Chats
<1>5. PICK order \in Injection(1 .. n, s.to) :
         LET received == [i \in 1 .. n |-> [chat |-> order[i][1],
                            type |-> "message.received", msg |-> m]]
             replied == [chat |-> s.answers, type |-> "message.replied",
                         msg |-> s.parent]
         IN EmitAll(IF s.answers = None THEN received ELSE Append(received, replied))
  BY DEF SendCommit
<1>6. messages' = Put(messages, m, Row(s.by, None))
  BY DEF SendCommit
<1>7. deliveries' = BumpReplied(s, added)
  BY DEF SendCommit
<1>8. blobs' = [b \in DOMAIN blobs |->
                  IF b \in s.want THEN [blobs[b] EXCEPT !.attached = m] ELSE blobs[b]]
  BY DEF SendCommit, Update
<1>9. asked' = Put(asked, m, [from |-> s.by, want |-> s.want, to |-> Chats(s)])
  BY DEF SendCommit, Chats
<1>10. IsTable(messages', MsgId, Message)
  <2>1. Row(s.by, None) \in Message
    BY <1>1 DEF Row, Message, SendJob
  <2> QED BY <1>2, <1>6, <2>1, PutType DEF StoreTypeOK
<1>11. IsTable(added, MsgId \X Chat, Delivery)
  <2>1. \A c \in Chats(s) : NewDelivery(labelOf(c)) \in Delivery
    <3>1. TAKE c \in Chats(s)
    <3>2. \E a \in s.to : a[1] = c
      BY <3>1 DEF Chats
    <3>3. labelOf(c) \in Label \cup {None}
      BY <1>3, <3>2
    <3> QED BY <3>3 DEF NewDelivery, Delivery, Status
  <2>2. new \subseteq MsgId \X Chat
    BY <1>2, <1>4
  <2>3. ASSUME NEW k \in DOMAIN added PROVE added[k] \in Delivery
    <3>1. CASE k \in new
      BY <2>1, <3>1
    <3>2. CASE k \notin new
      BY <3>2 DEF StoreTypeOK, IsTable
    <3> QED BY <3>1, <3>2
  <2> HIDE DEF new, labelOf
  <2> QED BY <2>2, <2>3 DEF StoreTypeOK, IsTable
<1>12. IsTable(deliveries', MsgId \X Chat, Delivery)
  <2>1. ASSUME NEW k \in DOMAIN added
        PROVE  [added[k] EXCEPT !.status = "replied"] \in Delivery
    <3> HIDE DEF added
    <3> QED BY <1>11 DEF IsTable, Delivery, Status
  <2> HIDE DEF added
  <2> QED BY <1>7, <1>11, <2>1 DEF BumpReplied, IsTable
<1>13. IsTable(blobs', BlobId, Blob)
  <2> HIDE DEF m, s
  <2>1. ASSUME NEW b \in DOMAIN blobs PROVE [blobs[b] EXCEPT !.attached = m] \in Blob
    <3>1. blobs[b] \in Blob
      BY DEF StoreTypeOK, IsTable
    <3> QED BY <1>2, <3>1 DEF Blob
  <2> QED BY <1>8, <2>1 DEF StoreTypeOK, IsTable
<1>14. IsTable(asked', MsgId, Asked)
  <2>1. [from |-> s.by, want |-> s.want, to |-> Chats(s)] \in Asked
    BY <1>1, <1>4 DEF Asked, SendJob
  <2> QED BY <1>2, <1>9, <2>1, PutType DEF StoreTypeOK
<1>15. IsTable(events', Nat, Event) /\ lastSeq' \in Nat
  <2>1. n \in Nat
    <3>1. IsFiniteSet(s.to)
      BY <1>3, FewAddressees DEF SendCommit, IsRefused
    <3> QED BY <3>1, FS_CardinalityType
  <2> DEFINE received == [i \in 1 .. n |-> [chat |-> order[i][1],
                            type |-> "message.received", msg |-> m]]
             replied == [chat |-> s.answers, type |-> "message.replied",
                         msg |-> s.parent]
  <2>2. order \in [1 .. n -> s.to]
    BY <1>5 DEF Injection
  <2>3. \A i \in 1 .. n : received[i] \in Event
    BY <1>2, <1>3, <2>2 DEF Event, EventType
  <2>4. received \in Seq(Event)
    <3> HIDE DEF n
    <3> QED BY <2>1, <2>3, IsASeq
  <2>5. CASE s.answers = None
    <3>1. EmitAll(received)
      BY <1>5, <2>5
    <3> HIDE DEF received
    <3> QED BY <2>4, <3>1, EmitAllType
  <2>6. CASE s.answers # None
    <3>1. EmitAll(Append(received, replied))
      BY <1>5, <2>6
    <3>2. s.answers \in Chat /\ s.parent \in MsgId
      BY <1>1, <2>6 DEF SendCommit, IsRefused, SendJob
    <3>3. replied \in Event
      BY <3>2 DEF Event, EventType
    <3> HIDE DEF received, replied
    <3>4. Append(received, replied) \in Seq(Event)
      BY <2>4, <3>3
    <3> QED BY <3>1, <3>4, EmitAllType
  <2> QED BY <2>5, <2>6
<1>16. req' \in [Job -> Request]
  BY <1>1, AnswerStep DEF SendCommit
<1> QED BY <1>10, <1>12, <1>13, <1>14, <1>15, <1>16 DEF SendCommit, StoreTypeOK, quiet

\* Mail from a paired instance.
LEMMA PeerType ==
  ASSUME StoreTypeOK, NEW r \in Thread, PeerBegin(r) \/ PeerCommit(r)
  PROVE  StoreTypeOK'
<1>0. r \in Job /\ req[r] \in Request
  BY DEF StoreTypeOK, Job
<1>1. CASE PeerBegin(r)
  <2>1. PICK p \in Peer, c \in Chat :
           req' = [req EXCEPT ![r] = [op |-> "peer", at |-> "commit", by |-> p, to |-> c]]
    BY <1>1 DEF PeerBegin, Accept
  <2>2. req' \in [Job -> Request]
    BY <1>0, <2>1, JobStep DEF PeerJob, Request
  <2> QED BY <1>1, <2>2, ReadOnly DEF PeerBegin
<1>2. CASE PeerCommit(r)
  <2> DEFINE s == req[r]
             m == Fresh(MsgId, DOMAIN asked)
  <2>1. s.by \in Peer /\ s.to \in Chat
    BY <1>0, <1>2, RequestKinds DEF PeerCommit, At, PeerJob
  <2>2. m \in MsgId
    BY <1>2, FreshId DEF PeerCommit, StoreTypeOK, IsTable
  <2>3. /\ messages' = Put(messages, m, Row(s.by, None))
        /\ deliveries' = Put(deliveries, <<m, s.to>>, NewDelivery(None))
        /\ EmitAll(<<[chat |-> s.to, type |-> "message.received", msg |-> m]>>)
        /\ asked' = Put(asked, m, [from |-> s.by, to |-> {s.to}, want |-> {}])
    BY <1>2 DEF PeerCommit, Emit
  <2>4. req' \in [Job -> Request]
    BY <1>0, <1>2, AnswerStep DEF PeerCommit
  <2> HIDE DEF m, s
  <2>5. Row(s.by, None) \in Message /\ NewDelivery(None) \in Delivery
    BY <2>1 DEF Row, Message, NewDelivery, Delivery, Status
  <2>6. [chat |-> s.to, type |-> "message.received", msg |-> m] \in Event
    BY <2>1, <2>2 DEF Event, EventType
  <2>7. [from |-> s.by, to |-> {s.to}, want |-> {}] \in Asked
    BY <2>1 DEF Asked
  <2>8. IsTable(messages', MsgId, Message)
    BY <2>2, <2>3, <2>5, PutType DEF StoreTypeOK
  <2>9. IsTable(deliveries', MsgId \X Chat, Delivery)
    BY <2>1, <2>2, <2>3, <2>5, PutType DEF StoreTypeOK
  <2>10. IsTable(events', Nat, Event) /\ lastSeq' \in Nat
    BY <2>3, <2>6, EmitAllType
  <2>11. IsTable(asked', MsgId, Asked)
    BY <2>2, <2>3, <2>7, PutType DEF StoreTypeOK
  <2> QED
    BY <1>2, <2>4, <2>8, <2>9, <2>10, <2>11 DEF PeerCommit, StoreTypeOK, quiet
<1> QED BY <1>1, <1>2

-----------------------------------------------------------------------------
(* read, archive                                                           *)

\* An event for a chat keeps the schema of events.
LEMMA EmitType ==
  ASSUME StoreTypeOK, NEW c \in Chat, NEW type \in EventType, NEW m \in MsgId,
         Emit(c, type, m)
  PROVE  IsTable(events', Nat, Event) /\ lastSeq' \in Nat
<1>1. <<[chat |-> c, type |-> type, msg |-> m]>> \in Seq(Event)
  BY DEF Event
<1> QED BY <1>1, EmitAllType DEF Emit

LEMMA ReadBeginType ==
  ASSUME StoreTypeOK, NEW r \in Thread, NEW c \in Chat,
         ReadBegin(r, c) \/ ArchiveBegin(r, c)
  PROVE  StoreTypeOK'
<1>0. r \in Job /\ DOMAIN asked \subseteq MsgId
  BY DEF StoreTypeOK, Job, IsTable
<1>1. CASE ReadBegin(r, c)
  <2>1. PICK m \in DOMAIN asked, peek \in BOOLEAN :
           req' = [req EXCEPT ![r] = [op |-> "read", at |-> "lookup", by |-> c,
                                      msg |-> m, peek |-> peek, row |-> None]]
    BY <1>1 DEF ReadBegin, AcceptFrom, Accept
  <2>2. req' \in [Job -> Request]
    BY <1>0, <2>1, JobStep DEF ReadJob, Request
  <2> QED BY <1>1, <2>2, ReadOnly DEF ReadBegin
<1>2. CASE ArchiveBegin(r, c)
  <2>1. PICK m \in DOMAIN asked :
           req' = [req EXCEPT ![r] = [op |-> "archive", at |-> "update", by |-> c,
                                      msg |-> m]]
    BY <1>2 DEF ArchiveBegin, AcceptFrom, Accept
  <2>2. req' \in [Job -> Request]
    BY <1>0, <2>1, JobStep DEF ArchiveJob, Request
  <2> QED BY <1>2, <2>2, ReadOnly DEF ArchiveBegin
<1> QED BY <1>1, <1>2

LEMMA ReadReadsType ==
  ASSUME StoreTypeOK, NEW r \in Thread,
         ReadLookup(r) \/ ReadUnread(r) \/ ReadRank(r) \/ ReadView(r)
  PROVE  StoreTypeOK'
<1>0. r \in Job /\ req[r] \in Request
  BY DEF StoreTypeOK, Job
<1>1. req[r] \in ReadJob
  BY <1>0, RequestKinds DEF ReadLookup, ReadUnread, ReadRank, ReadView, At
<1>2. \A at \in {"unread", "mark", "rank", "bump", "tell", "view"} :
         [req[r] EXCEPT !.at = at] \in Request
  BY <1>1 DEF ReadJob, Request
<1>3. CASE ReadLookup(r)
  <2>1. CASE Answer(r)
    BY <1>0, <1>3, <2>1, AnswerStep, ReadOnly DEF ReadLookup
  <2>2. CASE ~Answer(r)
    <3> DEFINE t == [req[r] EXCEPT !.at = "unread", !.row = messages[req[r].msg]]
    <3>1. VisibleTo(req[r].msg, req[r].by) /\ req' = [req EXCEPT ![r] = t]
      BY <1>3, <2>2 DEF ReadLookup
    <3>2. messages[req[r].msg] \in Message
      BY <3>1 DEF VisibleTo, StoreTypeOK, IsTable
    <3>3. t \in Request
      BY <1>1, <3>2 DEF ReadJob, Request
    <3> QED BY <1>0, <1>3, <3>1, <3>3, JobStep, ReadOnly DEF ReadLookup
  <2> QED BY <2>1, <2>2
<1>4. CASE ReadUnread(r)
  <2>1. req' \in [Job -> Request]
    BY <1>0, <1>2, <1>4, AnswerStep, GotoStep DEF ReadUnread
  <2> QED BY <1>4, <2>1, ReadOnly DEF ReadUnread
<1>5. CASE ReadRank(r)
  <2>1. req' \in [Job -> Request]
    BY <1>0, <1>2, <1>5, GotoStep DEF ReadRank
  <2> QED BY <1>5, <2>1, ReadOnly DEF ReadRank
<1>6. CASE ReadView(r)
  BY <1>0, <1>6, AnswerStep, ReadOnly DEF ReadView
<1> QED BY <1>3, <1>4, <1>5, <1>6

\* The statements of read and archive that change a delivery, and the receipt.
LEMMA ReadWritesType ==
  ASSUME StoreTypeOK, NEW r \in Thread,
         ReadMark(r) \/ ReadBump(r) \/ ReadTell(r) \/ Archive(r)
  PROVE  StoreTypeOK'
<1>0. r \in Job /\ req[r] \in Request
  BY DEF StoreTypeOK, Job
<1>1. ASSUME NEW k \in DOMAIN deliveries
      PROVE  /\ [deliveries[k] EXCEPT !.read = TRUE] \in Delivery
             /\ [deliveries[k] EXCEPT !.status = "read"] \in Delivery
             /\ [deliveries[k] EXCEPT !.archived = TRUE] \in Delivery
  <2>1. deliveries[k] \in Delivery
    BY DEF StoreTypeOK, IsTable
  <2> QED BY <2>1 DEF Delivery, Status
<1>2. CASE ReadMark(r)
  <2>1. req[r] \in ReadJob
    BY <1>0, <1>2, RequestKinds DEF ReadMark, At
  <2>2. req' \in [Job -> Request]
    <3>1. [req[r] EXCEPT !.at = "rank"] \in Request
      BY <2>1 DEF ReadJob, Request
    <3> QED BY <1>0, <1>2, <3>1, GotoStep DEF ReadMark
  <2>3. IsTable(deliveries', MsgId \X Chat, Delivery)
    BY <1>1, <1>2 DEF ReadMark, Update, StoreTypeOK, IsTable
  <2> QED BY <1>2, <2>2, <2>3 DEF ReadMark, StoreTypeOK, quiet
<1>3. CASE ReadBump(r)
  <2>1. req[r] \in ReadJob
    BY <1>0, <1>3, RequestKinds DEF ReadBump, At
  <2>2. req' \in [Job -> Request]
    <3>1. [req[r] EXCEPT !.at = "tell"] \in Request
      BY <2>1 DEF ReadJob, Request
    <3> QED BY <1>0, <1>3, <3>1, GotoStep DEF ReadBump
  <2>3. IsTable(deliveries', MsgId \X Chat, Delivery)
    BY <1>1, <1>3 DEF ReadBump, Update, StoreTypeOK, IsTable
  <2> QED BY <1>3, <2>2, <2>3 DEF ReadBump, StoreTypeOK, quiet
<1>4. CASE ReadTell(r)
  <2>1. req[r] \in ReadJob
    BY <1>0, <1>4, RequestKinds DEF ReadTell, At
  <2>2. req' \in [Job -> Request]
    <3>1. [req[r] EXCEPT !.at = "view"] \in Request
      BY <2>1 DEF ReadJob, Request
    <3> QED BY <1>0, <1>4, <3>1, GotoStep DEF ReadTell
  <2>3. IsTable(events', Nat, Event) /\ lastSeq' \in Nat
    <3>1. CASE UNCHANGED <<events, lastSeq>>
      BY <3>1 DEF StoreTypeOK
    <3>2. CASE ~UNCHANGED <<events, lastSeq>>
      <4>1. /\ req[r].row.from \in Chat
            /\ Emit(req[r].row.from, "message.read", req[r].msg)
        BY <1>4, <3>2 DEF ReadTell
      <4>2. req[r].msg \in MsgId
        BY <2>1 DEF ReadJob
      <4> QED BY <4>1, <4>2, EmitType DEF EventType
    <3> QED BY <3>1, <3>2
  <2> QED BY <1>4, <2>2, <2>3 DEF ReadTell, StoreTypeOK, quiet
<1>5. CASE Archive(r)
  <2>1. IsTable(deliveries', MsgId \X Chat, Delivery)
    BY <1>1, <1>5 DEF Archive, Update, StoreTypeOK, IsTable
  <2>2. req' \in [Job -> Request]
    BY <1>0, <1>5, AnswerStep DEF Archive
  <2> QED BY <1>5, <2>1, <2>2 DEF Archive, StoreTypeOK, quiet
<1> QED BY <1>2, <1>3, <1>4, <1>5

-----------------------------------------------------------------------------
(* unsend, edit                                                            *)

LEMMA WithdrawBeginType ==
  ASSUME StoreTypeOK, NEW r \in Thread, NEW c \in Chat, WithdrawBegin(r, c)
  PROVE  StoreTypeOK'
<1>1. PICK op \in {"unsend", "edit"}, m \in DOMAIN asked :
         req' = [req EXCEPT ![r] = [op |-> op, at |-> "lookup", by |-> c, msg |-> m,
                                    tell |-> {}]]
  BY DEF WithdrawBegin, AcceptFrom, Accept
<1>2. r \in Job /\ m \in MsgId
  BY DEF StoreTypeOK, Job, IsTable
<1>3. req' \in [Job -> Request]
  BY <1>1, <1>2, JobStep DEF WithdrawJob, Request
<1> QED BY <1>3, ReadOnly DEF WithdrawBegin

LEMMA WithdrawStepType ==
  ASSUME StoreTypeOK, NEW r \in Thread, WithdrawStep(r)
  PROVE  StoreTypeOK'
<1>0. r \in Job /\ req[r] \in Request
  BY DEF StoreTypeOK, Job
<1>1. req[r] \in WithdrawJob
  BY <1>0, RequestKinds DEF WithdrawStep, WithdrawLookup, WithdrawUnread, WithdrawUpdate,
     WithdrawRecipients, WithdrawTell, Withdrawing, At
<1>2. \A at \in {"unread", "update", "recipients"} : [req[r] EXCEPT !.at = at] \in Request
  BY <1>1 DEF WithdrawJob, Request
<1>3. ASSUME NEW to \in SUBSET Chat
      PROVE  /\ [req[r] EXCEPT !.at = "tell", !.tell = to] \in Request
             /\ [req[r] EXCEPT !.tell = to] \in Request
  BY <1>1 DEF WithdrawJob, Request
<1>4. Idle \in Request
  BY DEF Request
<1>5. CASE WithdrawLookup(r)
  <2>1. req' \in [Job -> Request]
    BY <1>0, <1>2, <1>5, AnswerStep, GotoStep DEF WithdrawLookup
  <2> QED BY <1>5, <2>1, ReadOnly DEF WithdrawLookup
<1>6. CASE WithdrawUnread(r)
  <2>1. req' \in [Job -> Request]
    BY <1>0, <1>2, <1>6, AnswerStep, GotoStep DEF WithdrawUnread
  <2> QED BY <1>6, <2>1, ReadOnly DEF WithdrawUnread
<1>7. CASE WithdrawUpdate(r)
  <2>1. ASSUME NEW m \in DOMAIN messages
        PROVE  /\ [messages[m] EXCEPT !.recalled = TRUE] \in Message
               /\ [messages[m] EXCEPT !.body = "edited"] \in Message
    <3>1. messages[m] \in Message
      BY DEF StoreTypeOK, IsTable
    <3> QED BY <3>1 DEF Message
  <2>2. IsTable(messages', MsgId, Message)
    BY <1>7, <2>1 DEF WithdrawUpdate, Update, StoreTypeOK, IsTable
  <2>3. req' \in [Job -> Request]
    BY <1>0, <1>2, <1>7, GotoStep DEF WithdrawUpdate
  <2> QED BY <1>7, <2>2, <2>3 DEF WithdrawUpdate, StoreTypeOK, quiet
<1>8. CASE WithdrawRecipients(r)
  <2>1. Recipients(req[r].msg) \subseteq Chat
    BY DEF Recipients
  <2>2. PICK s \in Request : req' = [req EXCEPT ![r] = s]
    BY <1>3, <1>4, <1>8, <2>1 DEF WithdrawRecipients
  <2>3. req' \in [Job -> Request]
    BY <1>0, <2>2, JobStep
  <2> QED BY <1>8, <2>3, ReadOnly DEF WithdrawRecipients
<1>9. CASE WithdrawTell(r)
  <2>1. PICK c \in req[r].tell :
           /\ Emit(c, IF req[r].op = "unsend" THEN "message.recalled"
                                             ELSE "message.edited", req[r].msg)
           /\ req' = [req EXCEPT ![r] = IF req[r].tell \ {c} = {} THEN Idle
                                        ELSE [@ EXCEPT !.tell = req[r].tell \ {c}]]
    BY <1>9 DEF WithdrawTell
  <2>2. c \in Chat /\ req[r].msg \in MsgId
    BY <1>1 DEF WithdrawJob
  <2>3. IsTable(events', Nat, Event) /\ lastSeq' \in Nat
    BY <2>1, <2>2, EmitType DEF EventType
  <2>4. req[r].tell \ {c} \in SUBSET Chat
    BY <1>1 DEF WithdrawJob
  <2> DEFINE s == IF req[r].tell \ {c} = {} THEN Idle
                  ELSE [req[r] EXCEPT !.tell = req[r].tell \ {c}]
  <2>5. req' = [req EXCEPT ![r] = s]
    BY <2>1
  <2>6. s \in Request
    BY <1>3, <1>4, <2>4
  <2>7. req' \in [Job -> Request]
    BY <1>0, <2>5, <2>6, JobStep
  <2> QED BY <1>9, <2>3, <2>7 DEF WithdrawTell, StoreTypeOK, quiet
<1> QED BY <1>5, <1>6, <1>7, <1>8, <1>9 DEF WithdrawStep

-----------------------------------------------------------------------------
(* Attachments                                                             *)

LEMMA AttachmentBeginType ==
  ASSUME StoreTypeOK, NEW r \in Thread, NEW c \in Chat,
         UploadBegin(r, c) \/ DownloadBegin(r, c)
  PROVE  StoreTypeOK'
<1>0. r \in Job
  BY DEF Job
<1>1. CASE UploadBegin(r, c)
  <2>1. PICK op \in {"upload", "inline"}, sha \in Sha :
           req' = [req EXCEPT ![r] = [op |-> op, at |-> "exists", by |-> c, sha |-> sha]]
    BY <1>1 DEF UploadBegin, AcceptFrom, Accept
  <2>2. req' \in [Job -> Request]
    BY <1>0, <2>1, JobStep DEF UploadJob, Request
  <2> QED BY <1>1, <2>2 DEF UploadBegin, StoreTypeOK, still
<1>2. CASE DownloadBegin(r, c)
  <2>1. PICK m \in DOMAIN asked : \E b \in asked[m].want :
           req' = [req EXCEPT ![r] = [op |-> "download", at |-> "lookup", by |-> c,
                                      msg |-> m, blob |-> b, sha |-> None]]
    BY <1>2 DEF DownloadBegin, AcceptFrom, Accept
  <2>2. m \in MsgId /\ asked[m].want \subseteq BlobId
    BY DEF StoreTypeOK, IsTable, Asked
  <2>3. req' \in [Job -> Request]
    BY <1>0, <2>1, <2>2, JobStep DEF DownloadJob, Request
  <2> QED BY <1>2, <2>3 DEF DownloadBegin, StoreTypeOK, still
<1> QED BY <1>1, <1>2

LEMMA AttachmentStepType ==
  ASSUME StoreTypeOK, NEW r \in Thread, AttachmentStep(r)
  PROVE  StoreTypeOK'
<1>0. r \in Job /\ req[r] \in Request
  BY DEF StoreTypeOK, Job
<1>1. /\ req[r].op \in {"upload", "inline"} => req[r] \in UploadJob
      /\ req[r].op = "download" => req[r] \in DownloadJob
  BY <1>0, RequestKinds
<1>2. ASSUME req[r].op \in {"upload", "inline"}
      PROVE  \A at \in {"replace", "truncate", "write", "insert"} :
               [req[r] EXCEPT !.at = at] \in Request
  BY <1>1, <1>2 DEF UploadJob, Request
<1>3. ASSUME req[r].op = "download"
      PROVE  \A at \in {"blob", "open", "serve"} : [req[r] EXCEPT !.at = at] \in Request
  BY <1>1, <1>3 DEF DownloadJob, Request
<1>4. CASE UploadExists(r) \/ InlineExists(r)
  <2>1. req' \in [Job -> Request]
    BY <1>0, <1>2, <1>4, GotoStep DEF UploadExists, InlineExists, At
  <2> QED BY <1>4, <2>1 DEF UploadExists, InlineExists, StoreTypeOK, still
<1>5. CASE UploadReplace(r) \/ InlineTruncate(r) \/ InlineWrite(r)
  <2>1. req' \in [Job -> Request]
    BY <1>0, <1>2, <1>5, GotoStep DEF UploadReplace, InlineTruncate, InlineWrite, At
  <2>2. files' \in [Sha -> File]
    BY <1>5 DEF UploadReplace, InlineTruncate, InlineWrite, StoreTypeOK, File
  <2> QED BY <1>5, <2>1, <2>2 DEF UploadReplace, InlineTruncate, InlineWrite,
                                  StoreTypeOK, still
<1>6. CASE InsertBlob(r)
  <2> DEFINE b == Fresh(BlobId, uploaded)
  <2>1. b \in BlobId
    BY <1>6, FreshId DEF InsertBlob, StoreTypeOK
  <2>2. [sha |-> req[r].sha, by |-> req[r].by, attached |-> None] \in Blob
    BY <1>1, <1>6 DEF InsertBlob, Uploading, At, UploadJob, Blob
  <2>3. IsTable(blobs', BlobId, Blob) /\ uploaded' \subseteq BlobId
    BY <1>6, <2>1, <2>2, PutType DEF InsertBlob, StoreTypeOK
  <2>4. req' \in [Job -> Request]
    BY <1>0, <1>6, AnswerStep DEF InsertBlob
  <2> QED BY <1>6, <2>3, <2>4 DEF InsertBlob, StoreTypeOK, still
<1>7. CASE DownloadLookup(r) \/ DownloadOpen(r) \/ DownloadServe(r)
  <2>1. req' \in [Job -> Request]
    BY <1>0, <1>3, <1>7, AnswerStep, GotoStep
       DEF DownloadLookup, DownloadOpen, DownloadServe, At
  <2> QED BY <1>7, <2>1 DEF DownloadLookup, DownloadOpen, DownloadServe,
                            StoreTypeOK, still
<1>8. CASE DownloadBlob(r)
  <2>1. CASE Answer(r)
    BY <1>0, <1>8, <2>1, AnswerStep DEF DownloadBlob, StoreTypeOK, still
  <2>2. CASE ~Answer(r)
    <3> DEFINE t == [req[r] EXCEPT !.at = "open", !.sha = blobs[req[r].blob].sha]
    <3>1. req[r].blob \in AttachedTo(req[r].msg) /\ req' = [req EXCEPT ![r] = t]
      BY <1>8, <2>2 DEF DownloadBlob
    <3>2. blobs[req[r].blob].sha \in Sha
      BY <3>1 DEF AttachedTo, StoreTypeOK, IsTable, Blob
    <3>3. t \in Request
      BY <1>1, <1>8, <3>2 DEF DownloadBlob, At, DownloadJob, Request
    <3>4. req' \in [Job -> Request]
      BY <1>0, <3>1, <3>3, JobStep
    <3> QED BY <1>8, <3>4 DEF DownloadBlob, StoreTypeOK, still
  <2> QED BY <2>1, <2>2
<1> QED BY <1>4, <1>5, <1>6, <1>7, <1>8 DEF AttachmentStep

-----------------------------------------------------------------------------
(* Sessions, revocation, the long poll                                     *)

LEMMA SessionType ==
  ASSUME StoreTypeOK, NEW r \in Thread,
         (\E c \in Chat : SessionBegin(r, c)) \/ SessionStep(r) \/ RevokeChat(r)
  PROVE  StoreTypeOK'
<1>0. r \in Job /\ req[r] \in Request
  BY DEF StoreTypeOK, Job
<1>1. ASSUME NEW c \in Chat, SessionBegin(r, c) PROVE StoreTypeOK'
  <2>1. PICK op \in {"open", "close"}, l \in Label :
           req' = [req EXCEPT ![r] = [op |-> op, by |-> c, label |-> l,
                     at |-> IF op = "open" THEN "select" ELSE "update"]]
    BY <1>1 DEF SessionBegin, AcceptFrom, Accept
  <2>2. [op |-> op, by |-> c, label |-> l,
         at |-> IF op = "open" THEN "select" ELSE "update"] \in Request
    BY DEF SessionJob, Request
  <2>3. req' \in [Job -> Request]
    BY <1>0, <2>1, <2>2, JobStep
  <2> QED BY <1>1, <2>3 DEF SessionBegin, StoreTypeOK, elsewhere, tables
<1>2. CASE SessionStep(r)
  <2>1. req[r] \in SessionJob
    BY <1>0, <1>2, RequestKinds DEF SessionStep, OpenSelect, OpenReopen, OpenInsert,
                                    Close, At
  <2>2. Key(r) \in Chat \X Label
    BY <2>1 DEF Key, SessionJob
  <2>3. \A at \in {"reopen", "insert"} : [req[r] EXCEPT !.at = at] \in Request
    BY <2>1 DEF SessionJob, Request
  <2>4. IsTable(sessions', Chat \X Label, BOOLEAN)
    <3>1. CASE OpenInsert(r)
      <4>1. IsTable(sessions, Chat \X Label, BOOLEAN) /\ TRUE \in BOOLEAN
        BY DEF StoreTypeOK
      <4>2. IsTable(Put(sessions, Key(r), TRUE), Chat \X Label, BOOLEAN)
        BY <2>2, <4>1, PutType, Zenon
      <4> QED BY <3>1, <4>1, <4>2, Zenon DEF OpenInsert
    <3>2. ASSUME NEW open \in BOOLEAN, sessions' = Update(sessions, {Key(r)}, LAMBDA o : open)
          PROVE  IsTable(sessions', Chat \X Label, BOOLEAN)
      <4>1. IsTable(sessions, Chat \X Label, BOOLEAN)
        BY DEF StoreTypeOK
      <4>2. sessions' = [k \in DOMAIN sessions |-> IF k \in {Key(r)} THEN open ELSE sessions[k]]
        BY <3>2, Zenon DEF Update
      <4>3. \A k \in DOMAIN sessions : sessions[k] \in BOOLEAN
        BY <4>1, Zenon DEF IsTable
      <4>4. sessions' \in [DOMAIN sessions -> BOOLEAN]
        BY <4>2, <4>3, Zenon
      <4>5. DOMAIN sessions' = DOMAIN sessions
        BY <4>2, Zenon
      <4> QED BY <4>1, <4>4, <4>5, Zenon DEF IsTable
    <3>3. CASE OpenSelect(r)
      BY <3>3 DEF OpenSelect, StoreTypeOK
    <3>4. CASE OpenReopen(r)
      BY <3>2, <3>4, Zenon DEF OpenReopen
    <3>5. CASE Close(r)
      BY <3>2, <3>5, Zenon DEF Close
    <3> QED BY <1>2, <3>1, <3>3, <3>4, <3>5 DEF SessionStep
  <2>5. req' \in [Job -> Request]
    BY <1>0, <1>2, <2>3, AnswerStep, GotoStep
       DEF SessionStep, OpenSelect, OpenReopen, OpenInsert, Close
  <2> QED BY <1>2, <2>4, <2>5 DEF SessionStep, OpenSelect, OpenReopen, OpenInsert,
                                  Close, StoreTypeOK, elsewhere, tables
<1>3. CASE RevokeChat(r)
  <2>1. req' \in [Job -> Request]
    BY <1>0, <1>3, AnswerStep DEF RevokeChat
  <2> QED BY <1>3, <2>1 DEF RevokeChat, StoreTypeOK, elsewhere, tables
<1> QED BY <1>1, <1>2, <1>3

LEMMA PollType ==
  ASSUME StoreTypeOK, NEW c \in Chat, Poll(c)
  PROVE  StoreTypeOK'
<1>1. PICK last \in Page(c) : cursor' = [cursor EXCEPT ![c] = last]
  BY DEF Poll
<1>2. last \in Nat
  BY <1>1 DEF Page, NewFor, StoreTypeOK, IsTable
<1>3. cursor' \in [Chat -> Nat]
  BY <1>1, <1>2 DEF StoreTypeOK
<1> QED BY <1>3 DEF Poll, StoreTypeOK, tables

-----------------------------------------------------------------------------
(* Housekeeping                                                            *)

\* Cleaning goes on to its next part, or its next statement.
LEMMA RetainGoesOn ==
  ASSUME NEW s \in RetainJob
  PROVE  /\ NextPart(s) \in Request
         /\ NextFile(s) \in Request
         /\ \A at \in {"blobs", "deliveries", "events", "messages", "used", "unlink"} :
              [s EXCEPT !.at = at] \in Request
BY DEF RetainJob, Request, NextPart, NextFile

LEMMA RetainReadsType ==
  ASSUME StoreTypeOK, NEW j \in Job,
         Orphans(j) \/ StillUsed(j) \/ FileExists(j) \/ Doomed(j) \/ DoomedShas(j)
  PROVE  StoreTypeOK'
<1>0. Idle \in Request
  BY DEF Request
<1>1. req[j] \in RetainJob
  BY RequestKinds DEF Orphans, StillUsed, FileExists, Doomed, DoomedShas, At, StoreTypeOK
<1>2. \A x \in DOMAIN blobs : x \in BlobId /\ blobs[x].sha \in Sha
  BY DEF StoreTypeOK, IsTable, Blob
<1>3. \E s \in Request : req' = [req EXCEPT ![j] = s]
  <2>1. CASE Orphans(j)
    <3> DEFINE old == {b \in DOMAIN blobs \cap aged : blobs[b].attached = None}
               shas == {blobs[b].sha : b \in old}
               s == IF old = {} THEN NextPart(req[j])
                    ELSE [req[j] EXCEPT !.at = "dropOrphans", !.ids = old, !.shas = shas]
    <3>1. old \in SUBSET (MsgId \cup BlobId) /\ shas \in SUBSET Sha
      BY <1>2
    <3>2. req' = [req EXCEPT ![j] = s]
      BY <2>1 DEF Orphans
    <3> HIDE DEF old, shas
    <3>3. NextPart(req[j]) \in Request
      BY <1>1, RetainGoesOn
    <3>4. [req[j] EXCEPT !.at = "dropOrphans", !.ids = old, !.shas = shas] \in Request
      BY <1>1, <3>1 DEF RetainJob, Request
    <3>5. s \in Request
      BY <3>3, <3>4
    <3> QED BY <3>2, <3>5
  <2>2. CASE StillUsed(j)
    <3>1. PICK sha \in req[j].shas :
            req' = IF sha \notin ReferencedShas
                   THEN [req EXCEPT ![j].at = "exists", ![j].now = sha,
                                    ![j].shas = req[j].shas \ {sha}]
                   ELSE [req EXCEPT ![j] = IF req[j].shas \ {sha} = {} THEN NextPart(@)
                                           ELSE [@ EXCEPT !.shas = req[j].shas \ {sha}]]
      BY <2>2 DEF StillUsed
    <3>2. sha \in Sha /\ req[j].shas \ {sha} \in SUBSET Sha
      BY <1>1 DEF RetainJob
    <3>3. CASE sha \notin ReferencedShas
      <4>1. [req[j] EXCEPT !.at = "exists", !.now = sha, !.shas = req[j].shas \ {sha}]
              \in Request
        BY <1>1, <3>2 DEF RetainJob, Request
      <4>2. req' = [req EXCEPT ![j] = [req[j] EXCEPT !.at = "exists", !.now = sha,
                                                     !.shas = req[j].shas \ {sha}]]
        BY <3>1, <3>3
      <4> QED BY <4>1, <4>2
    <3>4. CASE sha \in ReferencedShas
      <4> DEFINE s == IF req[j].shas \ {sha} = {} THEN NextPart(req[j])
                      ELSE [req[j] EXCEPT !.shas = req[j].shas \ {sha}]
      <4>1. NextPart(req[j]) \in Request
        BY <1>1, RetainGoesOn
      <4>2. [req[j] EXCEPT !.shas = req[j].shas \ {sha}] \in Request
        BY <1>1, <3>2 DEF RetainJob, Request
      <4>3. s \in Request
        BY <4>1, <4>2
      <4>4. req' = [req EXCEPT ![j] = s]
        BY <3>1, <3>4
      <4> QED BY <4>3, <4>4
    <3> QED BY <3>3, <3>4
  <2>3. CASE Doomed(j)
    <3> DEFINE old == DOMAIN messages \cap aged
               s == IF old = {} THEN Idle
                    ELSE [req[j] EXCEPT !.at = "shas", !.ids = old, !.days = FALSE]
    <3>1. old \in SUBSET (MsgId \cup BlobId)
      BY DEF StoreTypeOK
    <3>2. req' = [req EXCEPT ![j] = s]
      BY <2>3 DEF Doomed
    <3> HIDE DEF old
    <3>3. [req[j] EXCEPT !.at = "shas", !.ids = old, !.days = FALSE] \in Request
      BY <1>1, <3>1 DEF RetainJob, Request
    <3>4. s \in Request
      BY <1>0, <3>3
    <3> QED BY <3>2, <3>4
  <2>4. CASE DoomedShas(j)
    <3> DEFINE shas == {blobs[b].sha : b \in AttachmentsOf(req[j].ids)}
    <3>1. shas \in SUBSET Sha
      BY <1>2 DEF AttachmentsOf
    <3>2. req' = [req EXCEPT ![j] = [req[j] EXCEPT !.at = "blobs", !.shas = shas]]
      BY <2>4 DEF DoomedShas
    <3> HIDE DEF shas
    <3>3. [req[j] EXCEPT !.at = "blobs", !.shas = shas] \in Request
      BY <1>1, <3>1 DEF RetainJob, Request
    <3> QED BY <3>2, <3>3
  <2>5. CASE FileExists(j)
    <3>1. NextFile(req[j]) \in Request /\ [req[j] EXCEPT !.at = "unlink"] \in Request
      BY <1>1, RetainGoesOn
    <3> QED BY <2>5, <3>1 DEF FileExists
  <2> QED BY <2>1, <2>2, <2>3, <2>4, <2>5
<1>4. req' \in [Job -> Request]
  BY <1>3, JobStep
<1> QED BY <1>4 DEF Orphans, StillUsed, FileExists, Doomed, DoomedShas, StoreTypeOK, unmoved

LEMMA RetainWritesType ==
  ASSUME StoreTypeOK, NEW j \in Job,
         \/ DropOrphans(j) \/ DropBlobs(j) \/ DropDeliveries(j)
         \/ DropEvents(j) \/ DropMessages(j)
  PROVE  StoreTypeOK'
<1>0. Idle \in Request
  BY DEF Request
<1>1. req[j] \in RetainJob
  BY RequestKinds DEF DropOrphans, DropBlobs, DropDeliveries, DropEvents, DropMessages,
     At, StoreTypeOK
<1>2. \A at \in {"deliveries", "events", "messages", "used"} :
         [req[j] EXCEPT !.at = at] \in Request
  BY <1>1, RetainGoesOn
<1>3. CASE DropOrphans(j) \/ DropBlobs(j)
  <2>1. req' \in [Job -> Request]
    BY <1>2, <1>3, GotoStep DEF DropOrphans, DropBlobs
  <2>2. IsTable(blobs', BlobId, Blob)
    BY <1>3, DropType DEF DropOrphans, DropBlobs, StoreTypeOK
  <2> QED BY <1>3, <2>1, <2>2 DEF DropOrphans, DropBlobs, StoreTypeOK, unmoved
<1>4. CASE DropDeliveries(j)
  <2>1. req' \in [Job -> Request]
    BY <1>2, <1>4, GotoStep DEF DropDeliveries
  <2>2. IsTable(deliveries', MsgId \X Chat, Delivery)
    BY <1>4, DropType DEF DropDeliveries, StoreTypeOK
  <2> QED BY <1>4, <2>1, <2>2 DEF DropDeliveries, StoreTypeOK, unmoved
<1>5. CASE DropEvents(j)
  <2>1. req' \in [Job -> Request]
    BY <1>2, <1>5, GotoStep DEF DropEvents
  <2>2. IsTable(events', Nat, Event)
    BY <1>5, DropType DEF DropEvents, StoreTypeOK
  <2> QED BY <1>5, <2>1, <2>2 DEF DropEvents, StoreTypeOK, unmoved
<1>6. CASE DropMessages(j)
  <2>1. req' \in [Job -> Request]
    <3> DEFINE s == IF req[j].shas = {} THEN Idle ELSE [req[j] EXCEPT !.at = "used"]
    <3>1. req' = [req EXCEPT ![j] = s]
      BY <1>6 DEF DropMessages
    <3>2. s \in Request
      BY <1>0, <1>2
    <3> QED BY <3>1, <3>2, JobStep
  <2>2. IsTable(messages', MsgId, Message)
    BY <1>6, DropType DEF DropMessages, StoreTypeOK
  <2> QED BY <1>6, <2>1, <2>2 DEF DropMessages, StoreTypeOK, unmoved
<1> QED BY <1>3, <1>4, <1>5, <1>6

\* The unlink also moves the uploads that had the file open.
LEMMA UnlinkType ==
  ASSUME StoreTypeOK, NEW j \in Job, Unlink(j)
  PROVE  StoreTypeOK'
<1> DEFINE s == req[j]
           next == IF files[s.now] = "absent" THEN Idle ELSE NextFile(s)
           moved(q) == IF At(q, "inline", "write") /\ req[q].sha = s.now
                       THEN [req[q] EXCEPT !.at = "insert"] ELSE req[q]
<1>1. s \in RetainJob
  BY RequestKinds DEF Unlink, At, StoreTypeOK
<1>2. next \in Request
  BY <1>1, RetainGoesOn DEF Request
<1>3. ASSUME NEW q \in Job PROVE moved(q) \in Request
  <2>1. req[q] \in Request
    BY DEF StoreTypeOK
  <2>2. req[q].op = "inline" => [req[q] EXCEPT !.at = "insert"] \in Request
    BY <2>1, RequestKinds DEF UploadJob, Request
  <2> QED BY <2>1, <2>2 DEF At
<1>4. req' = [q \in Job |-> IF q = j THEN next ELSE moved(q)]
  BY DEF Unlink
<1>5. req' \in [Job -> Request]
  <2> HIDE DEF next, moved
  <2> QED BY <1>2, <1>3, <1>4
<1>6. files' \in [Sha -> File]
  BY DEF Unlink, StoreTypeOK, File
<1> QED BY <1>5, <1>6 DEF Unlink, StoreTypeOK, unmoved

LEMMA GcType ==
  ASSUME StoreTypeOK, NEW r \in Thread, RetainBegin(r) \/ GcBegin(r) \/ GcStep(r)
  PROVE  StoreTypeOK'
<1>0. r \in Job
  BY DEF Job
<1>1. CASE RetainBegin(r)
  <2>1. PICK days \in BOOLEAN : req' = [req EXCEPT ![r] = Retention(days)]
    BY <1>1 DEF RetainBegin, Accept
  <2>2. Retention(days) \in Request
    BY DEF Retention, RetainJob, Request
  <2>3. req' \in [Job -> Request]
    BY <1>0, <2>1, <2>2, JobStep
  <2> QED BY <1>1, <2>3 DEF RetainBegin, StoreTypeOK, unmoved
<1>2. CASE GcBegin(r)
  <2>1. req' = [req EXCEPT ![r] = [op |-> "gc", at |-> "deliveries"]]
    BY <1>2 DEF GcBegin, Accept
  <2>2. req' \in [Job -> Request]
    BY <1>0, <2>1, JobStep DEF GcJob, Request
  <2> QED BY <1>2, <2>2 DEF GcBegin, StoreTypeOK, unmoved
<1>3. CASE GcStep(r)
  <2>1. req[r] \in GcJob
    BY <1>0, <1>3, RequestKinds DEF GcStep, GcDeliveries, GcMessages, GcEvents, At,
       StoreTypeOK
  <2>2. \A at \in {"messages", "events"} : [req[r] EXCEPT !.at = at] \in Request
    BY <2>1 DEF GcJob, Request
  <2>3. req' \in [Job -> Request]
    BY <1>0, <1>3, <2>2, AnswerStep, GotoStep DEF GcStep, GcDeliveries, GcMessages, GcEvents
  <2>4. CASE GcDeliveries(r)
    <3>1. IsTable(deliveries', MsgId \X Chat, Delivery)
      BY <2>4, DropType DEF GcDeliveries, StoreTypeOK
    <3> QED BY <2>3, <2>4, <3>1 DEF GcDeliveries, StoreTypeOK, unmoved
  <2>5. CASE GcMessages(r)
    <3>1. IsTable(messages', MsgId, Message)
      BY <2>5, DropType DEF GcMessages, StoreTypeOK
    <3> QED BY <2>3, <2>5, <3>1 DEF GcMessages, StoreTypeOK, unmoved
  <2>6. CASE GcEvents(r)
    <3>1. IsTable(events', Nat, Event)
      BY <2>6, DropType DEF GcEvents, StoreTypeOK
    <3> QED BY <2>3, <2>6, <3>1 DEF GcEvents, StoreTypeOK, unmoved
  <2> QED BY <1>3, <2>4, <2>5, <2>6 DEF GcStep
<1> QED BY <1>1, <1>2, <1>3

LEMMA TimeType ==
  ASSUME StoreTypeOK, HoursPass \/ DaysPass \/ Crash
  PROVE  StoreTypeOK'
<1>1. CASE HoursPass \/ DaysPass
  BY <1>1 DEF HoursPass, DaysPass, StoreTypeOK, IsTable, unmoved
<1>2. CASE Crash
  <2>1. Retention(Window) \in Request /\ Idle \in Request
    BY HousekeepingAssumption DEF Retention, RetainJob, Request
  <2>2. req' \in [Job -> Request]
    BY <1>2, <2>1 DEF Crash
  <2>3. boots' \in Nat
    BY <1>2 DEF Crash, StoreTypeOK
  <2> QED BY <1>2, <2>2, <2>3 DEF Crash, StoreTypeOK, unmoved
<1> QED BY <1>1, <1>2

-----------------------------------------------------------------------------
(* The instance                                                            *)

LEMMA InitType == Init => TypeOK
BY DEF Init, TypeOK, StoreTypeOK, IsTable, Request, File

\* Every step of the instance keeps the schema, and with it every handler at a
\* statement of its own with local variables of their types.
LEMMA NextType == TypeOK /\ [Next]_vars => TypeOK'
<1> SUFFICES ASSUME TypeOK, [Next]_vars PROVE TypeOK'
  OBVIOUS
<1> USE DEF TypeOK
<1>1. ASSUME NEW r \in Thread, Begin(r) PROVE TypeOK'
  <2>1. served' \in Nat
    BY <1>1 DEF Begin
  <2>2. StoreTypeOK'
    BY <1>1, SendBeginType, ReadBeginType, WithdrawBeginType, AttachmentBeginType,
       SessionType, PeerType, GcType DEF Begin
  <2> QED BY <2>1, <2>2
<1>2. ASSUME NEW r \in Thread, Step(r) PROVE StoreTypeOK'
  <2>1. CASE SendStep(r)
    BY <2>1, SendReadsType, SendCommitType, RecordRemoteType, PeerType DEF SendStep
  <2>2. CASE ReadStep(r)
    BY <2>2, ReadReadsType, ReadWritesType DEF ReadStep
  <2>3. CASE RetainStep(r)
    BY <2>3, RetainReadsType, RetainWritesType, UnlinkType DEF RetainStep, Job
  <2> QED BY <1>2, <2>1, <2>2, <2>3, WithdrawStepType, AttachmentStepType,
             SessionType, GcType DEF Step
<1>3. ASSUME RetainStep(Main) PROVE StoreTypeOK'
  BY <1>3, RetainReadsType, RetainWritesType, UnlinkType DEF RetainStep, Job
<1>4. CASE UNCHANGED vars
  BY <1>4 DEF vars, store, StoreTypeOK
<1>5. CASE Work /\ UNCHANGED served
  BY <1>2, <1>3, <1>5, PollType, TimeType DEF Work
<1> QED BY <1>1, <1>4, <1>5 DEF Next, Stop

\* Whatever the clients, the threads and the crashes do, every table holds rows
\* of its schema and every handler is at one of its statements.
THEOREM TypeCorrect == Spec => []TypeOK
BY InitType, NextType, PTL DEF Spec

-----------------------------------------------------------------------------
(* The inductive invariant: what the tables keep between two statements.   *)

\* Events and cursors are behind the counter.
Numbered ==
  /\ DOMAIN events \subseteq 1 .. lastSeq
  /\ \A c \in Chat : cursor[c] <= lastSeq

\* Rows point to rows that are, or were, there.
MessagesAsked ==
  \A m \in DOMAIN messages : m \in DOMAIN asked /\ messages[m].from = asked[m].from
DeliveriesAsked ==
  \A k \in DOMAIN deliveries : k[1] \in DOMAIN messages /\ k[2] \in asked[k[1]].to
BlobsUploaded ==
  \A b \in DOMAIN blobs :
    b \in uploaded /\ (blobs[b].attached # None => blobs[b].attached \in DOMAIN asked)

\* A recipient has its delivery until its chat is revoked or the message ages.
Arrived ==
  \A m \in DOMAIN messages : \A c \in asked[m].to :
    <<m, c>> \in DOMAIN deliveries \/ c \in revoked \/ m \in aged

Rows ==
  /\ Numbered /\ MessagesAsked /\ DeliveriesAsked /\ BlobsUploaded /\ Arrived
  /\ LabelDeclared /\ OwnAttachments /\ MailAnnounced

-----------------------------------------------------------------------------
(* And what a handler still knows of what it has read, statements ago.     *)

\* Past the gate of a message it serves one of its parties.
GateKnown(s) ==
  s.op \in {"read", "download"} =>
    s.msg \in DOMAIN asked /\ (s.at # "lookup" => Party(s.msg, s.by))

\* What send has resolved and validated.
Staged(s) ==
  /\ s.at \in {"blobs", "session", "parent", "write", "record"} => s.todo = {}
  /\ s.at \in {"session", "parent", "write", "record"} => s.check = {}

Validated(s) ==
  /\ \A a \in s.to \ s.todo : a[2] # None => <<a[1], a[2]>> \in DOMAIN sessions
  /\ \A b \in s.want \ s.check :
       b \in uploaded /\ (b \in DOMAIN blobs => blobs[b].by = s.by)
  /\ s.parent # None => s.parent \in DOMAIN asked
  /\ s.answers # None => s.parent # None /\ Party(s.parent, s.by)

SendKnown(s) == s.op = "send" => Staged(s) /\ Validated(s)

\* The messages retention has selected are old, and have lost their
\* deliveries before anything else of theirs goes.
RetainKnown(s) ==
  s.op = "retain" =>
    /\ s.at \in {"shas", "blobs", "deliveries", "events", "messages"} =>
         s.ids \subseteq aged \cap DOMAIN asked
    /\ s.at \in {"events", "messages"} => \A k \in DOMAIN deliveries : k[1] \notin s.ids

Known(s) == GateKnown(s) /\ SendKnown(s) /\ RetainKnown(s)

Knowing == \A q \in Job : Known(req[q])

Inv == TypeOK /\ Rows /\ Knowing

-----------------------------------------------------------------------------
(* What no statement of any handler does.                                  *)

\* What a handler knows stays true: nothing it may still point to is
\* rewritten, and what is deleted does not come back as something else.
Lasting ==
  /\ \A m \in DOMAIN asked : m \in DOMAIN asked' /\ asked'[m] = asked[m]
  /\ DOMAIN sessions \subseteq DOMAIN sessions'
  /\ uploaded \subseteq uploaded'
  /\ aged \subseteq aged'
  /\ \A b \in DOMAIN blobs' :
       b \in uploaded => b \in DOMAIN blobs /\ blobs'[b].by = blobs[b].by
  /\ \A k \in DOMAIN deliveries' : k \in DOMAIN deliveries \/ k[1] \notin DOMAIN asked

\* A new event is numbered after all there have been.
Ahead == \A i \in DOMAIN events' \ DOMAIN events : i > lastSeq

\* A message is forgotten for a reason.
Forgets ==
  \A m \in DOMAIN messages \ DOMAIN messages' :
    m \in aged \/ asked[m].to \cup {asked[m].from} \subseteq revoked

Legal == Lasting /\ Ahead /\ Forgets

\* What the properties are about; the files and the boots are not.
data == <<revoked, sessions, messages, deliveries, events, lastSeq, blobs, cursor,
          aged, asked, uploaded>>

\* A statement that changes none of it is legal.
LEMMA ReadsKeep ==
  ASSUME StoreTypeOK, Rows, UNCHANGED data
  PROVE  Rows' /\ Legal
<1>1. Legal
  BY DEF data, Legal, Lasting, Ahead, Forgets
<1>2. (Numbered /\ MessagesAsked /\ DeliveriesAsked /\ BlobsUploaded /\ Arrived)'
  BY DEF data, Rows, Numbered, MessagesAsked, DeliveriesAsked, BlobsUploaded, Arrived
<1>3. (LabelDeclared /\ OwnAttachments /\ MailAnnounced)'
  BY DEF data, Rows, LabelDeclared, OwnAttachments, MailAnnounced, AttachedTo, Announced
<1> QED BY <1>1, <1>2, <1>3 DEF Rows

\* What a handler knows outlasts the statements of the others, and its own.
LEMMA Lasts ==
  ASSUME NEW q \in Job, NEW s, Known(s), Lasting, req'[q] = s
  PROVE  Known(req[q])'
<1>1. GateKnown(req[q])'
  BY DEF Known, GateKnown, Party, Lasting
<1>2. SendKnown(req[q])'
  <2>1. ASSUME s.op = "send" PROVE Staged(req[q])'
    BY <2>1 DEF Known, SendKnown, Staged
  <2>2. ASSUME s.op = "send" PROVE Validated(req[q])'
    <3>1. Validated(s)
      BY <2>2 DEF Known, SendKnown
    <3>2. \A b \in s.want \ s.check :
            b \in uploaded' /\ (b \in DOMAIN blobs' => blobs'[b].by = s.by)
      BY <3>1 DEF Validated, Lasting
    <3>3. \A a \in s.to \ s.todo : a[2] # None => <<a[1], a[2]>> \in DOMAIN sessions'
      BY <3>1 DEF Validated, Lasting
    <3>4. /\ s.parent # None => s.parent \in DOMAIN asked'
          /\ s.answers # None => s.parent # None /\ Party(s.parent, s.by)'
      BY <3>1 DEF Validated, Lasting, Party
    <3> QED BY <3>2, <3>3, <3>4 DEF Validated, Party
  <2> QED BY <2>1, <2>2 DEF SendKnown
<1>3. RetainKnown(req[q])'
  BY DEF Known, RetainKnown, Lasting
<1> QED BY <1>1, <1>2, <1>3 DEF Known

\* So after a statement of handler j all of them know what they knew.
LEMMA HandlersKnow ==
  ASSUME StoreTypeOK, Knowing, Lasting, NEW j \in Job, NEW s, Known(s),
         req' = [req EXCEPT ![j] = s]
  PROVE  Knowing'
<1>1. ASSUME NEW q \in Job PROVE Known(req[q])'
  <2>1. CASE q = j
    <3>1. req'[q] = s
      BY <2>1 DEF StoreTypeOK
    <3> QED BY <3>1, Lasts
  <2>2. CASE q # j
    <3>1. req'[q] = req[q] /\ Known(req[q])
      BY <2>2 DEF StoreTypeOK, Knowing
    <3> QED BY <3>1, Lasts
  <2> QED BY <2>1, <2>2
<1> QED BY <1>1 DEF Knowing

\* A handler that has answered, or that serves nothing of a message, knows
\* nothing.
LEMMA NothingToKnow ==
  ASSUME NEW s, s.op \notin {"read", "download", "send", "retain"}
  PROVE  Known(s)
BY DEF Known, GateKnown, SendKnown, RetainKnown

LEMMA Answered ==
  ASSUME StoreTypeOK, Knowing, Lasting, NEW j \in Job, Answer(j)
  PROVE  Knowing'
<1>1. Known(Idle)
  BY NothingToKnow DEF Idle
<1> QED BY <1>1, HandlersKnow DEF Answer

\* A statement that only reads, and leaves its handler knowing what it read.
LEMMA Reading ==
  ASSUME StoreTypeOK, Rows, Knowing, UNCHANGED data, NEW j \in Job, NEW s, Known(s),
         req' = [req EXCEPT ![j] = s]
  PROVE  Rows' /\ Legal /\ Knowing'
BY ReadsKeep, HandlersKnow DEF Legal

LEMMA ReadingAnswered ==
  ASSUME StoreTypeOK, Rows, Knowing, UNCHANGED data, NEW j \in Job, Answer(j)
  PROVE  Rows' /\ Legal /\ Knowing'
BY ReadsKeep, Answered DEF Legal

\* Handlers of other tables go on without knowing anything.
LEMMA GoesOn ==
  ASSUME StoreTypeOK, Knowing, Lasting, NEW j \in Job, NEW at, Goto(j, at),
         req[j] \in UploadJob \cup SessionJob \cup WithdrawJob \cup GcJob
  PROVE  Knowing'
<1>1. Known([req[j] EXCEPT !.at = at])
  <2>1. [req[j] EXCEPT !.at = at].op \notin {"read", "download", "send", "retain"}
    BY DEF UploadJob, SessionJob, WithdrawJob, GcJob
  <2> QED BY <2>1, NothingToKnow
<1> QED BY <1>1, HandlersKnow DEF Goto

-----------------------------------------------------------------------------
(* Requests taken up                                                       *)

LEMMA BeginKeeps ==
  ASSUME StoreTypeOK, Rows, Knowing, NEW r \in Thread, NEW c,
         \/ SendBegin(r, c) \/ ReadBegin(r, c) \/ ArchiveBegin(r, c)
         \/ WithdrawBegin(r, c) \/ UploadBegin(r, c) \/ DownloadBegin(r, c)
         \/ SessionBegin(r, c) \/ PeerBegin(r) \/ RetainBegin(r) \/ GcBegin(r)
  PROVE  Rows' /\ Legal /\ Knowing'
<1>0. r \in Job
  BY DEF Job
<1>1. UNCHANGED data
  <2>1. CASE \/ SendBegin(r, c) \/ ReadBegin(r, c) \/ ArchiveBegin(r, c)
             \/ WithdrawBegin(r, c) \/ PeerBegin(r)
    BY <2>1 DEF SendBegin, ReadBegin, ArchiveBegin, WithdrawBegin, PeerBegin, quiet,
                tables, data
  <2>2. CASE \/ UploadBegin(r, c) \/ DownloadBegin(r, c) \/ SessionBegin(r, c)
             \/ RetainBegin(r) \/ GcBegin(r)
    BY <2>2 DEF UploadBegin, DownloadBegin, SessionBegin, RetainBegin, GcBegin, still,
                elsewhere, tables, unmoved, data
  <2> QED BY <2>1, <2>2
<1>2. \E s : req' = [req EXCEPT ![r] = s] /\ Known(s)
  <2>1. CASE SendBegin(r, c)
    <3>1. PICK to \in SUBSET Address, want \in SUBSET BlobId,
               as \in Label \cup {None}, parent \in DOMAIN asked \cup {None} :
             AcceptFrom(c, r, [op |-> "send", at |-> "resolve", by |-> c, to |-> to,
                               want |-> want, todo |-> to, now |-> None, check |-> want,
                               as |-> as, parent |-> parent, answers |-> None])
      BY <2>1 DEF SendBegin
    <3>2. Known([op |-> "send", at |-> "resolve", by |-> c, to |-> to, want |-> want,
                 todo |-> to, now |-> None, check |-> want, as |-> as,
                 parent |-> parent, answers |-> None])
      BY DEF Known, GateKnown, SendKnown, Staged, Validated, RetainKnown
    <3> QED BY <3>1, <3>2 DEF AcceptFrom, Accept
  <2>2. CASE ReadBegin(r, c)
    <3>1. PICK m \in DOMAIN asked, peek \in BOOLEAN :
             AcceptFrom(c, r, [op |-> "read", at |-> "lookup", by |-> c, msg |-> m,
                               peek |-> peek, row |-> None])
      BY <2>2 DEF ReadBegin
    <3>2. Known([op |-> "read", at |-> "lookup", by |-> c, msg |-> m,
                 peek |-> peek, row |-> None])
      BY DEF Known, GateKnown, SendKnown, RetainKnown
    <3> QED BY <3>1, <3>2 DEF AcceptFrom, Accept
  <2>3. CASE DownloadBegin(r, c)
    <3>1. PICK m \in DOMAIN asked : \E b \in asked[m].want :
             AcceptFrom(c, r, [op |-> "download", at |-> "lookup", by |-> c,
                               msg |-> m, blob |-> b, sha |-> None])
      BY <2>3 DEF DownloadBegin
    <3>2. \A b : Known([op |-> "download", at |-> "lookup", by |-> c, msg |-> m,
                       blob |-> b, sha |-> None])
      BY DEF Known, GateKnown, SendKnown, RetainKnown
    <3> QED BY <3>1, <3>2 DEF AcceptFrom, Accept
  <2>4. CASE RetainBegin(r)
    <3>1. PICK days \in BOOLEAN : Accept(r, Retention(days))
      BY <2>4 DEF RetainBegin
    <3>2. Known(Retention(days))
      BY DEF Retention, Known, GateKnown, SendKnown, RetainKnown
    <3> QED BY <3>1, <3>2 DEF Accept
  <2>5. ASSUME NEW t, Accept(r, t), t.op \notin {"read", "download", "send", "retain"}
        PROVE  \E s : req' = [req EXCEPT ![r] = s] /\ Known(s)
    BY <2>5, NothingToKnow DEF Accept
  <2>6. CASE ArchiveBegin(r, c)
    <3>1. PICK m : Accept(r, [op |-> "archive", at |-> "update", by |-> c, msg |-> m])
      BY <2>6 DEF ArchiveBegin, AcceptFrom
    <3> QED BY <2>5, <3>1
  <2>7. CASE WithdrawBegin(r, c)
    <3>1. PICK op \in {"unsend", "edit"}, m \in DOMAIN asked :
             Accept(r, [op |-> op, at |-> "lookup", by |-> c, msg |-> m, tell |-> {}])
      BY <2>7 DEF WithdrawBegin, AcceptFrom
    <3> QED BY <2>5, <3>1
  <2>8. CASE UploadBegin(r, c)
    <3>1. PICK op \in {"upload", "inline"}, sha \in Sha :
             Accept(r, [op |-> op, at |-> "exists", by |-> c, sha |-> sha])
      BY <2>8 DEF UploadBegin, AcceptFrom
    <3> QED BY <2>5, <3>1
  <2>9. CASE SessionBegin(r, c)
    <3>1. PICK op \in {"open", "close"}, l \in Label :
             Accept(r, [op |-> op, by |-> c, label |-> l,
                        at |-> IF op = "open" THEN "select" ELSE "update"])
      BY <2>9 DEF SessionBegin, AcceptFrom
    <3> QED BY <2>5, <3>1
  <2>10. CASE PeerBegin(r)
    <3>1. PICK p \in Peer, d \in Chat :
             Accept(r, [op |-> "peer", at |-> "commit", by |-> p, to |-> d])
      BY <2>10 DEF PeerBegin
    <3> QED BY <2>5, <3>1
  <2>11. CASE GcBegin(r)
    <3>1. Accept(r, [op |-> "gc", at |-> "deliveries"])
      BY <2>11 DEF GcBegin
    <3> QED BY <2>5, <3>1
  <2> QED BY <2>1, <2>2, <2>3, <2>4, <2>6, <2>7, <2>8, <2>9, <2>10, <2>11
<1> QED BY <1>0, <1>1, <1>2, Reading

-----------------------------------------------------------------------------
(* send                                                                    *)

\* Advance puts a request at a stage its checks have earned.
LEMMA Advanced ==
  ASSUME StoreTypeOK, Rows, Knowing, UNCHANGED data, NEW r \in Thread,
         NEW s \in SendJob, Validated(s), Advance(r, s)
  PROVE  Rows' /\ Legal /\ Knowing'
<1>0. r \in Job
  BY DEF Job
<1> DEFINE t == [s EXCEPT !.at = Stage(s)]
<1>1. t \in SendJob
  <2>1. Stage(s) \in {"resolve", "blobs", "session", "parent", "write"}
    BY DEF Stage
  <2> QED BY <2>1 DEF SendJob
<1>2. /\ t.at = Stage(s) /\ t.op = "send" /\ t.todo = s.todo /\ t.check = s.check
      /\ t.to = s.to /\ t.want = s.want /\ t.parent = s.parent
      /\ t.answers = s.answers /\ t.by = s.by
  BY DEF SendJob
<1>3. Staged(t)
  <2> HIDE DEF t
  <2> QED BY <1>2 DEF Staged, Stage
<1>4. Validated(t)
  <2> HIDE DEF t
  <2> QED BY <1>2 DEF Validated
<1>5. Known(t)
  <2> HIDE DEF t
  <2> QED BY <1>2, <1>3, <1>4 DEF Known, GateKnown, SendKnown, RetainKnown
<1>6. Known(Idle)
  BY NothingToKnow DEF Idle
<1>7. \E x : req' = [req EXCEPT ![r] = x] /\ Known(x)
  BY <1>5, <1>6 DEF Advance
<1> QED BY <1>0, <1>7, Reading

LEMMA SendReadsKeep ==
  ASSUME StoreTypeOK, Rows, Knowing, NEW r \in Thread,
         \/ ResolveChat(r) \/ ResolveLabel(r) \/ ValidateBlob(r) \/ SpeakAs(r)
         \/ FindParent(r) \/ Push(r) \/ SendRollback(r)
  PROVE  Rows' /\ Legal /\ Knowing'
<1> DEFINE s == req[r]
<1>0. r \in Job /\ s \in SendJob
  <2>1. r \in Job
    BY DEF Job
  <2> QED BY <2>1, RequestKinds
          DEF StoreTypeOK, ResolveChat, ResolveLabel, ValidateBlob, SpeakAs, FindParent,
              Push, SendRollback, At
<1>1. UNCHANGED data
  BY DEF ResolveChat, ResolveLabel, ValidateBlob, SpeakAs, FindParent, Push,
         SendRollback, quiet, tables, data
<1>2. Staged(s) /\ Validated(s)
  BY <1>0 DEF Knowing, Known, SendKnown, SendJob
<1> HIDE DEF s
<1>3. CASE ResolveChat(r)
  <2>1. PICK a \in s.todo :
           \/ Answer(r)
           \/ a[2] = None /\ Advance(r, [s EXCEPT !.todo = @ \ {a}])
           \/ req' = [req EXCEPT ![r].at = "label", ![r].now = a]
    BY <1>3 DEF ResolveChat, s
  <2>2. CASE a[2] = None /\ Advance(r, [s EXCEPT !.todo = @ \ {a}])
    <3>1. [s EXCEPT !.todo = @ \ {a}] \in SendJob
      BY <1>0 DEF SendJob
    <3>2. Validated([s EXCEPT !.todo = @ \ {a}])
      BY <1>0, <1>2, <2>2 DEF Validated, SendJob
    <3> QED BY <1>1, <2>2, <3>1, <3>2, Advanced
  <2>3. CASE req' = [req EXCEPT ![r].at = "label", ![r].now = a]
    <3> DEFINE t == [s EXCEPT !.at = "label", !.now = a]
    <3>1. req' = [req EXCEPT ![r] = t]
      BY <2>3 DEF s
    <3>2. t.op = "send" /\ Staged(t)
      BY <1>0 DEF Staged, SendJob
    <3>3. Validated(t)
      BY <1>0, <1>2 DEF Validated, SendJob
    <3>4. Known(t)
      BY <3>2, <3>3 DEF Known, GateKnown, SendKnown, RetainKnown
    <3> QED BY <1>0, <1>1, <3>1, <3>4, Reading
  <2> QED BY <1>0, <1>1, <2>1, <2>2, <2>3, ReadingAnswered
<1>4. CASE ResolveLabel(r)
  <2>1. CASE IsOpen(s.now[1], s.now[2]) /\ Advance(r, [s EXCEPT !.todo = @ \ {s.now}])
    <3>1. [s EXCEPT !.todo = @ \ {s.now}] \in SendJob
      BY <1>0 DEF SendJob
    <3>2. Validated([s EXCEPT !.todo = @ \ {s.now}])
      BY <1>0, <1>2, <2>1 DEF Validated, SendJob, IsOpen
    <3> QED BY <1>1, <2>1, <3>1, <3>2, Advanced
  <2> QED BY <1>0, <1>1, <1>4, <2>1, ReadingAnswered DEF ResolveLabel, s
<1>5. CASE ValidateBlob(r)
  <2>1. PICK b \in s.check :
           \/ Answer(r)
           \/ /\ IsUnattachedUploadOf(b, s.by)
              /\ Advance(r, [s EXCEPT !.check = @ \ {b}])
    BY <1>5 DEF ValidateBlob, s
  <2>2. CASE /\ IsUnattachedUploadOf(b, s.by)
             /\ Advance(r, [s EXCEPT !.check = @ \ {b}])
    <3>1. [s EXCEPT !.check = @ \ {b}] \in SendJob
      BY <1>0 DEF SendJob
    <3>2. Validated([s EXCEPT !.check = @ \ {b}])
      BY <1>0, <1>2, <2>2
         DEF Validated, SendJob, IsUnattachedUploadOf, Rows, BlobsUploaded
    <3> QED BY <1>1, <2>2, <3>1, <3>2, Advanced
  <2> QED BY <1>0, <1>1, <2>1, <2>2, ReadingAnswered
<1>6. CASE SpeakAs(r)
  <2>1. [s EXCEPT !.as = None] \in SendJob
    BY <1>0 DEF SendJob
  <2>2. Validated([s EXCEPT !.as = None])
    BY <1>0, <1>2 DEF Validated, SendJob
  <2>3. CASE Advance(r, [s EXCEPT !.as = None])
    BY <1>1, <2>1, <2>2, <2>3, Advanced
  <2> QED BY <1>0, <1>1, <1>6, <2>3, ReadingAnswered DEF SpeakAs, s
<1>7. CASE FindParent(r)
  <2> DEFINE t == [s EXCEPT !.answers = messages[s.parent].from]
  <2>1. CASE VisibleTo(s.parent, s.by) /\ Advance(r, t)
    <3>1. s.parent \in MsgId /\ messages[s.parent] \in Message
      BY <2>1 DEF VisibleTo, StoreTypeOK, IsTable
    <3>2. t \in SendJob
      <4>1. messages[s.parent].from \in Chat \cup Peer
        BY <3>1 DEF Message
      <4> QED BY <1>0, <3>1, <4>1 DEF SendJob
    <3>3. s.parent \in DOMAIN asked /\ Party(s.parent, s.by)
      BY <2>1 DEF VisibleTo, Recipients, Party, Rows, MessagesAsked, DeliveriesAsked
    <3>4. s.parent # None
      BY <3>1
    <3>5. Validated(t)
      BY <1>0, <1>2, <3>3, <3>4 DEF Validated, SendJob
    <3> QED BY <1>1, <2>1, <3>2, <3>5, Advanced
  <2> QED BY <1>0, <1>1, <1>7, <2>1, ReadingAnswered DEF FindParent, s
<1>8. CASE Push(r)
  <2> DEFINE t == [s EXCEPT !.at = "record"]
  <2>1. s.at = "write"
    BY <1>8 DEF Push, At, s
  <2>2. CASE req' = [req EXCEPT ![r] = t]
    <3>1. t.op = "send" /\ Staged(t)
      BY <1>0, <1>2, <2>1 DEF Staged, SendJob
    <3>2. Validated(t)
      BY <1>0, <1>2 DEF Validated, SendJob
    <3>3. Known(t)
      BY <3>1, <3>2 DEF Known, GateKnown, SendKnown, RetainKnown
    <3> QED BY <1>0, <1>1, <2>2, <3>3, Reading
  <2> QED BY <1>0, <1>1, <1>8, <2>2, ReadingAnswered DEF Push, Goto, s
<1>9. CASE SendRollback(r)
  BY <1>0, <1>1, <1>9, ReadingAnswered DEF SendRollback
<1> QED BY <1>3, <1>4, <1>5, <1>6, <1>7, <1>8, <1>9

\* Appended events are ahead of everything, and none is lost.
LEMMA Emitted ==
  ASSUME StoreTypeOK, Numbered, NEW rows \in Seq(Event), EmitAll(rows), UNCHANGED cursor
  PROVE  /\ Ahead /\ Numbered'
         /\ \A i \in DOMAIN events : i \in DOMAIN events' /\ events'[i] = events[i]
         /\ \A i \in 1 .. Len(rows) :
              lastSeq + i \in DOMAIN events' /\ events'[lastSeq + i] = rows[i]
<1>1. Len(rows) \in Nat /\ lastSeq \in Nat /\ lastSeq' = lastSeq + Len(rows)
  BY LenProperties DEF EmitAll, StoreTypeOK
<1>2. \A i \in DOMAIN events : i \in Nat /\ i >= 1 /\ i <= lastSeq
  BY <1>1 DEF Numbered
<1>3. DOMAIN events' = DOMAIN events \cup lastSeq + 1 .. lastSeq + Len(rows)
  BY DEF EmitAll
<1>4. Ahead
  BY <1>1, <1>3 DEF Ahead
<1>5. Numbered'
  <2>1. DOMAIN events' \subseteq 1 .. lastSeq'
    BY <1>1, <1>2, <1>3
  <2>2. \A c \in Chat : cursor'[c] <= lastSeq'
    BY <1>1 DEF Numbered, StoreTypeOK
  <2> QED BY <2>1, <2>2 DEF Numbered
<1>6. \A i \in DOMAIN events : i \in DOMAIN events' /\ events'[i] = events[i]
  BY DEF EmitAll
<1>7. ASSUME NEW i \in 1 .. Len(rows)
      PROVE  lastSeq + i \in DOMAIN events' /\ events'[lastSeq + i] = rows[i]
  <2>1. /\ lastSeq + i \in lastSeq + 1 .. lastSeq + Len(rows)
        /\ (lastSeq + i) - lastSeq = i
        /\ lastSeq + i \notin DOMAIN events
    BY <1>1, <1>2
  <2> QED BY <2>1 DEF EmitAll
<1> QED BY <1>4, <1>5, <1>6, <1>7

\* A new message has an id nothing points to yet.
LEMMA Minted ==
  ASSUME StoreTypeOK, Rows, NEW m \in MsgId \ DOMAIN asked,
         NEW row, NEW ask, row.from = ask.from,
         messages' = Put(messages, m, row), asked' = Put(asked, m, ask)
  PROVE  /\ MessagesAsked' /\ Forgets
         /\ \A x \in DOMAIN asked : x \in DOMAIN asked' /\ asked'[x] = asked[x]
         /\ \A x \in DOMAIN messages : x # m /\ messages'[x] = messages[x]
         /\ DOMAIN messages' = DOMAIN messages \cup {m}
         /\ messages'[m] = row /\ asked'[m] = ask
         /\ \A k \in DOMAIN deliveries : k[1] # m
         /\ \A b \in DOMAIN blobs : blobs[b].attached # m
<1>1. \A x \in DOMAIN messages : x # m /\ x \in DOMAIN asked
  BY DEF Rows, MessagesAsked
<1>2. /\ DOMAIN messages' = DOMAIN messages \cup {m} /\ messages'[m] = row
      /\ \A x \in DOMAIN messages : messages'[x] = messages[x]
  BY <1>1 DEF Put
<1>3. /\ asked'[m] = ask /\ m \in DOMAIN asked'
      /\ \A x \in DOMAIN asked : x \in DOMAIN asked' /\ asked'[x] = asked[x]
  BY DEF Put
<1>4. MessagesAsked' /\ Forgets
  BY <1>1, <1>2, <1>3 DEF Rows, MessagesAsked, Forgets
<1>5. \A k \in DOMAIN deliveries : k[1] # m
  BY <1>1 DEF Rows, DeliveriesAsked
<1>6. \A b \in DOMAIN blobs : blobs[b].attached # m
  BY DEF Rows, BlobsUploaded
<1> QED BY <1>1, <1>2, <1>3, <1>4, <1>5, <1>6

LEMMA RecordRemoteKeeps ==
  ASSUME StoreTypeOK, Rows, Knowing, NEW r \in Thread, RecordRemote(r)
  PROVE  Rows' /\ Legal /\ Knowing'
<1> DEFINE m == Fresh(MsgId, DOMAIN asked)
           ask == [from |-> req[r].by, to |-> {}, want |-> {}]
<1>1. m \in MsgId \ DOMAIN asked
  BY FreshId DEF RecordRemote, StoreTypeOK, IsTable
<1>2. PICK a \in Remote(req[r]) :
         messages' = Put(messages, m, Row(req[r].by, a[1])) /\ asked' = Put(asked, m, ask)
  BY DEF RecordRemote
<1>3. Row(req[r].by, a[1]).from = ask.from /\ ask.to = {}
  BY DEF Row
<1>4. /\ UNCHANGED <<revoked, sessions, cursor, aged, uploaded, deliveries, events,
                     lastSeq, blobs>>
      /\ Answer(r) /\ r \in Job
  BY DEF RecordRemote, quiet, Job
<1> HIDE DEF m, ask
<1>5. /\ MessagesAsked' /\ Forgets
      /\ \A x \in DOMAIN asked : x \in DOMAIN asked' /\ asked'[x] = asked[x]
      /\ \A x \in DOMAIN messages : x # m /\ messages'[x] = messages[x]
      /\ DOMAIN messages' = DOMAIN messages \cup {m} /\ asked'[m] = ask
      /\ \A b \in DOMAIN blobs : blobs[b].attached # m
  BY <1>1, <1>2, <1>3, Minted
<1>6. Lasting /\ Ahead
  BY <1>4, <1>5 DEF Lasting, Ahead
<1>7. (Numbered /\ DeliveriesAsked /\ BlobsUploaded /\ Arrived)'
  <2>1. Numbered'
    BY <1>4 DEF Rows, Numbered
  <2>2. DeliveriesAsked'
    BY <1>4, <1>5 DEF Rows, MessagesAsked, DeliveriesAsked
  <2>3. BlobsUploaded'
    BY <1>4, <1>5 DEF Rows, BlobsUploaded
  <2>4. Arrived'
    BY <1>3, <1>4, <1>5 DEF Rows, MessagesAsked, Arrived
  <2> QED BY <2>1, <2>2, <2>3, <2>4
<1>8. (LabelDeclared /\ OwnAttachments /\ MailAnnounced)'
  BY <1>4, <1>5 DEF Rows, LabelDeclared, OwnAttachments, AttachedTo, MailAnnounced,
                    Announced
<1>9. Knowing'
  BY <1>4, <1>6, Answered
<1> QED BY <1>5, <1>6, <1>7, <1>8, <1>9 DEF Rows, Legal

LEMMA PeerCommitKeeps ==
  ASSUME StoreTypeOK, Rows, Knowing, NEW r \in Thread, PeerCommit(r)
  PROVE  Rows' /\ Legal /\ Knowing'
<1> DEFINE m == Fresh(MsgId, DOMAIN asked)
           s == req[r]
           ask == [from |-> s.by, to |-> {s.to}, want |-> {}]
           row == [chat |-> s.to, type |-> "message.received", msg |-> m]
<1>1. m \in MsgId \ DOMAIN asked
  BY FreshId DEF PeerCommit, StoreTypeOK, IsTable
<1>2. /\ messages' = Put(messages, m, Row(s.by, None))
      /\ deliveries' = Put(deliveries, <<m, s.to>>, NewDelivery(None))
      /\ EmitAll(<<row>>)
      /\ asked' = Put(asked, m, ask)
  BY DEF PeerCommit, Emit
<1>3. Row(s.by, None).from = ask.from /\ ask.to = {s.to}
  BY DEF Row
<1>4. /\ UNCHANGED <<revoked, sessions, cursor, aged, uploaded, blobs>>
      /\ Answer(r) /\ r \in Job
  BY DEF PeerCommit, quiet, Job
<1>5. s.to \in Chat
  BY <1>4, RequestKinds DEF PeerCommit, At, PeerJob, StoreTypeOK
<1>6. row \in Event
  BY <1>1, <1>5 DEF Event, EventType
<1> HIDE DEF m, ask, s
<1>7. /\ MessagesAsked' /\ Forgets
      /\ \A x \in DOMAIN asked : x \in DOMAIN asked' /\ asked'[x] = asked[x]
      /\ \A x \in DOMAIN messages : x # m /\ messages'[x] = messages[x]
      /\ DOMAIN messages' = DOMAIN messages \cup {m} /\ asked'[m] = ask
      /\ \A b \in DOMAIN blobs : blobs[b].attached # m
      /\ \A k \in DOMAIN deliveries : k[1] # m
  BY <1>1, <1>2, <1>3, Minted
<1>8. /\ DOMAIN deliveries' = DOMAIN deliveries \cup {<<m, s.to>>}
      /\ \A k \in DOMAIN deliveries : deliveries'[k] = deliveries[k]
      /\ deliveries'[<<m, s.to>>].session = None
  BY <1>2, <1>7 DEF Put, NewDelivery
<1>9. <<row>> \in Seq(Event) /\ Len(<<row>>) = 1 /\ <<row>>[1] = row
  BY <1>6
<1>10. /\ Ahead /\ Numbered'
       /\ \A i \in DOMAIN events : i \in DOMAIN events' /\ events'[i] = events[i]
       /\ lastSeq + 1 \in DOMAIN events' /\ events'[lastSeq + 1] = row
  <2> HIDE DEF row
  <2> QED BY <1>2, <1>4, <1>9, Emitted DEF Rows
<1>11. Lasting
  BY <1>1, <1>4, <1>7, <1>8 DEF Lasting
<1>12. DeliveriesAsked'
  BY <1>3, <1>7, <1>8 DEF Rows, MessagesAsked, DeliveriesAsked
<1>13. BlobsUploaded' /\ Arrived'
  <2>1. BlobsUploaded'
    BY <1>4, <1>7 DEF Rows, BlobsUploaded
  <2>2. Arrived'
    BY <1>3, <1>4, <1>7, <1>8 DEF Rows, MessagesAsked, Arrived
  <2> QED BY <2>1, <2>2
<1>14. LabelDeclared' /\ OwnAttachments'
  BY <1>4, <1>7, <1>8 DEF Rows, LabelDeclared, OwnAttachments, AttachedTo
<1>15. MailAnnounced'
  <2>1. ASSUME NEW k \in DOMAIN deliveries', k[2] \notin revoked
        PROVE  \E i \in DOMAIN events' :
                 events'[i] = [chat |-> k[2], type |-> "message.received", msg |-> k[1]]
    <3>1. CASE k \in DOMAIN deliveries
      BY <1>10, <2>1, <3>1 DEF Rows, MailAnnounced, Announced
    <3>2. CASE k = <<m, s.to>>
      BY <1>10, <3>2
    <3> QED BY <1>8, <2>1, <3>1, <3>2
  <2> QED BY <1>4, <2>1 DEF MailAnnounced, Announced
<1>16. Knowing'
  BY <1>4, <1>11, Answered
<1> QED BY <1>7, <1>10, <1>11, <1>12, <1>13, <1>14, <1>15, <1>16 DEF Rows, Legal

\* The transaction of send, table by table, for the request s and the new id m.
Written(s, m) ==
  /\ m \in MsgId \ DOMAIN asked
  /\ messages' = Put(messages, m, Row(s.by, None))
  /\ asked' = Put(asked, m, [from |-> s.by, want |-> s.want, to |-> Chats(s)])

Attached(s, m) ==
  /\ DOMAIN blobs' = DOMAIN blobs
  /\ \A b \in DOMAIN blobs : /\ blobs'[b].by = blobs[b].by
                             /\ b \in s.want => blobs'[b].attached = m
                             /\ b \notin s.want => blobs'[b] = blobs[b]

Delivered(s, m) ==
  /\ DOMAIN deliveries \subseteq DOMAIN deliveries'
  /\ \A k \in DOMAIN deliveries' \ DOMAIN deliveries : k[2] \in Chats(s) /\ k = <<m, k[2]>>
  /\ \A k \in DOMAIN deliveries : k[1] # m => deliveries'[k].session = deliveries[k].session
  /\ \A c \in Chats(s) :
       /\ <<m, c>> \in DOMAIN deliveries'
       /\ \E a \in s.to : a[1] = c /\ deliveries'[<<m, c>>].session = a[2]

LEMMA SendCommitWrites ==
  ASSUME StoreTypeOK, Rows, Knowing, NEW r \in Thread, SendCommit(r),
         NEW s, s = req[r], NEW m, m = Fresh(MsgId, DOMAIN asked)
  PROVE  /\ Written(s, m) /\ Attached(s, m) /\ Delivered(s, m)
         /\ s \in SendJob /\ Validated(s) /\ s.todo = {} /\ s.check = {}
         /\ s.to \subseteq Chat \X (Label \cup {None})
<1>0. r \in Job /\ s.op = "send" /\ s.at = "write"
  BY DEF Job, SendCommit, At
<1>1. s \in SendJob
  BY <1>0, RequestKinds DEF StoreTypeOK
<1>2. m \in MsgId \ DOMAIN asked
  BY FreshId DEF SendCommit, StoreTypeOK, IsTable
<1>3. Validated(s) /\ s.todo = {} /\ s.check = {}
  BY <1>0 DEF Knowing, Known, SendKnown, Staged
<1>4. s.to \subseteq Chat \X (Label \cup {None})
  BY <1>1 DEF SendCommit, Remote, SendJob, Address
<1>5. Written(s, m)
  BY <1>2 DEF SendCommit, Chats, Written
<1>6. Attached(s, m)
  <2>1. \A b \in DOMAIN blobs : blobs[b] \in Blob
    BY DEF StoreTypeOK, IsTable
  <2>2. blobs' = [b \in DOMAIN blobs |->
                   IF b \in s.want THEN [blobs[b] EXCEPT !.attached = m] ELSE blobs[b]]
    BY DEF SendCommit, Update
  <2> QED BY <2>1, <2>2 DEF Blob, Attached
<1> DEFINE new == {<<m, c>> : c \in Chats(s)}
           labelOf(c) == (CHOOSE a \in s.to : a[1] = c)[2]
           added == [k \in DOMAIN deliveries \cup new |->
                       IF k \in new THEN NewDelivery(labelOf(k[2])) ELSE deliveries[k]]
<1>7. deliveries' = BumpReplied(s, added)
  BY DEF SendCommit
<1>8. /\ DOMAIN added = DOMAIN deliveries \cup new
      /\ \A k \in DOMAIN deliveries : k \notin new => added[k] = deliveries[k]
      /\ \A k \in new : added[k] = NewDelivery(labelOf(k[2]))
  BY DEF added
<1>9. \A k \in DOMAIN added : "session" \in DOMAIN added[k]
  <2>1. \A k \in DOMAIN deliveries : "session" \in DOMAIN deliveries[k]
    BY DEF StoreTypeOK, IsTable, Delivery
  <2>2. \A label : "session" \in DOMAIN NewDelivery(label)
    BY DEF NewDelivery
  <2>3. ASSUME NEW k \in DOMAIN added PROVE "session" \in DOMAIN added[k]
    <3> HIDE DEF new, labelOf, added
    <3>1. CASE k \in new
      BY <1>8, <2>2, <3>1
    <3>2. CASE k \notin new
      BY <1>8, <2>1, <2>3, <3>2
    <3> QED BY <3>1, <3>2
  <2> QED BY <2>3
<1>10. /\ DOMAIN deliveries' = DOMAIN added
       /\ \A k \in DOMAIN added : deliveries'[k].session = added[k].session
  <2> HIDE DEF added
  <2> QED BY <1>7, <1>9 DEF BumpReplied
<1>11. \A c \in Chats(s) : \E a \in s.to :
         a[1] = c /\ deliveries'[<<m, c>>].session = a[2]
  <2>1. TAKE c \in Chats(s)
  <2>2. \E a \in s.to : a[1] = c
    BY <2>1 DEF Chats
  <2>3. PICK a \in s.to : a[1] = c /\ labelOf(c) = a[2]
    BY <2>2
  <2>4. <<m, c>> \in new /\ added[<<m, c>>] = NewDelivery(labelOf(c))
    BY <2>1
  <2> HIDE DEF new, labelOf, added
  <2> QED BY <1>8, <1>10, <2>3, <2>4 DEF NewDelivery
<1>12. \A k \in DOMAIN deliveries :
         k[1] # m => deliveries'[k].session = deliveries[k].session
  <2>1. \A k \in new : k[1] = m
    OBVIOUS
  <2> HIDE DEF new, added
  <2> QED BY <1>8, <1>10, <2>1
<1>13. /\ DOMAIN deliveries \subseteq DOMAIN deliveries'
       /\ \A k \in DOMAIN deliveries' \ DOMAIN deliveries :
            k[2] \in Chats(s) /\ k = <<m, k[2]>>
       /\ \A c \in Chats(s) : <<m, c>> \in DOMAIN deliveries'
  BY <1>8, <1>10
<1>14. Delivered(s, m)
  BY <1>11, <1>12, <1>13 DEF Delivered
<1> QED BY <1>1, <1>3, <1>4, <1>5, <1>6, <1>14

\* Every recipient is told: the order of the events names each of them.
LEMMA SendCommitTells ==
  ASSUME StoreTypeOK, Rows, Knowing, NEW r \in Thread, SendCommit(r),
         NEW s, s = req[r], NEW m, m = Fresh(MsgId, DOMAIN asked)
  PROVE  /\ Ahead /\ Numbered'
         /\ \A i \in DOMAIN events : i \in DOMAIN events' /\ events'[i] = events[i]
         /\ \A c \in Chats(s) : \E i \in DOMAIN events' :
              events'[i] = [chat |-> c, type |-> "message.received", msg |-> m]
<1> DEFINE n == Cardinality(s.to)
<1>1. m \in MsgId /\ s \in SendJob /\ s.to \subseteq Chat \X (Label \cup {None})
  BY SendCommitWrites DEF Written
<1>2. IsFiniteSet(s.to) /\ n \in Nat
  BY <1>1, FewAddressees, FS_CardinalityType DEF SendCommit, IsRefused
<1>3. PICK order \in Injection(1 .. n, s.to) :
         LET received == [i \in 1 .. n |-> [chat |-> order[i][1],
                            type |-> "message.received", msg |-> m]]
             replied == [chat |-> s.answers, type |-> "message.replied",
                         msg |-> s.parent]
         IN EmitAll(IF s.answers = None THEN received ELSE Append(received, replied))
  BY DEF SendCommit
<1> DEFINE received == [i \in 1 .. n |-> [chat |-> order[i][1],
                            type |-> "message.received", msg |-> m]]
           replied == [chat |-> s.answers, type |-> "message.replied", msg |-> s.parent]
           rows == IF s.answers = None THEN received ELSE Append(received, replied)
<1>4. EmitAll(rows)
  BY <1>3
<1>5. order \in [1 .. n -> s.to]
  BY DEF Injection
<1>6. received \in Seq(Event) /\ Len(received) = n
  <2>1. \A i \in 1 .. n : received[i] \in Event
    BY <1>1, <1>5 DEF Event, EventType
  <2> QED BY <1>2, <2>1, IsASeq
<1>7. s.answers # None => replied \in Event
  <2>1. s.answers # None => s.answers \in Chat /\ s.parent \in MsgId
    BY <1>1 DEF SendCommit, IsRefused, SendJob
  <2> QED BY <2>1 DEF Event, EventType
<1>8. rows \in Seq(Event) /\ \A i \in 1 .. n : i \in 1 .. Len(rows) /\ rows[i] = received[i]
  <2> HIDE DEF received, replied, n
  <2> QED BY <1>2, <1>6, <1>7
<1>9. UNCHANGED cursor
  BY DEF SendCommit, quiet
<1>10. /\ Ahead /\ Numbered'
       /\ \A i \in DOMAIN events : i \in DOMAIN events' /\ events'[i] = events[i]
       /\ \A i \in 1 .. Len(rows) :
            lastSeq + i \in DOMAIN events' /\ events'[lastSeq + i] = rows[i]
  <2> HIDE DEF rows
  <2> QED BY <1>4, <1>8, <1>9, Emitted DEF Rows
<1>11. order \in Surjection(1 .. n, s.to)
  <2>1. Cardinality(1 .. n) = n
    BY <1>2, FS_Interval
  <2> QED BY <1>2, <2>1, FS_Injection
<1>12. ASSUME NEW c \in Chats(s)
       PROVE  \E i \in DOMAIN events' :
                events'[i] = [chat |-> c, type |-> "message.received", msg |-> m]
  <2>1. PICK a \in s.to : a[1] = c
    BY DEF Chats
  <2>2. PICK i \in 1 .. n : order[i] = a
    BY <1>11 DEF Surjection
  <2>3. received[i] = [chat |-> c, type |-> "message.received", msg |-> m]
    BY <2>1, <2>2
  <2> HIDE DEF received, rows
  <2> QED BY <1>8, <1>10, <2>3
<1> QED BY <1>10, <1>12

LEMMA SendCommitKeeps ==
  ASSUME StoreTypeOK, Rows, Knowing, NEW r \in Thread, SendCommit(r)
  PROVE  Rows' /\ Legal /\ Knowing'
<1>0. PICK s, m : s = req[r] /\ m = Fresh(MsgId, DOMAIN asked)
  OBVIOUS
<1> DEFINE ask == [from |-> s.by, want |-> s.want, to |-> Chats(s)]
<1>1. /\ Written(s, m) /\ Attached(s, m) /\ Delivered(s, m)
      /\ Validated(s) /\ s.todo = {} /\ s.check = {}
  BY <1>0, SendCommitWrites
<1>2. /\ m \in MsgId \ DOMAIN asked
      /\ messages' = Put(messages, m, Row(s.by, None)) /\ asked' = Put(asked, m, ask)
  BY <1>1 DEF Written
<1>3. /\ Ahead /\ Numbered'
      /\ \A i \in DOMAIN events : i \in DOMAIN events' /\ events'[i] = events[i]
      /\ \A c \in Chats(s) : \E i \in DOMAIN events' :
           events'[i] = [chat |-> c, type |-> "message.received", msg |-> m]
  BY <1>0, SendCommitTells
<1>4. Row(s.by, None).from = ask.from /\ ask.to = Chats(s)
  BY DEF Row
<1>5. UNCHANGED <<revoked, sessions, cursor, aged, uploaded>> /\ Answer(r) /\ r \in Job
  BY DEF SendCommit, quiet, Job
<1> HIDE DEF ask
<1>6. /\ MessagesAsked' /\ Forgets
      /\ \A x \in DOMAIN asked : x \in DOMAIN asked' /\ asked'[x] = asked[x]
      /\ \A x \in DOMAIN messages : x # m /\ messages'[x] = messages[x]
      /\ DOMAIN messages' = DOMAIN messages \cup {m}
      /\ messages'[m] = Row(s.by, None) /\ asked'[m] = ask
      /\ \A k \in DOMAIN deliveries : k[1] # m
      /\ \A b \in DOMAIN blobs : blobs[b].attached # m
  BY <1>2, <1>4, Minted
<1>7. m \in DOMAIN asked'
  BY <1>2 DEF Put
<1>8. Lasting
  BY <1>1, <1>2, <1>5, <1>6 DEF Lasting, Attached, Delivered
<1>9. DeliveriesAsked'
  BY <1>1, <1>4, <1>6 DEF Rows, MessagesAsked, DeliveriesAsked, Delivered
<1>10. BlobsUploaded'
  <2>1. BlobsUploaded
    BY DEF Rows
  <2> QED BY <1>1, <1>5, <1>6, <1>7, <2>1 DEF BlobsUploaded, Attached
<1>11. Arrived'
  <2>1. MessagesAsked /\ Arrived
    BY DEF Rows
  <2>2. ASSUME NEW x \in DOMAIN messages', NEW c \in asked'[x].to
        PROVE  <<x, c>> \in DOMAIN deliveries' \/ c \in revoked \/ x \in aged
    <3>1. CASE x = m
      BY <1>1, <1>4, <1>6, <2>2, <3>1 DEF Delivered
    <3>2. CASE x # m
      BY <1>1, <1>6, <2>1, <2>2, <3>2 DEF Delivered, MessagesAsked, Arrived
    <3> QED BY <3>1, <3>2
  <2> QED BY <1>5, <2>2 DEF Arrived
<1>12. LabelDeclared'
  <2>1. ASSUME NEW k \in DOMAIN deliveries', deliveries'[k].session # None
        PROVE  <<k[2], deliveries'[k].session>> \in DOMAIN sessions
    <3>1. CASE k \in DOMAIN deliveries
      BY <1>1, <1>6, <2>1, <3>1 DEF Rows, LabelDeclared, Delivered
    <3>2. CASE k \notin DOMAIN deliveries
      <4>1. k = <<m, k[2]>> /\ k[2] \in Chats(s)
        BY <1>1, <3>2 DEF Delivered
      <4>2. PICK a \in s.to : a[1] = k[2] /\ deliveries'[k].session = a[2]
        BY <1>1, <4>1 DEF Delivered
      <4> QED BY <1>1, <2>1, <4>2 DEF Validated
    <3> QED BY <3>1, <3>2
  <2> QED BY <1>5, <2>1 DEF LabelDeclared
<1>13. OwnAttachments'
  <2>1. ASSUME NEW x \in DOMAIN messages', NEW b \in DOMAIN blobs, blobs'[b].attached = x
        PROVE  blobs'[b].by = messages'[x].from
    <3>1. CASE b \in s.want
      <4>1. x = m
        BY <1>1, <2>1, <3>1 DEF Attached
      <4>2. messages'[x].from = s.by
        BY <1>6, <4>1 DEF Row
      <4>3. blobs[b].by = s.by
        BY <1>1, <3>1 DEF Validated
      <4> QED BY <1>1, <4>2, <4>3 DEF Attached
    <3>2. CASE b \notin s.want
      <4>1. blobs[b].attached = x
        BY <1>1, <2>1, <3>2 DEF Attached
      <4>2. x # m /\ x \in DOMAIN messages
        BY <1>6, <4>1
      <4>3. blobs[b].by = messages[x].from
        BY <4>1, <4>2 DEF Rows, OwnAttachments, AttachedTo
      <4> QED BY <1>1, <1>6, <4>2, <4>3 DEF Attached
    <3> QED BY <3>1, <3>2
  <2> QED BY <1>1, <2>1 DEF OwnAttachments, AttachedTo, Attached
<1>14. MailAnnounced'
  <2>1. ASSUME NEW k \in DOMAIN deliveries', k[2] \notin revoked
        PROVE  \E i \in DOMAIN events' :
                 events'[i] = [chat |-> k[2], type |-> "message.received", msg |-> k[1]]
    <3>1. CASE k \in DOMAIN deliveries
      BY <1>3, <2>1, <3>1 DEF Rows, MailAnnounced, Announced
    <3>2. CASE k \notin DOMAIN deliveries
      BY <1>1, <1>3, <2>1, <3>2 DEF Delivered
    <3> QED BY <3>1, <3>2
  <2> QED BY <1>5, <2>1 DEF MailAnnounced, Announced
<1>15. Knowing'
  BY <1>5, <1>8, Answered
<1> QED BY <1>3, <1>6, <1>8, <1>9, <1>10, <1>11, <1>12, <1>13, <1>14, <1>15
        DEF Rows, Legal

-----------------------------------------------------------------------------
(* read, archive, unsend, edit, download                                   *)

\* An UPDATE of deliveries moves no row to another key or session.
LEMMA DeliveriesUpdated ==
  ASSUME StoreTypeOK, Rows, DOMAIN deliveries' = DOMAIN deliveries,
         \A k \in DOMAIN deliveries : deliveries'[k].session = deliveries[k].session,
         UNCHANGED <<revoked, sessions, messages, events, lastSeq, blobs, cursor, aged,
                     asked, uploaded>>
  PROVE  Rows' /\ Legal
<1>1. Legal
  BY DEF Legal, Lasting, Ahead, Forgets
<1>2. (Numbered /\ MessagesAsked /\ DeliveriesAsked /\ BlobsUploaded /\ Arrived)'
  BY DEF Rows, Numbered, MessagesAsked, DeliveriesAsked, BlobsUploaded, Arrived
<1>3. (LabelDeclared /\ OwnAttachments /\ MailAnnounced)'
  BY DEF Rows, LabelDeclared, OwnAttachments, MailAnnounced, AttachedTo, Announced
<1> QED BY <1>1, <1>2, <1>3 DEF Rows

\* An UPDATE of messages leaves their senders.
LEMMA MessagesUpdated ==
  ASSUME StoreTypeOK, Rows, DOMAIN messages' = DOMAIN messages,
         \A m \in DOMAIN messages : messages'[m].from = messages[m].from,
         UNCHANGED <<revoked, sessions, deliveries, events, lastSeq, blobs, cursor, aged,
                     asked, uploaded>>
  PROVE  Rows' /\ Legal
<1>1. Legal
  BY DEF Legal, Lasting, Ahead, Forgets
<1>2. (Numbered /\ MessagesAsked /\ DeliveriesAsked /\ BlobsUploaded /\ Arrived)'
  BY DEF Rows, Numbered, MessagesAsked, DeliveriesAsked, BlobsUploaded, Arrived
<1>3. (LabelDeclared /\ OwnAttachments /\ MailAnnounced)'
  BY DEF Rows, LabelDeclared, OwnAttachments, MailAnnounced, AttachedTo, Announced
<1> QED BY <1>1, <1>2, <1>3 DEF Rows

\* A row added to events takes none away.
LEMMA EventAdded ==
  ASSUME StoreTypeOK, Rows, NEW c \in Chat, NEW type \in EventType, NEW m \in MsgId,
         Emit(c, type, m),
         UNCHANGED <<revoked, sessions, messages, deliveries, blobs, cursor, aged, asked,
                     uploaded>>
  PROVE  Rows' /\ Legal
<1>1. <<[chat |-> c, type |-> type, msg |-> m]>> \in Seq(Event)
  BY DEF Event
<1>2. /\ Ahead /\ Numbered'
      /\ \A i \in DOMAIN events : i \in DOMAIN events' /\ events'[i] = events[i]
  BY <1>1, Emitted DEF Emit, Rows
<1>3. Legal
  BY <1>2 DEF Legal, Lasting, Forgets
<1>4. (MessagesAsked /\ DeliveriesAsked /\ BlobsUploaded /\ Arrived)'
  BY DEF Rows, MessagesAsked, DeliveriesAsked, BlobsUploaded, Arrived
<1>5. (LabelDeclared /\ OwnAttachments)'
  BY DEF Rows, LabelDeclared, OwnAttachments, AttachedTo
<1>6. MailAnnounced'
  BY <1>2 DEF Rows, MailAnnounced, Announced
<1> QED BY <1>2, <1>3, <1>4, <1>5, <1>6 DEF Rows

\* Past the gate, a handler stays there.
LEMMA PastTheGate ==
  ASSUME StoreTypeOK, Knowing, Lasting, NEW j \in Job, NEW at, Goto(j, at),
         req[j] \in ReadJob \cup DownloadJob, req[j].at # "lookup"
  PROVE  Knowing'
<1> DEFINE t == [req[j] EXCEPT !.at = at]
<1>1. t.op = req[j].op /\ t.msg = req[j].msg /\ t.by = req[j].by
      /\ req[j].op \in {"read", "download"}
  BY DEF ReadJob, DownloadJob
<1>2. req[j].msg \in DOMAIN asked /\ Party(req[j].msg, req[j].by)
  BY <1>1 DEF Knowing, Known, GateKnown
<1>3. Known(t)
  <2> HIDE DEF t
  <2> QED BY <1>1, <1>2 DEF Known, GateKnown, SendKnown, RetainKnown
<1> QED BY <1>3, HandlersKnow DEF Goto

\* Who may read a message is one of the parties its sender named.
LEMMA OpenToParties ==
  ASSUME Rows, NEW m, NEW c, VisibleTo(m, c)
  PROVE  m \in DOMAIN asked /\ Party(m, c)
BY DEF VisibleTo, Recipients, Party, Rows, MessagesAsked, DeliveriesAsked

LEMMA ReadKeeps ==
  ASSUME StoreTypeOK, Rows, Knowing, NEW r \in Thread, ReadStep(r)
  PROVE  Rows' /\ Legal /\ Knowing'
<1>0. r \in Job
  BY DEF Job
<1>1. req[r].op = "read" => req[r] \in ReadJob
  BY <1>0, RequestKinds DEF StoreTypeOK
<1>2. \A k \in DOMAIN deliveries : deliveries[k] \in Delivery
  BY DEF StoreTypeOK, IsTable
<1>3. CASE ReadLookup(r)
  <2>1. UNCHANGED data
    BY <1>3 DEF ReadLookup, quiet, tables, data
  <2> DEFINE t == [req[r] EXCEPT !.at = "unread", !.row = messages[req[r].msg]]
  <2>2. CASE VisibleTo(req[r].msg, req[r].by) /\ req' = [req EXCEPT ![r] = t]
    <3>1. t.op = "read" /\ t.msg = req[r].msg /\ t.by = req[r].by
      BY <1>1, <1>3 DEF ReadLookup, At, ReadJob
    <3>2. Known(t)
      <4> HIDE DEF t
      <4> QED BY <2>2, <3>1, OpenToParties DEF Known, GateKnown, SendKnown, RetainKnown
    <3> QED BY <1>0, <2>1, <2>2, <3>2, Reading
  <2> QED BY <1>0, <1>3, <2>1, <2>2, ReadingAnswered DEF ReadLookup
<1>4. CASE ReadUnread(r) \/ ReadRank(r) \/ ReadView(r)
  <2>1. UNCHANGED data
    BY <1>4 DEF ReadUnread, ReadRank, ReadView, quiet, tables, data
  <2>2. req[r] \in ReadJob /\ req[r].at # "lookup"
    BY <1>1, <1>4 DEF ReadUnread, ReadRank, ReadView, At
  <2>3. Answer(r) \/ \E at : Goto(r, at)
    BY <1>4 DEF ReadUnread, ReadRank, ReadView
  <2>4. Rows' /\ Legal
    BY <2>1, ReadsKeep
  <2> QED BY <1>0, <2>2, <2>3, <2>4, Answered, PastTheGate DEF Legal
<1>5. CASE ReadMark(r) \/ ReadBump(r) \/ Archive(r)
  <2>1. /\ DOMAIN deliveries' = DOMAIN deliveries
        /\ \A k \in DOMAIN deliveries : deliveries'[k].session = deliveries[k].session
    BY <1>2, <1>5 DEF ReadMark, ReadBump, Archive, Update, Delivery
  <2>2. Rows' /\ Legal
    BY <1>5, <2>1, DeliveriesUpdated DEF ReadMark, ReadBump, Archive, quiet
  <2>3. CASE ReadMark(r) \/ ReadBump(r)
    <3>1. req[r] \in ReadJob /\ req[r].at # "lookup" /\ \E at : Goto(r, at)
      BY <1>1, <2>3 DEF ReadMark, ReadBump, At
    <3> QED BY <1>0, <2>2, <3>1, PastTheGate DEF Legal
  <2> QED BY <1>0, <1>5, <2>2, <2>3, Answered DEF Archive, Legal
<1>6. CASE ReadTell(r)
  <2>1. req[r] \in ReadJob /\ req[r].at # "lookup" /\ Goto(r, "view")
    BY <1>1, <1>6 DEF ReadTell, At
  <2>2. Rows' /\ Legal
    <3>1. CASE UNCHANGED <<events, lastSeq>>
      BY <1>6, <3>1, ReadsKeep DEF ReadTell, quiet, data
    <3>2. CASE ~UNCHANGED <<events, lastSeq>>
      <4>1. /\ req[r].row.from \in Chat /\ req[r].msg \in MsgId
            /\ Emit(req[r].row.from, "message.read", req[r].msg)
        BY <1>6, <2>1, <3>2 DEF ReadTell, ReadJob
      <4> QED BY <1>6, <4>1, EventAdded DEF ReadTell, quiet, EventType
    <3> QED BY <3>1, <3>2
  <2> QED BY <1>0, <2>1, <2>2, PastTheGate DEF Legal
<1> QED BY <1>3, <1>4, <1>5, <1>6 DEF ReadStep

LEMMA WithdrawKeeps ==
  ASSUME StoreTypeOK, Rows, Knowing, NEW r \in Thread, WithdrawStep(r)
  PROVE  Rows' /\ Legal /\ Knowing'
<1>0. r \in Job
  BY DEF Job
<1>1. req[r] \in WithdrawJob
  BY <1>0, RequestKinds DEF StoreTypeOK, WithdrawStep, WithdrawLookup, WithdrawUnread,
     WithdrawUpdate, WithdrawRecipients, WithdrawTell, Withdrawing, At
<1>2. CASE WithdrawLookup(r) \/ WithdrawUnread(r)
  <2>1. Rows' /\ Legal
    BY <1>2, ReadsKeep DEF WithdrawLookup, WithdrawUnread, quiet, tables, data
  <2> QED BY <1>0, <1>1, <1>2, <2>1, Answered, GoesOn
          DEF WithdrawLookup, WithdrawUnread, Legal
<1>3. CASE WithdrawUpdate(r)
  <2>1. \A m \in DOMAIN messages : messages[m] \in Message
    BY DEF StoreTypeOK, IsTable
  <2>2. /\ DOMAIN messages' = DOMAIN messages
        /\ \A m \in DOMAIN messages : messages'[m].from = messages[m].from
    BY <1>3, <2>1 DEF WithdrawUpdate, Update, Message
  <2>3. Rows' /\ Legal
    BY <1>3, <2>2, MessagesUpdated DEF WithdrawUpdate, quiet
  <2> QED BY <1>0, <1>1, <1>3, <2>3, GoesOn DEF WithdrawUpdate, Legal
<1>4. ASSUME NEW s, req' = [req EXCEPT ![r] = s], Legal,
             s = Idle \/ s.op \in {"unsend", "edit"}
      PROVE  Knowing'
  <2>1. Known(s)
    BY <1>4, NothingToKnow DEF Idle
  <2> QED BY <1>0, <1>4, <2>1, HandlersKnow DEF Legal
<1>5. CASE WithdrawRecipients(r)
  <2>1. Rows' /\ Legal
    BY <1>5, ReadsKeep DEF WithdrawRecipients, quiet, tables, data
  <2>2. req' = [req EXCEPT ![r] = IF Recipients(req[r].msg) = {} THEN Idle
                    ELSE [req[r] EXCEPT !.at = "tell", !.tell = Recipients(req[r].msg)]]
    BY <1>5 DEF WithdrawRecipients
  <2>3. [req[r] EXCEPT !.at = "tell", !.tell = Recipients(req[r].msg)].op
          \in {"unsend", "edit"}
    BY <1>1 DEF WithdrawJob
  <2> QED BY <1>4, <2>1, <2>2, <2>3
<1>6. CASE WithdrawTell(r)
  <2>1. PICK c \in req[r].tell :
          /\ Emit(c, IF req[r].op = "unsend" THEN "message.recalled"
                                             ELSE "message.edited", req[r].msg)
          /\ req' = [req EXCEPT ![r] = IF req[r].tell \ {c} = {} THEN Idle
                                       ELSE [req[r] EXCEPT !.tell = req[r].tell \ {c}]]
    BY <1>6 DEF WithdrawTell
  <2>2. c \in Chat /\ req[r].msg \in MsgId
    BY <1>1 DEF WithdrawJob
  <2>3. Rows' /\ Legal
    BY <1>6, <2>1, <2>2, EventAdded DEF WithdrawTell, quiet, EventType
  <2>4. [req[r] EXCEPT !.tell = req[r].tell \ {c}].op \in {"unsend", "edit"}
    BY <1>1 DEF WithdrawJob
  <2> QED BY <1>4, <2>1, <2>3, <2>4
<1> QED BY <1>2, <1>3, <1>5, <1>6 DEF WithdrawStep

LEMMA AttachmentKeeps ==
  ASSUME StoreTypeOK, Rows, Knowing, NEW r \in Thread, AttachmentStep(r)
  PROVE  Rows' /\ Legal /\ Knowing'
<1>0. r \in Job /\ req[r] \in Request
  BY DEF Job, StoreTypeOK
<1>1. CASE \/ UploadExists(r) \/ UploadReplace(r) \/ InlineExists(r)
           \/ InlineTruncate(r) \/ InlineWrite(r)
  <2>1. req[r] \in UploadJob /\ \E at : Goto(r, at)
    BY <1>0, <1>1, RequestKinds
       DEF UploadExists, UploadReplace, InlineExists, InlineTruncate, InlineWrite, At
  <2>2. Rows' /\ Legal
    BY <1>1, ReadsKeep DEF UploadExists, UploadReplace, InlineExists, InlineTruncate,
                           InlineWrite, still, data
  <2> QED BY <1>0, <2>1, <2>2, GoesOn DEF Legal
<1>2. CASE InsertBlob(r)
  <2> DEFINE b == Fresh(BlobId, uploaded)
             row == [sha |-> req[r].sha, by |-> req[r].by, attached |-> None]
  <2>1. b \in BlobId \ uploaded
    BY <1>2, FreshId DEF InsertBlob, StoreTypeOK
  <2>2. /\ blobs' = Put(blobs, b, row) /\ uploaded' = uploaded \cup {b} /\ Answer(r)
        /\ UNCHANGED <<revoked, sessions, messages, deliveries, events, lastSeq, cursor,
                       aged, asked>>
    BY <1>2 DEF InsertBlob, still
  <2>3. row.attached = None
    OBVIOUS
  <2> HIDE DEF b, row
  <2>4. /\ DOMAIN blobs' = DOMAIN blobs \cup {b} /\ b \notin DOMAIN blobs
        /\ \A x \in DOMAIN blobs : blobs'[x] = blobs[x]
        /\ blobs'[b].attached = None
    BY <2>1, <2>2, <2>3 DEF Put, Rows, BlobsUploaded
  <2>5. Legal
    BY <2>1, <2>2, <2>4 DEF Legal, Lasting, Ahead, Forgets
  <2>6. (Numbered /\ MessagesAsked /\ DeliveriesAsked /\ Arrived /\ LabelDeclared
           /\ MailAnnounced)'
    BY <2>2 DEF Rows, Numbered, MessagesAsked, DeliveriesAsked, Arrived, LabelDeclared,
                MailAnnounced, Announced
  <2>7. BlobsUploaded'
    BY <2>2, <2>4 DEF Rows, BlobsUploaded
  <2>8. OwnAttachments'
    <3>1. \A m \in DOMAIN messages : m # None
      BY DEF StoreTypeOK, IsTable
    <3> QED BY <2>2, <2>4, <3>1 DEF Rows, OwnAttachments, AttachedTo
  <2> QED BY <1>0, <2>2, <2>5, <2>6, <2>7, <2>8, Answered DEF Rows, Legal
<1>3. CASE DownloadLookup(r) \/ DownloadBlob(r) \/ DownloadOpen(r) \/ DownloadServe(r)
  <2>1. req[r] \in DownloadJob
    BY <1>0, <1>3, RequestKinds
       DEF DownloadLookup, DownloadBlob, DownloadOpen, DownloadServe, At
  <2>2. UNCHANGED data
    BY <1>3 DEF DownloadLookup, DownloadBlob, DownloadOpen, DownloadServe, still, data
  <2>3. Rows' /\ Legal
    BY <2>2, ReadsKeep
  <2>4. CASE DownloadLookup(r)
    <3>1. CASE VisibleTo(req[r].msg, req[r].by) /\ Goto(r, "blob")
      <4> DEFINE t == [req[r] EXCEPT !.at = "blob"]
      <4>1. t.op = "download" /\ t.msg = req[r].msg /\ t.by = req[r].by
        BY <2>1 DEF DownloadJob
      <4>2. Known(t)
        <5> HIDE DEF t
        <5> QED BY <3>1, <4>1, OpenToParties DEF Known, GateKnown, SendKnown, RetainKnown
      <4> QED BY <1>0, <2>2, <3>1, <4>2, Reading DEF Goto
    <3> QED BY <1>0, <2>2, <2>4, <3>1, ReadingAnswered DEF DownloadLookup
  <2>5. CASE DownloadBlob(r)
    <3> DEFINE t == [req[r] EXCEPT !.at = "open", !.sha = blobs[req[r].blob].sha]
    <3>1. CASE req' = [req EXCEPT ![r] = t]
      <4>1. t.op = "download" /\ t.msg = req[r].msg /\ t.by = req[r].by
        BY <2>1 DEF DownloadJob
      <4>2. req[r].msg \in DOMAIN asked /\ Party(req[r].msg, req[r].by)
        BY <1>0, <2>5 DEF DownloadBlob, At, Knowing, Known, GateKnown
      <4>3. Known(t)
        <5> HIDE DEF t
        <5> QED BY <4>1, <4>2 DEF Known, GateKnown, SendKnown, RetainKnown
      <4> QED BY <1>0, <2>2, <3>1, <4>3, Reading
    <3> QED BY <1>0, <2>2, <2>5, <3>1, ReadingAnswered DEF DownloadBlob
  <2>6. CASE DownloadOpen(r) \/ DownloadServe(r)
    <3>1. req[r].at # "lookup" /\ (Answer(r) \/ \E at : Goto(r, at))
      BY <2>6 DEF DownloadOpen, DownloadServe, At
    <3> QED BY <1>0, <2>1, <2>3, <3>1, Answered, PastTheGate DEF Legal
  <2> QED BY <1>3, <2>4, <2>5, <2>6
<1> QED BY <1>1, <1>2, <1>3 DEF AttachmentStep

-----------------------------------------------------------------------------
(* Sessions, revocation, the long poll                                     *)

\* A label is never forgotten, and a chat revoked has less to be kept for.
LEMMA IdentityKeeps ==
  ASSUME StoreTypeOK, Rows, Knowing, NEW r \in Thread, SessionStep(r) \/ RevokeChat(r)
  PROVE  Rows' /\ Legal /\ Knowing'
<1>0. r \in Job /\ req[r] \in Request
  BY DEF Job, StoreTypeOK
<1>1. /\ UNCHANGED <<messages, deliveries, events, lastSeq, blobs, cursor, aged, asked,
                     uploaded>>
      /\ revoked \subseteq revoked' /\ DOMAIN sessions \subseteq DOMAIN sessions'
  BY DEF SessionStep, OpenSelect, OpenReopen, OpenInsert, Close, RevokeChat, Update, Put,
         elsewhere, tables
<1>2. Legal
  BY <1>1 DEF Legal, Lasting, Ahead, Forgets
<1>3. (Numbered /\ MessagesAsked /\ DeliveriesAsked /\ BlobsUploaded /\ Arrived)'
  BY <1>1 DEF Rows, Numbered, MessagesAsked, DeliveriesAsked, BlobsUploaded, Arrived
<1>4. (LabelDeclared /\ OwnAttachments /\ MailAnnounced)'
  BY <1>1 DEF Rows, LabelDeclared, OwnAttachments, MailAnnounced, AttachedTo, Announced
<1>5. CASE OpenSelect(r)
  <2>1. req[r] \in SessionJob /\ \E at : Goto(r, at)
    BY <1>0, <1>5, RequestKinds DEF OpenSelect, At
  <2> QED BY <1>0, <1>2, <1>3, <1>4, <2>1, GoesOn DEF Rows, Legal
<1>6. CASE OpenReopen(r) \/ OpenInsert(r) \/ Close(r) \/ RevokeChat(r)
  <2>1. Answer(r)
    BY <1>6 DEF OpenReopen, OpenInsert, Close, RevokeChat
  <2> QED BY <1>0, <1>2, <1>3, <1>4, <2>1, Answered DEF Rows, Legal
<1> QED BY <1>5, <1>6 DEF SessionStep

\* A cursor never gets ahead of the counter.
LEMMA PollKeeps ==
  ASSUME StoreTypeOK, Rows, Knowing, NEW c \in Chat, Poll(c)
  PROVE  Rows' /\ Legal /\ Knowing'
<1>1. UNCHANGED <<revoked, sessions, messages, deliveries, events, lastSeq, blobs, req,
                  aged, asked, uploaded>>
  BY DEF Poll, tables
<1>2. Legal
  BY <1>1 DEF Legal, Lasting, Ahead, Forgets
<1>3. Numbered'
  <2>1. PICK last \in Page(c) : cursor' = [cursor EXCEPT ![c] = last]
    BY DEF Poll
  <2>2. last \in DOMAIN events
    BY DEF Page, NewFor
  <2>3. last <= lastSeq
    BY <2>2 DEF Rows, Numbered, StoreTypeOK
  <2> QED BY <1>1, <2>1, <2>3 DEF Rows, Numbered, StoreTypeOK
<1>4. (MessagesAsked /\ DeliveriesAsked /\ BlobsUploaded /\ Arrived)'
  BY <1>1 DEF Rows, MessagesAsked, DeliveriesAsked, BlobsUploaded, Arrived
<1>5. (LabelDeclared /\ OwnAttachments /\ MailAnnounced)'
  BY <1>1 DEF Rows, LabelDeclared, OwnAttachments, MailAnnounced, AttachedTo, Announced
<1>6. Knowing'
  <2>1. ASSUME NEW q \in Job PROVE Known(req[q])'
    <3>1. Known(req[q]) /\ req'[q] = req[q] /\ Lasting
      BY <1>1, <1>2 DEF Knowing, Legal
    <3> QED BY <3>1, Lasts
  <2> QED BY <2>1 DEF Knowing
<1> QED BY <1>2, <1>3, <1>4, <1>5, <1>6 DEF Rows

-----------------------------------------------------------------------------
(* Housekeeping                                                            *)

\* Time only makes rows older.
LEMMA TimeKeeps ==
  ASSUME StoreTypeOK, Rows, Knowing, HoursPass \/ DaysPass
  PROVE  Rows' /\ Legal /\ Knowing'
<1>1. /\ UNCHANGED <<revoked, sessions, messages, deliveries, events, lastSeq, blobs,
                     cursor, req, asked, uploaded>>
      /\ aged \subseteq aged'
  BY DEF HoursPass, DaysPass, unmoved
<1>2. Legal
  BY <1>1 DEF Legal, Lasting, Ahead, Forgets
<1>3. (Numbered /\ MessagesAsked /\ DeliveriesAsked /\ BlobsUploaded /\ Arrived)'
  BY <1>1 DEF Rows, Numbered, MessagesAsked, DeliveriesAsked, BlobsUploaded, Arrived
<1>4. (LabelDeclared /\ OwnAttachments /\ MailAnnounced)'
  BY <1>1 DEF Rows, LabelDeclared, OwnAttachments, MailAnnounced, AttachedTo, Announced
<1>5. Knowing'
  <2>1. ASSUME NEW q \in Job PROVE Known(req[q])'
    <3>1. Known(req[q]) /\ req'[q] = req[q] /\ Lasting
      BY <1>1, <1>2 DEF Knowing, Legal
    <3> QED BY <3>1, Lasts
  <2> QED BY <2>1 DEF Knowing
<1> QED BY <1>2, <1>3, <1>4, <1>5 DEF Rows

\* What a crash leaves in flight knows nothing yet.
LEMMA CrashKeeps ==
  ASSUME StoreTypeOK, Rows, Knowing, Crash
  PROVE  Rows' /\ Legal /\ Knowing'
<1>1. Rows' /\ Legal
  BY ReadsKeep DEF Crash, unmoved, data
<1>2. Known(Idle) /\ Known(Retention(Window))
  BY DEF Idle, Retention, Known, GateKnown, SendKnown, RetainKnown
<1>3. ASSUME NEW q \in Job PROVE Known(req[q])'
  <2>1. req'[q] \in {Idle, Retention(Window)}
    BY DEF Crash
  <2> QED BY <1>1, <1>2, <2>1, Lasts DEF Legal
<1> QED BY <1>1, <1>3 DEF Knowing

\* The statements of retention that only select.
LEMMA RetainReadsKeep ==
  ASSUME StoreTypeOK, Rows, Knowing, NEW j \in Job,
         Orphans(j) \/ StillUsed(j) \/ FileExists(j) \/ Doomed(j) \/ DoomedShas(j)
  PROVE  Rows' /\ Legal /\ Knowing'
<1> DEFINE s == req[j]
<1>0. s \in RetainJob
  BY RequestKinds DEF Orphans, StillUsed, FileExists, Doomed, DoomedShas, At, StoreTypeOK
<1>1. UNCHANGED data
  BY DEF Orphans, StillUsed, FileExists, Doomed, DoomedShas, unmoved, data
<1>2. ASSUME NEW t, req' = [req EXCEPT ![j] = t], Known(t)
      PROVE  Rows' /\ Legal /\ Knowing'
  BY <1>1, <1>2, Reading
\* At these statements nothing of a message is held.
<1>3. ASSUME NEW t \in RetainJob, t.at \in {"orphans", "dropOrphans", "doomed", "used",
                                            "exists", "unlink"}
      PROVE  Known(t)
  BY <1>3 DEF RetainJob, Known, GateKnown, SendKnown, RetainKnown
<1>4. Known(Idle) /\ Known(NextPart(s))
  <2>1. Known(Idle)
    BY NothingToKnow DEF Idle
  <2>2. s.days => [s EXCEPT !.at = "doomed", !.ids = {}] \in RetainJob
    BY <1>0 DEF RetainJob
  <2>3. [s EXCEPT !.at = "doomed", !.ids = {}].at = "doomed"
    BY <1>0 DEF RetainJob
  <2> HIDE DEF s
  <2> QED BY <1>3, <2>1, <2>2, <2>3 DEF NextPart
<1>5. \A b \in DOMAIN blobs : b \in BlobId /\ blobs[b].sha \in Sha
  BY DEF StoreTypeOK, IsTable, Blob
<1>6. CASE Orphans(j)
  <2> DEFINE old == {b \in DOMAIN blobs \cap aged : blobs[b].attached = None}
             shas == {blobs[b].sha : b \in old}
             t == [s EXCEPT !.at = "dropOrphans", !.ids = old, !.shas = shas]
  <2>1. req' = [req EXCEPT ![j] = IF old = {} THEN NextPart(s) ELSE t]
    BY <1>6 DEF Orphans
  <2>2. old \in SUBSET (MsgId \cup BlobId) /\ shas \in SUBSET Sha
    BY <1>5
  <2>3. t \in RetainJob /\ t.at = "dropOrphans"
    <3> HIDE DEF s, old, shas
    <3> QED BY <1>0, <2>2 DEF RetainJob
  <2> HIDE DEF s, t, old
  <2> QED BY <1>2, <1>3, <1>4, <2>1, <2>3
<1>7. CASE StillUsed(j)
  <2>1. PICK sha \in s.shas :
          req' = IF sha \notin ReferencedShas
                 THEN [req EXCEPT ![j].at = "exists", ![j].now = sha,
                                  ![j].shas = s.shas \ {sha}]
                 ELSE [req EXCEPT ![j] = IF s.shas \ {sha} = {} THEN NextPart(@)
                                         ELSE [@ EXCEPT !.shas = s.shas \ {sha}]]
    BY <1>7 DEF StillUsed
  <2> DEFINE t == [s EXCEPT !.at = "exists", !.now = sha, !.shas = s.shas \ {sha}]
             u == [s EXCEPT !.shas = s.shas \ {sha}]
  <2>2. s.at = "used"
    BY <1>7 DEF StillUsed, At
  <2>3. t \in RetainJob /\ t.at = "exists" /\ u \in RetainJob /\ u.at = "used"
    BY <1>0, <2>2 DEF RetainJob
  <2>4. \/ req' = [req EXCEPT ![j] = t]
        \/ req' = [req EXCEPT ![j] = IF s.shas \ {sha} = {} THEN NextPart(s) ELSE u]
    BY <2>1
  <2> HIDE DEF s, t, u
  <2> QED BY <1>2, <1>3, <1>4, <2>3, <2>4
<1>8. CASE Doomed(j)
  <2> DEFINE old == DOMAIN messages \cap aged
             t == [s EXCEPT !.at = "shas", !.ids = old, !.days = FALSE]
  <2>1. req' = [req EXCEPT ![j] = IF old = {} THEN Idle ELSE t]
    BY <1>8 DEF Doomed
  <2>2. t.op = "retain" /\ t.at = "shas" /\ t.ids = old
    BY <1>0 DEF RetainJob
  <2>3. old \subseteq aged \cap DOMAIN asked
    BY DEF Rows, MessagesAsked
  <2>4. Known(t)
    <3> HIDE DEF s, t, old
    <3> QED BY <2>2, <2>3 DEF Known, GateKnown, SendKnown, RetainKnown
  <2> HIDE DEF s, t, old
  <2> QED BY <1>2, <1>4, <2>1, <2>4
<1>9. CASE DoomedShas(j)
  <2> DEFINE t == [s EXCEPT !.at = "blobs",
                            !.shas = {blobs[b].sha : b \in AttachmentsOf(s.ids)}]
  <2>1. req' = [req EXCEPT ![j] = t]
    BY <1>9 DEF DoomedShas
  <2>2. t.op = "retain" /\ t.at = "blobs" /\ t.ids = s.ids
    BY <1>0 DEF RetainJob
  <2>3. s.ids \subseteq aged \cap DOMAIN asked
    BY <1>9 DEF DoomedShas, At, Knowing, Known, RetainKnown
  <2>4. Known(t)
    <3> HIDE DEF s, t
    <3> QED BY <2>2, <2>3 DEF Known, GateKnown, SendKnown, RetainKnown
  <2> HIDE DEF s, t
  <2> QED BY <1>2, <2>1, <2>4
<1>10. CASE FileExists(j)
  <2> DEFINE t == [s EXCEPT !.at = "unlink"]
             u == [s EXCEPT !.at = "used"]
  <2>1. req' = [req EXCEPT ![j] = IF files[s.now] = "absent" THEN NextFile(s) ELSE t]
    BY <1>10 DEF FileExists
  <2>2. t \in RetainJob /\ t.at = "unlink" /\ u \in RetainJob /\ u.at = "used"
    BY <1>0 DEF RetainJob
  <2>3. NextFile(s) \in {NextPart(s), u}
    BY DEF NextFile
  <2> HIDE DEF s, t, u
  <2> QED BY <1>2, <1>3, <1>4, <2>1, <2>2, <2>3
<1> QED BY <1>6, <1>7, <1>8, <1>9, <1>10

\* Its unlink concerns no row.
LEMMA UnlinkKeeps ==
  ASSUME StoreTypeOK, Rows, Knowing, NEW j \in Job, Unlink(j)
  PROVE  Rows' /\ Legal /\ Knowing'
<1> DEFINE s == req[j]
           next == IF files[s.now] = "absent" THEN Idle ELSE NextFile(s)
<1>1. Rows' /\ Legal
  BY ReadsKeep DEF Unlink, unmoved, data
<1>2. s \in RetainJob
  BY RequestKinds DEF Unlink, At, StoreTypeOK
<1>3. Known(next)
  <2>1. s.shas # {} => \/ (next.op = "retain" /\ next.at = "used")
                        \/ next.op = "idle"
    BY <1>2 DEF RetainJob, NextFile, Idle
  <2>2. s.shas = {} /\ s.days => \/ (next.op = "retain" /\ next.at = "doomed")
                                  \/ next.op = "idle"
    BY <1>2 DEF RetainJob, NextPart, NextFile, Idle
  <2>3. s.shas = {} /\ ~s.days => next.op = "idle"
    BY DEF NextPart, NextFile, Idle
  <2> HIDE DEF s, next
  <2> QED BY <2>1, <2>2, <2>3 DEF Known, GateKnown, SendKnown, RetainKnown
<1>4. ASSUME NEW q \in Job PROVE Known(req[q])'
  <2>1. CASE q = j
    <3>1. req'[q] = next
      BY <2>1 DEF Unlink
    <3> HIDE DEF next
    <3> QED BY <1>1, <1>3, <3>1, Lasts DEF Legal
  <2>2. CASE q # j /\ At(q, "inline", "write") /\ req[q].sha = s.now
    <3>1. req'[q] = [req[q] EXCEPT !.at = "insert"] /\ req[q] \in UploadJob
      BY <2>2, RequestKinds DEF Unlink, At, StoreTypeOK
    <3>2. [req[q] EXCEPT !.at = "insert"].op \in {"upload", "inline"}
      BY <3>1 DEF UploadJob
    <3>3. Known([req[q] EXCEPT !.at = "insert"])
      BY <3>2, NothingToKnow
    <3> QED BY <1>1, <3>1, <3>3, Lasts DEF Legal
  <2>3. CASE q # j /\ ~(At(q, "inline", "write") /\ req[q].sha = s.now)
    <3>1. req'[q] = req[q] /\ Known(req[q])
      BY <2>3 DEF Unlink, Knowing
    <3> QED BY <1>1, <3>1, Lasts DEF Legal
  <2> QED BY <2>1, <2>2, <2>3
<1> QED BY <1>1, <1>4 DEF Knowing

\* The DELETEs of retention, in the order that keeps every row's owner.
LEMMA RetainWritesKeep ==
  ASSUME StoreTypeOK, Rows, Knowing, NEW j \in Job,
         \/ DropOrphans(j) \/ DropBlobs(j) \/ DropDeliveries(j)
         \/ DropEvents(j) \/ DropMessages(j)
  PROVE  Rows' /\ Legal /\ Knowing'
<1> DEFINE s == req[j]
<1>0. s \in RetainJob
  BY RequestKinds DEF DropOrphans, DropBlobs, DropDeliveries, DropEvents, DropMessages,
     At, StoreTypeOK
<1>1. UNCHANGED <<revoked, sessions, lastSeq, cursor, aged, asked, uploaded>>
  BY DEF DropOrphans, DropBlobs, DropDeliveries, DropEvents, DropMessages, unmoved
<1>2. RetainKnown(s)
  BY DEF Knowing, Known
<1>3. \A at : LET t == [s EXCEPT !.at = at]
              IN t.op = "retain" /\ t.at = at /\ t.ids = s.ids
  BY <1>0 DEF RetainJob
<1>4. CASE DropOrphans(j) \/ DropBlobs(j)
  <2>1. UNCHANGED <<messages, deliveries, events>>
    BY <1>4 DEF DropOrphans, DropBlobs
  <2>2. \A b \in DOMAIN blobs' : b \in DOMAIN blobs /\ blobs'[b] = blobs[b]
    BY <1>4 DEF DropOrphans, DropBlobs, Drop, Restrict
  <2>3. Legal
    BY <1>1, <2>1, <2>2 DEF Legal, Lasting, Ahead, Forgets
  <2>4. (Numbered /\ MessagesAsked /\ DeliveriesAsked /\ BlobsUploaded /\ Arrived)'
    BY <1>1, <2>1, <2>2 DEF Rows, Numbered, MessagesAsked, DeliveriesAsked, BlobsUploaded,
                            Arrived
  <2>5. (LabelDeclared /\ OwnAttachments /\ MailAnnounced)'
    BY <1>1, <2>1, <2>2 DEF Rows, LabelDeclared, OwnAttachments, MailAnnounced,
                            AttachedTo, Announced
  <2>6. PICK at \in {"used", "deliveries"} :
           /\ Goto(j, at)
           /\ at = "deliveries" => s.ids \subseteq aged \cap DOMAIN asked
    BY <1>2, <1>4 DEF DropOrphans, DropBlobs, At, RetainKnown
  <2>7. Known([s EXCEPT !.at = at])
    BY <1>3, <2>6 DEF Known, GateKnown, SendKnown, RetainKnown
  <2>8. Knowing'
    BY <2>3, <2>6, <2>7, HandlersKnow DEF Goto, Legal
  <2> QED BY <2>3, <2>4, <2>5, <2>8 DEF Rows
<1>5. CASE DropDeliveries(j)
  <2>1. UNCHANGED <<messages, blobs, events>> /\ Goto(j, "events")
    BY <1>5 DEF DropDeliveries
  <2>2. s.ids \subseteq aged \cap DOMAIN asked
    BY <1>2, <1>5 DEF DropDeliveries, At, RetainKnown
  <2>3. /\ \A k \in DOMAIN deliveries' :
             k \in DOMAIN deliveries /\ deliveries'[k] = deliveries[k] /\ k[1] \notin s.ids
        /\ \A k \in DOMAIN deliveries : k \in DOMAIN deliveries' \/ k[1] \in s.ids
    BY <1>5 DEF DropDeliveries, DeliveriesOf, Drop, Restrict
  <2>4. Legal
    BY <1>1, <2>1, <2>3 DEF Legal, Lasting, Ahead, Forgets
  <2>5. (Numbered /\ MessagesAsked /\ DeliveriesAsked /\ BlobsUploaded)'
    BY <1>1, <2>1, <2>3 DEF Rows, Numbered, MessagesAsked, DeliveriesAsked, BlobsUploaded
  <2>6. Arrived'
    BY <1>1, <2>1, <2>2, <2>3 DEF Rows, Arrived
  <2>7. (LabelDeclared /\ OwnAttachments /\ MailAnnounced)'
    BY <1>1, <2>1, <2>3 DEF Rows, LabelDeclared, OwnAttachments, MailAnnounced,
                            AttachedTo, Announced
  <2>8. Knowing'
    <3>1. ASSUME NEW q \in Job PROVE Known(req[q])'
      <4>1. CASE q # j
        <5>1. req'[q] = req[q] /\ Known(req[q])
          BY <2>1, <4>1 DEF Goto, Knowing, StoreTypeOK
        <5> QED BY <2>4, <5>1, Lasts DEF Legal
      <4>2. CASE q = j
        <5>1. req'[q] = [s EXCEPT !.at = "events"]
          BY <2>1, <4>2 DEF Goto, StoreTypeOK
        <5>2. req'[q].op = "retain" /\ req'[q].ids = s.ids
          BY <1>3, <5>1
        <5> HIDE DEF s
        <5> QED BY <1>1, <2>2, <2>3, <5>2 DEF Known, GateKnown, SendKnown, RetainKnown
      <4> QED BY <4>1, <4>2
    <3> QED BY <3>1 DEF Knowing
  <2> QED BY <2>4, <2>5, <2>6, <2>7, <2>8 DEF Rows
<1>6. CASE DropEvents(j)
  <2>1. UNCHANGED <<messages, blobs, deliveries>> /\ Goto(j, "messages")
    BY <1>6 DEF DropEvents
  <2>2. /\ s.ids \subseteq aged \cap DOMAIN asked
        /\ \A k \in DOMAIN deliveries : k[1] \notin s.ids
    BY <1>2, <1>6 DEF DropEvents, At, RetainKnown
  <2>3. /\ DOMAIN events' \subseteq DOMAIN events
        /\ \A i \in DOMAIN events :
             events[i].msg \in s.ids \/ (i \in DOMAIN events' /\ events'[i] = events[i])
    BY <1>6 DEF DropEvents, Drop, Restrict
  <2>4. Legal
    BY <1>1, <2>1, <2>3 DEF Legal, Lasting, Ahead, Forgets
  <2>5. (Numbered /\ MessagesAsked /\ DeliveriesAsked /\ BlobsUploaded /\ Arrived)'
    BY <1>1, <2>1, <2>3 DEF Rows, Numbered, MessagesAsked, DeliveriesAsked, BlobsUploaded,
                            Arrived
  <2>6. (LabelDeclared /\ OwnAttachments)'
    BY <1>1, <2>1 DEF Rows, LabelDeclared, OwnAttachments, AttachedTo
  <2>7. MailAnnounced'
    <3>1. ASSUME NEW k \in DOMAIN deliveries, k[2] \notin revoked
          PROVE  \E i \in DOMAIN events' :
                   events'[i] = [chat |-> k[2], type |-> "message.received", msg |-> k[1]]
      <4>1. PICK i \in DOMAIN events :
              events[i] = [chat |-> k[2], type |-> "message.received", msg |-> k[1]]
        BY <3>1 DEF Rows, MailAnnounced, Announced
      <4> QED BY <2>2, <2>3, <4>1
    <3> QED BY <1>1, <2>1, <3>1 DEF MailAnnounced, Announced
  <2>8. Known([s EXCEPT !.at = "messages"])
    BY <1>3, <2>2 DEF Known, GateKnown, SendKnown, RetainKnown
  <2>9. Knowing'
    BY <2>1, <2>4, <2>8, HandlersKnow DEF Goto, Legal
  <2> QED BY <2>4, <2>5, <2>6, <2>7, <2>9 DEF Rows
<1>7. CASE DropMessages(j)
  <2>1. /\ UNCHANGED <<events, blobs, deliveries>>
        /\ req' = [req EXCEPT ![j] = IF s.shas = {} THEN Idle ELSE [s EXCEPT !.at = "used"]]
    BY <1>7 DEF DropMessages
  <2>2. /\ s.ids \subseteq aged \cap DOMAIN asked
        /\ \A k \in DOMAIN deliveries : k[1] \notin s.ids
    BY <1>2, <1>7 DEF DropMessages, At, RetainKnown
  <2>3. DOMAIN messages' = DOMAIN messages \ s.ids
        /\ \A m \in DOMAIN messages' : messages'[m] = messages[m]
    BY <1>7 DEF DropMessages, Drop, Restrict
  <2>4. Legal
    BY <1>1, <2>1, <2>2, <2>3 DEF Legal, Lasting, Ahead, Forgets
  <2>5. (Numbered /\ MessagesAsked /\ DeliveriesAsked /\ BlobsUploaded /\ Arrived)'
    BY <1>1, <2>1, <2>2, <2>3 DEF Rows, Numbered, MessagesAsked, DeliveriesAsked,
                                  BlobsUploaded, Arrived
  <2>6. (LabelDeclared /\ OwnAttachments /\ MailAnnounced)'
    BY <1>1, <2>1, <2>3 DEF Rows, LabelDeclared, OwnAttachments, AttachedTo,
                            MailAnnounced, Announced
  <2>7. Known(Idle) /\ Known([s EXCEPT !.at = "used"])
    BY <1>3 DEF Idle, Known, GateKnown, SendKnown, RetainKnown
  <2>8. Knowing'
    <3> HIDE DEF s
    <3> QED BY <2>1, <2>4, <2>7, HandlersKnow DEF Legal
  <2> QED BY <2>4, <2>5, <2>6, <2>8 DEF Rows
<1> QED BY <1>4, <1>5, <1>6, <1>7

\* Garbage collection: revoked boxes first, what is left of nobody after.
LEMMA GcKeeps ==
  ASSUME StoreTypeOK, Rows, Knowing, NEW r \in Thread, GcStep(r)
  PROVE  Rows' /\ Legal /\ Knowing'
<1>0. r \in Job /\ req[r] \in GcJob
  <2>1. r \in Job
    BY DEF Job
  <2> QED BY <2>1, RequestKinds DEF GcStep, GcDeliveries, GcMessages, GcEvents, At,
                                    StoreTypeOK
<1>1. UNCHANGED <<revoked, sessions, lastSeq, cursor, blobs, aged, asked, uploaded>>
  BY DEF GcStep, GcDeliveries, GcMessages, GcEvents, unmoved
<1>2. CASE GcDeliveries(r)
  <2>1. UNCHANGED <<messages, events>> /\ Goto(r, "messages")
    BY <1>2 DEF GcDeliveries
  <2>2. /\ \A k \in DOMAIN deliveries' :
             k \in DOMAIN deliveries /\ deliveries'[k] = deliveries[k]
        /\ \A k \in DOMAIN deliveries : k \in DOMAIN deliveries' \/ k[2] \in revoked
    BY <1>2 DEF GcDeliveries, InRevokedBoxes, Drop, Restrict
  <2>3. Legal
    BY <1>1, <2>1, <2>2 DEF Legal, Lasting, Ahead, Forgets
  <2>4. (Numbered /\ MessagesAsked /\ DeliveriesAsked /\ BlobsUploaded)'
    BY <1>1, <2>1, <2>2 DEF Rows, Numbered, MessagesAsked, DeliveriesAsked, BlobsUploaded
  <2>5. Arrived'
    BY <1>1, <2>1, <2>2 DEF Rows, Arrived
  <2>6. (LabelDeclared /\ OwnAttachments /\ MailAnnounced)'
    BY <1>1, <2>1, <2>2 DEF Rows, LabelDeclared, OwnAttachments, AttachedTo,
                            MailAnnounced, Announced
  <2> QED BY <1>0, <2>1, <2>3, <2>4, <2>5, <2>6, GoesOn DEF Rows, Legal
<1>3. CASE GcMessages(r)
  <2>1. UNCHANGED <<deliveries, events>> /\ Goto(r, "events")
    BY <1>3 DEF GcMessages
  <2>2. DOMAIN messages' = DOMAIN messages \ Abandoned
        /\ \A m \in DOMAIN messages' : messages'[m] = messages[m]
    BY <1>3 DEF GcMessages, Drop, Restrict
  <2>3. \A k \in DOMAIN deliveries : k[1] \notin Abandoned
    <3>1. \A k \in DOMAIN deliveries : k[2] \in Chat /\ k = <<k[1], k[2]>>
      BY DEF StoreTypeOK, IsTable
    <3> QED BY <3>1 DEF Abandoned, Recipients
  <2>4. ASSUME NEW m \in Abandoned
        PROVE  m \in aged \/ asked[m].to \cup {asked[m].from} \subseteq revoked
    <3>1. m \in DOMAIN messages /\ asked[m].from \in revoked /\ asked[m].to \subseteq Chat
      BY DEF Abandoned, Rows, MessagesAsked, StoreTypeOK, IsTable, Asked
    <3>2. \A c \in asked[m].to : c \in revoked \/ m \in aged
      BY <3>1 DEF Abandoned, Recipients, Rows, Arrived
    <3> QED BY <3>1, <3>2
  <2>5. Legal
    BY <1>1, <2>1, <2>2, <2>4 DEF Legal, Lasting, Ahead, Forgets
  <2>6. (Numbered /\ MessagesAsked /\ DeliveriesAsked /\ BlobsUploaded /\ Arrived)'
    BY <1>1, <2>1, <2>2, <2>3 DEF Rows, Numbered, MessagesAsked, DeliveriesAsked,
                                  BlobsUploaded, Arrived
  <2>7. (LabelDeclared /\ OwnAttachments /\ MailAnnounced)'
    BY <1>1, <2>1, <2>2 DEF Rows, LabelDeclared, OwnAttachments, AttachedTo,
                            MailAnnounced, Announced
  <2> QED BY <1>0, <2>1, <2>5, <2>6, <2>7, GoesOn DEF Rows, Legal
<1>4. CASE GcEvents(r)
  <2>1. UNCHANGED <<messages, deliveries>> /\ Answer(r)
    BY <1>4 DEF GcEvents
  <2>2. /\ DOMAIN events' \subseteq DOMAIN events
        /\ \A i \in DOMAIN events :
             events[i].chat \in revoked \/ (i \in DOMAIN events' /\ events'[i] = events[i])
    BY <1>4 DEF GcEvents, Drop, Restrict
  <2>3. Legal
    BY <1>1, <2>1, <2>2 DEF Legal, Lasting, Ahead, Forgets
  <2>4. (Numbered /\ MessagesAsked /\ DeliveriesAsked /\ BlobsUploaded /\ Arrived)'
    BY <1>1, <2>1, <2>2 DEF Rows, Numbered, MessagesAsked, DeliveriesAsked,
                            BlobsUploaded, Arrived
  <2>5. (LabelDeclared /\ OwnAttachments)'
    BY <1>1, <2>1 DEF Rows, LabelDeclared, OwnAttachments, AttachedTo
  <2>6. MailAnnounced'
    <3>1. ASSUME NEW k \in DOMAIN deliveries, k[2] \notin revoked
          PROVE  \E i \in DOMAIN events' :
                   events'[i] = [chat |-> k[2], type |-> "message.received", msg |-> k[1]]
      <4>1. PICK i \in DOMAIN events :
              events[i] = [chat |-> k[2], type |-> "message.received", msg |-> k[1]]
        BY <3>1 DEF Rows, MailAnnounced, Announced
      <4> QED BY <2>2, <3>1, <4>1
    <3> QED BY <1>1, <2>1, <3>1 DEF MailAnnounced, Announced
  <2> QED BY <1>0, <2>1, <2>3, <2>4, <2>5, <2>6, Answered DEF Rows, Legal
<1> QED BY <1>2, <1>3, <1>4 DEF GcStep

-----------------------------------------------------------------------------
(* The instance                                                            *)

LEMMA InvInit == Init => Inv
<1> SUFFICES ASSUME Init PROVE Inv
  OBVIOUS
<1>1. TypeOK
  BY InitType
<1>2. (Numbered /\ MessagesAsked /\ DeliveriesAsked /\ BlobsUploaded /\ Arrived)
  BY DEF Init, Numbered, MessagesAsked, DeliveriesAsked, BlobsUploaded, Arrived
<1>3. LabelDeclared /\ OwnAttachments /\ MailAnnounced
  BY DEF Init, LabelDeclared, OwnAttachments, MailAnnounced
<1>4. Knowing
  <2>1. Known(Idle)
    BY NothingToKnow DEF Idle
  <2> QED BY <2>1 DEF Init, Knowing
<1> QED BY <1>1, <1>2, <1>3, <1>4 DEF Inv, Rows

\* Every step of the instance keeps what the tables and the handlers keep, and
\* does nothing a step may never do.
LEMMA StepKeeps == Inv /\ [Next]_vars => Inv' /\ Legal
<1> SUFFICES ASSUME Inv, [Next]_vars PROVE Inv' /\ Legal
  OBVIOUS
<1>0. TypeOK' /\ StoreTypeOK /\ Rows /\ Knowing
  BY NextType DEF Inv, TypeOK
<1>1. ASSUME NEW r \in Thread, Begin(r) PROVE Rows' /\ Legal /\ Knowing'
  <2>1. CASE RevokeChat(r)
    BY <1>0, <2>1, IdentityKeeps
  <2>2. CASE PeerBegin(r) \/ RetainBegin(r) \/ GcBegin(r)
    BY <1>0, <2>2, BeginKeeps
  <2>3. CASE \E c \in Chat : \/ SendBegin(r, c) \/ ReadBegin(r, c) \/ ArchiveBegin(r, c)
                             \/ WithdrawBegin(r, c) \/ UploadBegin(r, c)
                             \/ DownloadBegin(r, c) \/ SessionBegin(r, c)
    BY <1>0, <2>3, BeginKeeps
  <2> QED BY <1>1, <2>1, <2>2, <2>3 DEF Begin
<1>2. ASSUME NEW j \in Job, RetainStep(j) PROVE Rows' /\ Legal /\ Knowing'
  BY <1>0, <1>2, RetainReadsKeep, RetainWritesKeep, UnlinkKeeps DEF RetainStep
<1>3. ASSUME NEW r \in Thread, Step(r) PROVE Rows' /\ Legal /\ Knowing'
  <2>1. CASE SendStep(r)
    BY <1>0, <2>1, SendReadsKeep, SendCommitKeeps, RecordRemoteKeeps, PeerCommitKeeps
       DEF SendStep
  <2>2. CASE ReadStep(r) \/ WithdrawStep(r) \/ AttachmentStep(r)
    BY <1>0, <2>2, ReadKeeps, WithdrawKeeps, AttachmentKeeps
  <2>3. CASE SessionStep(r) \/ GcStep(r)
    BY <1>0, <2>3, IdentityKeeps, GcKeeps
  <2>4. CASE RetainStep(r)
    BY <1>2, <2>4 DEF Job
  <2> QED BY <1>3, <2>1, <2>2, <2>3, <2>4 DEF Step
<1>4. ASSUME UNCHANGED vars PROVE Rows' /\ Legal /\ Knowing'
  <2>1. UNCHANGED data /\ req' = req
    BY <1>4 DEF vars, store, data
  <2>2. Rows' /\ Legal
    BY <1>0, <2>1, ReadsKeep
  <2>3. ASSUME NEW q \in Job PROVE Known(req[q])'
    <3>1. Known(req[q]) /\ req'[q] = req[q]
      BY <1>0, <2>1 DEF Knowing
    <3> QED BY <2>2, <3>1, Lasts DEF Legal
  <2> QED BY <2>2, <2>3 DEF Knowing
<1>5. ASSUME Work PROVE Rows' /\ Legal /\ Knowing'
  <2>1. CASE RetainStep(Main)
    BY <1>2, <2>1 DEF Job
  <2>2. CASE HoursPass \/ DaysPass \/ Crash
    BY <1>0, <2>2, TimeKeeps, CrashKeeps
  <2>3. CASE \E c \in Chat : Poll(c)
    BY <1>0, <2>3, PollKeeps
  <2> QED BY <1>3, <1>5, <2>1, <2>2, <2>3 DEF Work
<1>6. Rows' /\ Legal /\ Knowing'
  BY <1>1, <1>4, <1>5 DEF Next, Stop
<1> QED BY <1>0, <1>6 DEF Inv

LEMMA InvHolds == Spec => []Inv
BY InvInit, StepKeeps, PTL DEF Spec

\* Whatever runs between two statements of a handler, its content, its
\* attachments and its answers go to a party of the message alone.
THEOREM PartiesOnly == Spec => []Isolation
<1>1. Inv => Isolation
  <2> SUFFICES
        ASSUME Inv, NEW r \in Thread
        PROVE  /\ req[r].op \in {"read", "download"} /\ req[r].at # "lookup"
                    => Party(req[r].msg, req[r].by)
               /\ req[r].op = "send" /\ req[r].answers # None
                    => Party(req[r].parent, req[r].by)
    BY DEF Isolation
  <2>1. Known(req[r])
    BY DEF Inv, Knowing, Job
  <2> QED BY <2>1 DEF Known, GateKnown, SendKnown, Validated
<1> QED BY <1>1, InvHolds, PTL

\* An attachment goes out with a message of the chat that uploaded it, also
\* when two sends validate it at once.
THEOREM AttachmentsOfTheSender == Spec => []OwnAttachments
<1>1. Inv => OwnAttachments
  BY DEF Inv, Rows
<1> QED BY <1>1, InvHolds, PTL

\* Mail to a session carries a label its recipient declared, though the label
\* was looked up statements before the transaction.
THEOREM LabelsAreDeclared == Spec => []LabelDeclared
<1>1. Inv => LabelDeclared
  BY DEF Inv, Rows
<1> QED BY <1>1, InvHolds, PTL

\* Wherever cleaning stops, no delivery is left without its message.
THEOREM DeliveriesGoFirst == Spec => []NoStrandedDelivery
<1>1. Inv => NoStrandedDelivery
  BY DEF Inv, Rows, DeliveriesAsked, NoStrandedDelivery
<1> QED BY <1>1, InvHolds, PTL

\* The announcement of mail outlives everything but the mail itself and its
\* recipient's chat.
THEOREM MailIsAnnounced == Spec => []MailAnnounced
<1>1. Inv => MailAnnounced
  BY DEF Inv, Rows
<1> QED BY <1>1, InvHolds, PTL

\* No interleaving of sends, retention and garbage collection forgets a
\* message that is neither old nor without a chat left that it is for.
THEOREM NothingForgottenEarly == Spec => ForgottenForAReason
<1>1. Inv /\ [Next]_vars =>
        [\A m \in DOMAIN messages \ DOMAIN messages' :
           m \in aged \/ asked[m].to \cup {asked[m].from} \subseteq revoked]_vars
  BY StepKeeps DEF Legal, Forgets
<1> QED BY <1>1, InvHolds, PTL DEF Spec, ForgottenForAReason

\* Numbers of events are never used again, so no client's cursor is past a new
\* event, whatever has been deleted in between.
THEOREM CursorsAreBehind == Spec => NewEventsAreAhead
<1>1. Inv /\ [Next]_vars =>
        [\A i \in DOMAIN events' \ DOMAIN events : \A c \in Chat : cursor[c] < i]_vars
  <2> SUFFICES ASSUME Inv, [Next]_vars, NEW i \in DOMAIN events' \ DOMAIN events,
                      NEW c \in Chat
               PROVE  cursor[c] < i
    OBVIOUS
  <2>1. i > lastSeq /\ cursor[c] <= lastSeq
    BY StepKeeps DEF Legal, Ahead, Inv, Rows, Numbered
  <2>2. i \in Nat /\ lastSeq \in Nat /\ cursor[c] \in Nat
    <3>1. TypeOK /\ TypeOK'
      BY NextType DEF Inv
    <3> QED BY <3>1 DEF TypeOK, StoreTypeOK, IsTable
  <2> QED BY <2>1, <2>2
<1> QED BY <1>1, InvHolds, PTL DEF Spec, NewEventsAreAhead

\* A page is a first part of what is new: the client that moves to its last
\* event has been given every one before it.
LEMMA PagesAreComplete ==
  ASSUME StoreTypeOK, Numbered, NEW c \in Chat, NEW last \in Page(c),
         NEW i \in NewFor(c), i <= last
  PROVE  i \in Page(c)
<1> DEFINE upTo(n) == {k \in NewFor(c) : k <= n}
<1>1. lastSeq \in Nat /\ NewFor(c) \subseteq 1 .. lastSeq
  BY DEF StoreTypeOK, Numbered, NewFor
<1>2. last \in NewFor(c) /\ Cardinality(upTo(last)) <= PageSize
  BY DEF Page
<1>3. upTo(last) \subseteq 1 .. lastSeq /\ upTo(i) \subseteq upTo(last)
  BY <1>1, <1>2
<1>4. IsFiniteSet(upTo(last))
  <2>1. IsFiniteSet(1 .. lastSeq)
    BY <1>1, FS_Interval
  <2> HIDE DEF upTo
  <2> QED BY <1>3, <2>1, FS_Subset
<1>5. /\ Cardinality(upTo(i)) <= Cardinality(upTo(last))
      /\ Cardinality(upTo(i)) \in Nat /\ Cardinality(upTo(last)) \in Nat
  <2> HIDE DEF upTo
  <2> QED BY <1>3, <1>4, FS_Subset, FS_CardinalityType
<1>6. Cardinality(upTo(i)) <= PageSize
  <2> HIDE DEF upTo
  <2> QED BY <1>2, <1>5, EventsAssumption
<1> QED BY <1>6 DEF Page

\* Only the long poll moves a cursor, and never past an event of its chat that
\* was not in the page.
THEOREM PollsSkipNothing == Spec => NothingSkipped
<1>1. Inv /\ [Next]_vars =>
        [\A c \in Chat : \A i \in DOMAIN events :
           events[i].chat = c /\ cursor[c] < i /\ i <= cursor'[c] => i \in Page(c)]_vars
  <2> SUFFICES ASSUME Inv, [Next]_vars, NEW c \in Chat, NEW i \in DOMAIN events,
                      events[i].chat = c, cursor[c] < i, i <= cursor'[c]
               PROVE  i \in Page(c)
    OBVIOUS
  <2>1. StoreTypeOK /\ Numbered
    BY DEF Inv, TypeOK, Rows
  <2>2. i \in Nat /\ cursor[c] \in Nat
    BY <2>1 DEF StoreTypeOK, IsTable
  <2>3. cursor' # cursor
    BY <2>2
  <2>4. PICK d \in Chat : Poll(d)
    <3>1. ASSUME NEW r \in Thread, Begin(r) PROVE UNCHANGED cursor
      <4>1. \A x : SendBegin(r, x) \/ ReadBegin(r, x) \/ ArchiveBegin(r, x)
                    \/ WithdrawBegin(r, x) \/ PeerBegin(r) => UNCHANGED cursor
        BY DEF SendBegin, ReadBegin, ArchiveBegin, WithdrawBegin, PeerBegin, quiet
      <4>2. \A x : UploadBegin(r, x) \/ DownloadBegin(r, x) \/ SessionBegin(r, x)
                    \/ RetainBegin(r) \/ GcBegin(r) \/ RevokeChat(r) => UNCHANGED cursor
        BY DEF UploadBegin, DownloadBegin, SessionBegin, RetainBegin, GcBegin, RevokeChat,
               still, elsewhere, unmoved
      <4> QED BY <3>1, <4>1, <4>2 DEF Begin
    <3>2. \A r \in Thread : SendStep(r) => UNCHANGED cursor
      BY DEF SendStep, ResolveChat, ResolveLabel, ValidateBlob, SpeakAs, FindParent, Push,
             RecordRemote, SendRollback, SendCommit, PeerCommit, quiet
    <3>3. \A r \in Thread : ReadStep(r) => UNCHANGED cursor
      BY DEF ReadStep, ReadLookup, ReadUnread, ReadMark, ReadRank, ReadBump, ReadTell,
             ReadView, Archive, quiet
    <3>4. \A r \in Thread : WithdrawStep(r) => UNCHANGED cursor
      BY DEF WithdrawStep, WithdrawLookup, WithdrawUnread, WithdrawUpdate,
             WithdrawRecipients, WithdrawTell, quiet
    <3>5. \A r \in Thread : AttachmentStep(r) => UNCHANGED cursor
      BY DEF AttachmentStep, UploadExists, UploadReplace, InlineExists, InlineTruncate,
             InlineWrite, InsertBlob, DownloadLookup, DownloadBlob, DownloadOpen,
             DownloadServe, still
    <3>6. \A r \in Thread : SessionStep(r) => UNCHANGED cursor
      BY DEF SessionStep, OpenSelect, OpenReopen, OpenInsert, Close, elsewhere
    <3>7. \A j \in Job : RetainStep(j) => UNCHANGED cursor
      BY DEF RetainStep, Orphans, DropOrphans, StillUsed, FileExists, Unlink, Doomed,
             DoomedShas, DropBlobs, DropDeliveries, DropEvents, DropMessages, unmoved
    <3>8. \A r \in Thread : GcStep(r) => UNCHANGED cursor
      BY DEF GcStep, GcDeliveries, GcMessages, GcEvents, unmoved
    <3>9. HoursPass \/ DaysPass \/ Crash => UNCHANGED cursor
      BY DEF HoursPass, DaysPass, Crash, unmoved
    <3>10. UNCHANGED vars => UNCHANGED cursor
      BY DEF vars, store
    <3>11. \A r \in Thread : Step(r) => UNCHANGED cursor
      BY <3>2, <3>3, <3>4, <3>5, <3>6, <3>7, <3>8 DEF Step, Job
    <3> QED BY <2>3, <3>1, <3>7, <3>9, <3>10, <3>11 DEF Next, Stop, Work, Job
  <2>5. PICK last \in Page(d) : cursor' = [cursor EXCEPT ![d] = last]
    BY <2>4 DEF Poll
  <2>6. c = d /\ cursor'[c] = last
    BY <2>1, <2>2, <2>5 DEF StoreTypeOK
  <2>7. i \in NewFor(c)
    BY DEF NewFor
  <2> QED BY <2>1, <2>5, <2>6, <2>7, PagesAreComplete
<1> QED BY <1>1, InvHolds, PTL DEF Spec, NothingSkipped
=============================================================================
