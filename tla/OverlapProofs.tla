---------------------------- MODULE OverlapProofs ----------------------------
(***************************************************************************)
(* Theorems about the promises an Instance keeps while requests run beside *)
(* each other, for every value of its constants: which ones hold whatever  *)
(* overlaps, and which ones need two operations to wait for each other.    *)
(***************************************************************************)
EXTENDS InstanceProofs

USE StoreAssumption

-----------------------------------------------------------------------------
(* Requests beside each other.                                             *)

\* Operations a and b are never in flight together: the clients see to it, or
\* never call one of them, or a single thread serves them all.
TakeTurns(a, b) ==
  \/ {a, b} \in Apart
  \/ a \notin Workload \/ b \notin Workload
  \/ \A q, r \in Thread : q = r

Free(j) == req[j].op = "idle"

\* Nothing is served during the start, which only cleans; and what is in
\* flight was called by a client that keeps apart what is to be apart.
Orderly ==
  /\ boots >= 1
  /\ req[Main].op \in {"idle", "retain"}
  /\ Free(Main) \/ \A r \in Thread : Free(r)
  /\ \A r \in Thread : Free(r) \/ req[r].op \in Workload
  /\ \A q, r \in Thread :
       q = r \/ Free(q) \/ Free(r) \/ {req[q].op, req[r].op} \notin Apart

-----------------------------------------------------------------------------
(* What a handler relies on between two statements besides what it knows   *)
(* in InstanceProofs, some of it only when others wait for their turn.     *)

OwnKey(s) == <<s.msg, s.by>>

\* The row held has the message's sender, and a receipt follows its status.
ReceiptHeld(s) ==
  s.op = "read" =>
    /\ s.at # "lookup" => s.row.from = asked[s.msg].from
    /\ s.at = "tell" /\ OwnKey(s) \in DOMAIN deliveries
         => deliveries[OwnKey(s)].status # "delivered"

\* The status found low is still low.
StillLow(s) ==
  TakeTurns("read", "send") /\ s.op = "read" /\ s.at = "bump"
      /\ OwnKey(s) \in DOMAIN deliveries
    => deliveries[OwnKey(s)].status \in {"delivered", "read"}

\* The message found unread is still unread.
StillUnread(s) ==
  TakeTurns("read", "unsend") /\ TakeTurns("read", "edit")
      /\ s.op \in {"unsend", "edit"} /\ s.at = "update"
    => ReadBy(s.msg) = {}

\* The attachments of what is being forgotten went first.
Detached(s) ==
  s.op = "retain" /\ s.at \in {"deliveries", "events", "messages"} =>
    \A b \in DOMAIN blobs : blobs[b].attached \notin s.ids

\* Uploads write complete files, and no cleaning runs beside them.
BytesAreSafe == "inline" \notin Workload /\ TakeTurns("upload", "retain")

\* The bytes found stored are still there, those found unused still unused.
StillStored(s) ==
  BytesAreSafe =>
    /\ s.op = "download" /\ s.at \in {"open", "serve"} => s.sha \in Sha
    /\ s.op = "upload" /\ s.at = "insert" => files[s.sha] = "whole"
    /\ s.op = "retain" /\ s.at \in {"exists", "unlink"} => s.now \notin ReferencedShas
    /\ TakeTurns("download", "retain") /\ s.op = "download" /\ s.at = "serve"
         => files[s.sha] = "whole"

Relies(s) ==
  /\ ReceiptHeld(s) /\ StillLow(s) /\ StillUnread(s) /\ Detached(s) /\ StillStored(s)

Relying == \A q \in Job : Relies(req[q])

-----------------------------------------------------------------------------
(* What the tables keep.                                                   *)

\* Every row has its bytes.
StoredWhole ==
  BytesAreSafe =>
    /\ \A sha \in Sha : files[sha] # "partial"
    /\ \A b \in DOMAIN blobs : files[blobs[b].sha] = "whole"

\* The start goes through the old messages again, whatever a crash has left.
BeingResumed(m) ==
  /\ m \in aged /\ req[Main].op = "retain"
  /\ \/ req[Main].days /\ req[Main].at \in {"orphans", "dropOrphans", "used", "exists",
                                            "unlink", "doomed"}
     \/ req[Main].at \in {"shas", "blobs"} /\ m \in req[Main].ids

Going(m) == BeingForgotten(m) \/ BeingResumed(m)

Complete(m) ==
  /\ AttachedTo(m) = asked[m].want
  /\ asked[m].to \ revoked \subseteq Recipients(m)

\* Cleaning that is cut short is taken up again, if a window is configured.
Resumes == Window \/ boots = 1

AllOrNothing == Resumes => \A m \in DOMAIN messages : Complete(m) \/ Going(m)

\* The read of delivery k that has yet to see to its status, to its receipt.
Marking(s, k) == s.op = "read" /\ OwnKey(s) = k /\ s.at \in {"rank", "bump"}
Receipting(s, k) == s.op = "read" /\ OwnKey(s) = k /\ s.at \in {"rank", "bump", "tell"}

Receipts ==
  \A k \in DOMAIN deliveries : deliveries[k].read =>
    /\ deliveries[k].status # "delivered" \/ \E r \in Thread : Marking(req[r], k)
    /\ asked[k[1]].from \in Chat \ revoked =>
         \/ Announced(asked[k[1]].from, "message.read", k[1])
         \/ \E r \in Thread : Receipting(req[r], k)

\* The withdrawal that has yet to tell the recipient of delivery k.
Telling(s, op, k) ==
  /\ s.op = op /\ s.msg = k[1]
  /\ s.at = "recipients" \/ (s.at = "tell" /\ k[2] \in s.tell)

Withdrawals ==
  \A k \in DOMAIN deliveries : k[2] \notin revoked =>
    /\ messages[k[1]].recalled =>
         \/ Announced(k[2], "message.recalled", k[1])
         \/ \E r \in Thread : Telling(req[r], "unsend", k)
    /\ messages[k[1]].body = "edited" =>
         \/ Announced(k[2], "message.edited", k[1])
         \/ \E r \in Thread : Telling(req[r], "edit", k)

Promises ==
  /\ StoredWhole /\ NoStrandedAttachment /\ AllOrNothing
  /\ boots = 1 => Receipts /\ Withdrawals

\* The statements of a cleaning that are not about old messages.
AboutUploads == {"orphans", "dropOrphans", "used", "exists", "unlink"}

\* The start is the only one to unlink, and goes on: through all the old
\* messages, if a window is configured.
StartsOver ==
  req[Main].op = "retain" =>
    /\ req[Main].at = "unlink" => files[req[Main].now] # "absent"
    /\ ~Window => ~req[Main].days /\ req[Main].at \in AboutUploads
    /\ Window =>
         \/ req[Main].days /\ req[Main].at \in AboutUploads \cup {"doomed"}
         \/ /\ req[Main].at \in {"shas", "blobs", "deliveries", "events", "messages"}
            /\ DOMAIN messages \cap aged \subseteq req[Main].ids
         \/ /\ ~req[Main].days /\ req[Main].at \in {"used", "exists", "unlink"}
            /\ DOMAIN messages \cap aged = {}

Care == Orderly /\ StartsOver /\ Relying /\ Promises

-----------------------------------------------------------------------------
(* How handlers move.                                                      *)

\* Handler j goes on with its operation, or answers; the others stay.
Moves(j) ==
  /\ req'[j].op \in {req[j].op, "idle"}
  /\ \A q \in Job \ {j} : req'[q] = req[q]

\* A handler that holds something it has read, or has still to see to.
Engaged(s) ==
  \/ s.op \in {"read", "unsend", "edit", "download"} /\ s.at # "lookup"
  \/ s.op = "retain" /\ s.at # "orphans"
  \/ s.op \in {"upload", "inline"} /\ s.at # "exists"
  \/ s.op = "send" /\ s.at # "resolve"

\* A request is taken up, by a thread that is free, at its first statement.
Begun(r) ==
  \E s \in Request :
    /\ req[Main].op = "idle" /\ req[r].op = "idle"
    /\ s.op \in Workload /\ s.op # "idle" /\ ~Engaged(s)
    /\ \A q \in Thread : {s.op, req[q].op} \notin Apart
    /\ req' = [req EXCEPT ![r] = s]

\* A handler that has answered is the one of no operation.
LEMMA FreeIsIdle ==
  ASSUME NEW s \in Request
  PROVE  s.op = "idle" <=> s = Idle
BY DEF Request, Idle, SendJob, ReadJob, WithdrawJob, ArchiveJob, PeerJob,
       UploadJob, DownloadJob, SessionJob, RetainJob, GcJob

\* A handler moves within its operation.
LEMMA OpStays ==
  ASSUME NEW s \in Request
  PROVE  \A at : [s EXCEPT !.at = at].op = s.op
<1>1. "op" \in DOMAIN s
  BY DEF Request, Idle, SendJob, ReadJob, WithdrawJob, ArchiveJob, PeerJob,
         UploadJob, DownloadJob, SessionJob, RetainJob, GcJob
<1> QED BY <1>1

LEMMA OneGoesOn ==
  ASSUME StoreTypeOK, NEW j \in Job, NEW s, req' = [req EXCEPT ![j] = s],
         s.op \in {req[j].op, "idle"}
  PROVE  Moves(j)
BY DEF StoreTypeOK, Moves

LEMMA OneAnswers ==
  ASSUME StoreTypeOK, NEW j \in Job, Answer(j)
  PROVE  Moves(j)
<1>1. Idle.op = "idle"
  BY DEF Idle
<1> QED BY <1>1, OneGoesOn DEF Answer

LEMMA OneMoves ==
  ASSUME StoreTypeOK, NEW j \in Job, NEW at, Goto(j, at)
  PROVE  Moves(j)
<1>1. [req[j] EXCEPT !.at = at].op = req[j].op
  BY OpStays DEF StoreTypeOK
<1> QED BY <1>1, OneGoesOn DEF Goto

\* Each statement is one of its operations.
LEMMA StepOps ==
  ASSUME NEW r
  PROVE  /\ SendStep(r) => req[r].op \in {"send", "peer"}
         /\ ReadStep(r) => req[r].op \in {"read", "archive"}
         /\ WithdrawStep(r) => req[r].op \in {"unsend", "edit"}
         /\ AttachmentStep(r) => req[r].op \in {"upload", "inline", "download"}
         /\ SessionStep(r) => req[r].op \in {"open", "close"}
         /\ RetainStep(r) => req[r].op = "retain"
         /\ GcStep(r) => req[r].op = "gc"
<1>1. SendStep(r) => req[r].op \in {"send", "peer"}
  BY DEF SendStep, ResolveChat, ResolveLabel, ValidateBlob, SpeakAs, FindParent, Push,
         RecordRemote, SendRollback, SendCommit, PeerCommit, At
<1>2. ReadStep(r) => req[r].op \in {"read", "archive"}
  BY DEF ReadStep, ReadLookup, ReadUnread, ReadMark, ReadRank, ReadBump, ReadTell,
         ReadView, Archive, At
<1>3. WithdrawStep(r) => req[r].op \in {"unsend", "edit"}
  BY DEF WithdrawStep, WithdrawLookup, WithdrawUnread, WithdrawUpdate,
         WithdrawRecipients, WithdrawTell, Withdrawing, At
<1>4. AttachmentStep(r) => req[r].op \in {"upload", "inline", "download"}
  BY DEF AttachmentStep, UploadExists, UploadReplace, InlineExists, InlineTruncate,
         InlineWrite, InsertBlob, DownloadLookup, DownloadBlob, DownloadOpen,
         DownloadServe, Uploading, At
<1>5. SessionStep(r) => req[r].op \in {"open", "close"}
  BY DEF SessionStep, OpenSelect, OpenReopen, OpenInsert, Close, At
<1>6. RetainStep(r) => req[r].op = "retain"
  BY DEF RetainStep, Orphans, DropOrphans, StillUsed, FileExists, Unlink, Doomed,
         DoomedShas, DropBlobs, DropDeliveries, DropEvents, DropMessages, At
<1>7. GcStep(r) => req[r].op = "gc"
  BY DEF GcStep, GcDeliveries, GcMessages, GcEvents, At
<1> QED BY <1>1, <1>2, <1>3, <1>4, <1>5, <1>6, <1>7

-----------------------------------------------------------------------------
(* A statement moves its own handler.                                      *)

LEMMA SendMoves ==
  ASSUME StoreTypeOK, NEW r \in Thread, SendStep(r)
  PROVE  Moves(r)
<1>0. r \in Job /\ req[r] \in Request
  BY DEF Job, StoreTypeOK
<1>1. req[r].op \in {"send", "peer"}
  BY StepOps
<1>2. req[r].op = "send" => req[r] \in SendJob
  BY <1>0, RequestKinds
<1>3. ASSUME NEW s, req[r].op = "send", s.op = "send", "op" \in DOMAIN s, Advance(r, s)
      PROVE  Moves(r)
  <2>1. [s EXCEPT !.at = Stage(s)].op = "send" /\ Idle.op = "idle"
    BY <1>3 DEF Idle
  <2> QED BY <1>0, <1>1, <1>3, <2>1, OneGoesOn DEF Advance
<1>4. CASE ResolveChat(r)
  <2>1. PICK a \in req[r].todo :
           \/ Answer(r)
           \/ Advance(r, [req[r] EXCEPT !.todo = @ \ {a}])
           \/ req' = [req EXCEPT ![r] = [req[r] EXCEPT !.at = "label", !.now = a]]
    BY <1>4 DEF ResolveChat
  <2>2. req[r].op = "send" /\ req[r] \in SendJob
    BY <1>2, <1>4 DEF ResolveChat, At
  <2>3. /\ [req[r] EXCEPT !.todo = @ \ {a}].op = "send"
        /\ "op" \in DOMAIN [req[r] EXCEPT !.todo = @ \ {a}]
        /\ [req[r] EXCEPT !.at = "label", !.now = a].op = "send"
    BY <2>2 DEF SendJob
  <2> QED BY <1>0, <1>1, <1>3, <2>1, <2>2, <2>3, OneAnswers, OneGoesOn
<1>5. CASE ResolveLabel(r) \/ ValidateBlob(r) \/ SpeakAs(r) \/ FindParent(r)
  <2>1. req[r].op = "send" /\ req[r] \in SendJob
    BY <1>2, <1>5 DEF ResolveLabel, ValidateBlob, SpeakAs, FindParent, At
  <2>2. \A x : /\ [req[r] EXCEPT !.todo = x].op = "send"
               /\ "op" \in DOMAIN [req[r] EXCEPT !.todo = x]
               /\ [req[r] EXCEPT !.check = x].op = "send"
               /\ "op" \in DOMAIN [req[r] EXCEPT !.check = x]
               /\ [req[r] EXCEPT !.as = x].op = "send"
               /\ "op" \in DOMAIN [req[r] EXCEPT !.as = x]
               /\ [req[r] EXCEPT !.answers = x].op = "send"
               /\ "op" \in DOMAIN [req[r] EXCEPT !.answers = x]
    BY <2>1 DEF SendJob
  <2>3. Answer(r) \/ \E x : \/ Advance(r, [req[r] EXCEPT !.todo = x])
                            \/ Advance(r, [req[r] EXCEPT !.check = x])
                            \/ Advance(r, [req[r] EXCEPT !.as = x])
                            \/ Advance(r, [req[r] EXCEPT !.answers = x])
    BY <1>5 DEF ResolveLabel, ValidateBlob, SpeakAs, FindParent
  <2> QED BY <1>0, <1>1, <1>3, <2>1, <2>2, <2>3, OneAnswers
<1>6. CASE \/ Push(r) \/ RecordRemote(r) \/ SendRollback(r) \/ SendCommit(r)
           \/ PeerCommit(r)
  <2>1. Answer(r) \/ Goto(r, "record")
    BY <1>6 DEF Push, RecordRemote, SendRollback, SendCommit, PeerCommit
  <2> QED BY <1>0, <1>1, <2>1, OneAnswers, OneMoves
<1> QED BY <1>4, <1>5, <1>6 DEF SendStep

LEMMA ReadMoves ==
  ASSUME StoreTypeOK, NEW r \in Thread, ReadStep(r)
  PROVE  Moves(r)
<1>0. r \in Job /\ req[r] \in Request
  BY DEF Job, StoreTypeOK
<1>1. req[r].op \in {"read", "archive"}
  BY StepOps
<1>2. CASE ReadLookup(r)
  <2>1. req[r] \in ReadJob
    BY <1>0, <1>2, RequestKinds DEF ReadLookup, At
  <2> DEFINE s == [req[r] EXCEPT !.at = "unread", !.row = messages[req[r].msg]]
  <2>2. s.op = req[r].op
    BY <2>1 DEF ReadJob
  <2>3. Answer(r) \/ req' = [req EXCEPT ![r] = s]
    BY <1>2 DEF ReadLookup
  <2> HIDE DEF s
  <2> QED BY <1>0, <1>1, <2>2, <2>3, OneAnswers, OneGoesOn
<1>3. CASE \/ ReadUnread(r) \/ ReadMark(r) \/ ReadRank(r) \/ ReadBump(r) \/ ReadTell(r)
           \/ ReadView(r) \/ Archive(r)
  <2>1. Answer(r) \/ \E at : Goto(r, at)
    BY <1>3 DEF ReadUnread, ReadMark, ReadRank, ReadBump, ReadTell, ReadView, Archive
  <2> QED BY <1>0, <1>1, <2>1, OneAnswers, OneMoves
<1> QED BY <1>2, <1>3 DEF ReadStep

LEMMA WithdrawMoves ==
  ASSUME StoreTypeOK, NEW r \in Thread, WithdrawStep(r)
  PROVE  Moves(r)
<1>0. r \in Job /\ req[r] \in Request
  BY DEF Job, StoreTypeOK
<1>1. req[r].op \in {"unsend", "edit"} /\ req[r] \in WithdrawJob
  BY <1>0, RequestKinds, StepOps
<1>2. \A to : /\ [req[r] EXCEPT !.at = "tell", !.tell = to].op = req[r].op
              /\ [req[r] EXCEPT !.tell = to].op = req[r].op
  BY <1>1 DEF WithdrawJob
<1>3. CASE WithdrawRecipients(r) \/ WithdrawTell(r)
  <2>1. Answer(r) \/ \E to :
           \/ req' = [req EXCEPT ![r] = [req[r] EXCEPT !.at = "tell", !.tell = to]]
           \/ req' = [req EXCEPT ![r] = [req[r] EXCEPT !.tell = to]]
    BY <1>3 DEF WithdrawRecipients, WithdrawTell, Answer
  <2> QED BY <1>0, <1>1, <1>2, <2>1, OneAnswers, OneGoesOn
<1>4. CASE WithdrawLookup(r) \/ WithdrawUnread(r) \/ WithdrawUpdate(r)
  <2>1. Answer(r) \/ \E at : Goto(r, at)
    BY <1>4 DEF WithdrawLookup, WithdrawUnread, WithdrawUpdate
  <2> QED BY <1>0, <1>1, <2>1, OneAnswers, OneMoves
<1> QED BY <1>3, <1>4 DEF WithdrawStep

LEMMA AttachmentMoves ==
  ASSUME StoreTypeOK, NEW r \in Thread, AttachmentStep(r)
  PROVE  Moves(r)
<1>0. r \in Job /\ req[r] \in Request
  BY DEF Job, StoreTypeOK
<1>1. req[r].op \in {"upload", "inline", "download"}
  BY StepOps
<1>2. CASE DownloadBlob(r)
  <2>1. req[r] \in DownloadJob
    BY <1>0, <1>2, RequestKinds DEF DownloadBlob, At
  <2> DEFINE s == [req[r] EXCEPT !.at = "open", !.sha = blobs[req[r].blob].sha]
  <2>2. s.op = req[r].op
    BY <2>1 DEF DownloadJob
  <2>3. Answer(r) \/ req' = [req EXCEPT ![r] = s]
    BY <1>2 DEF DownloadBlob
  <2> HIDE DEF s
  <2> QED BY <1>0, <1>1, <2>2, <2>3, OneAnswers, OneGoesOn
<1>3. CASE \/ UploadExists(r) \/ UploadReplace(r) \/ InlineExists(r)
           \/ InlineTruncate(r) \/ InlineWrite(r) \/ InsertBlob(r)
           \/ DownloadLookup(r) \/ DownloadOpen(r) \/ DownloadServe(r)
  <2>1. Answer(r) \/ \E at : Goto(r, at)
    BY <1>3 DEF UploadExists, UploadReplace, InlineExists, InlineTruncate, InlineWrite,
                InsertBlob, DownloadLookup, DownloadOpen, DownloadServe
  <2> QED BY <1>0, <1>1, <2>1, OneAnswers, OneMoves
<1> QED BY <1>2, <1>3 DEF AttachmentStep

LEMMA SessionMoves ==
  ASSUME StoreTypeOK, NEW r \in Thread, SessionStep(r)
  PROVE  Moves(r)
<1>1. r \in Job
  BY DEF Job
<1>2. Answer(r) \/ \E at : Goto(r, at)
  BY DEF SessionStep, OpenSelect, OpenReopen, OpenInsert, Close
<1> QED BY <1>1, <1>2, OneAnswers, OneMoves

LEMMA GcMoves ==
  ASSUME StoreTypeOK, NEW r \in Thread, GcStep(r)
  PROVE  Moves(r)
<1>1. r \in Job
  BY DEF Job
<1>2. Answer(r) \/ \E at : Goto(r, at)
  BY DEF GcStep, GcDeliveries, GcMessages, GcEvents
<1> QED BY <1>1, <1>2, OneAnswers, OneMoves

\* Cleaning answers or goes on with cleaning.
LEMMA NextPartOp ==
  ASSUME NEW s \in Request, s.op = "retain"
  PROVE  NextPart(s).op \in {"retain", "idle"} /\ NextFile(s).op \in {"retain", "idle"}
<1>1. s \in RetainJob
  BY RequestKinds
<1> QED BY <1>1 DEF NextPart, NextFile, RetainJob, Idle

\* An unlink also moves the inline uploads that had the file open.
UnlinkMoves(j) ==
  /\ req'[j].op \in {req[j].op, "idle"}
  /\ \A q \in Job \ {j} : \/ req'[q] = req[q]
                          \/ req[q].op = "inline" /\ req'[q].op = "inline"

LEMMA RetainMoves ==
  ASSUME StoreTypeOK, NEW j \in Job, RetainStep(j)
  PROVE  \/ Moves(j)
         \/ Unlink(j) /\ UnlinkMoves(j)
<1>0. req[j] \in Request /\ req[j].op = "retain"
  BY StepOps DEF StoreTypeOK
<1>1. /\ req[j] \in RetainJob /\ NextPart(req[j]).op \in {"retain", "idle"}
      /\ NextFile(req[j]).op \in {"retain", "idle"}
  BY <1>0, RequestKinds, NextPartOp
<1>2. Idle.op = "idle"
  BY DEF Idle
<1>4. CASE Orphans(j) \/ StillUsed(j) \/ FileExists(j) \/ Doomed(j) \/ DoomedShas(j)
  <2>1. \A x, y, z :
          /\ [req[j] EXCEPT !.at = "dropOrphans", !.ids = x, !.shas = y].op = "retain"
          /\ [req[j] EXCEPT !.at = "exists", !.now = z, !.shas = y].op = "retain"
          /\ [req[j] EXCEPT !.at = "unlink"].op = "retain"
          /\ [req[j] EXCEPT !.shas = y].op = "retain"
          /\ [req[j] EXCEPT !.at = "shas", !.ids = x, !.days = FALSE].op = "retain"
          /\ [req[j] EXCEPT !.at = "blobs", !.shas = y].op = "retain"
    BY <1>1 DEF RetainJob
  <2>2. \E s : req' = [req EXCEPT ![j] = s] /\ s.op \in {"retain", "idle"}
    <3>1. CASE Orphans(j)
      <4>1. PICK x, y : req' = [req EXCEPT ![j] =
               IF x = {} THEN NextPart(req[j])
               ELSE [req[j] EXCEPT !.at = "dropOrphans", !.ids = x, !.shas = y]]
        BY <3>1 DEF Orphans
      <4> DEFINE s == IF x = {} THEN NextPart(req[j])
                      ELSE [req[j] EXCEPT !.at = "dropOrphans", !.ids = x, !.shas = y]
      <4>2. s.op \in {"retain", "idle"}
        BY <1>1, <2>1
      <4>3. req' = [req EXCEPT ![j] = s]
        BY <4>1
      <4> QED BY <4>2, <4>3
    <3>2. CASE StillUsed(j)
      <4>1. PICK z \in req[j].shas :
               req' = IF z \notin ReferencedShas
                      THEN [req EXCEPT ![j].at = "exists", ![j].now = z,
                                       ![j].shas = req[j].shas \ {z}]
                      ELSE [req EXCEPT ![j] = IF req[j].shas \ {z} = {} THEN NextPart(@)
                                              ELSE [@ EXCEPT !.shas = req[j].shas \ {z}]]
        BY <3>2 DEF StillUsed
      <4> DEFINE y == req[j].shas \ {z}
                 s == IF z \notin ReferencedShas
                      THEN [req[j] EXCEPT !.at = "exists", !.now = z, !.shas = y]
                      ELSE IF y = {} THEN NextPart(req[j])
                           ELSE [req[j] EXCEPT !.shas = y]
      <4>2. s.op \in {"retain", "idle"}
        BY <1>1, <2>1
      <4>3. req' = [req EXCEPT ![j] = s]
        BY <4>1
      <4> QED BY <4>2, <4>3
    <3>3. CASE Doomed(j)
      <4>1. PICK x : req' = [req EXCEPT ![j] =
               IF x = {} THEN Idle
               ELSE [req[j] EXCEPT !.at = "shas", !.ids = x, !.days = FALSE]]
        BY <3>3 DEF Doomed
      <4> DEFINE s == IF x = {} THEN Idle
                      ELSE [req[j] EXCEPT !.at = "shas", !.ids = x, !.days = FALSE]
      <4>2. s.op \in {"retain", "idle"}
        BY <1>2, <2>1
      <4>3. req' = [req EXCEPT ![j] = s]
        BY <4>1
      <4> QED BY <4>2, <4>3
    <3>4. CASE DoomedShas(j)
      <4>1. \E y : req' = [req EXCEPT ![j] = [req[j] EXCEPT !.at = "blobs", !.shas = y]]
        BY <3>4 DEF DoomedShas
      <4> QED BY <2>1, <4>1
    <3>5. CASE FileExists(j)
      <4>1. req' = [req EXCEPT ![j] = IF files[req[j].now] = "absent" THEN NextFile(req[j])
                                      ELSE [req[j] EXCEPT !.at = "unlink"]]
        BY <3>5 DEF FileExists
      <4> DEFINE s == IF files[req[j].now] = "absent" THEN NextFile(req[j])
                      ELSE [req[j] EXCEPT !.at = "unlink"]
      <4>2. s.op \in {"retain", "idle"}
        BY <1>1, <2>1
      <4>3. req' = [req EXCEPT ![j] = s]
        BY <4>1
      <4> QED BY <4>2, <4>3
    <3> QED BY <1>4, <3>1, <3>2, <3>3, <3>4, <3>5
  <2> QED BY <1>0, <2>2, OneGoesOn
<1>5. CASE DropOrphans(j) \/ DropBlobs(j) \/ DropDeliveries(j) \/ DropEvents(j)
  <2>1. \E at : Goto(j, at)
    BY <1>5 DEF DropOrphans, DropBlobs, DropDeliveries, DropEvents
  <2> QED BY <1>0, <2>1, OneMoves
<1>6. CASE DropMessages(j)
  <2>1. [req[j] EXCEPT !.at = "used"].op = "retain"
    BY <1>0, OpStays
  <2>2. req' = [req EXCEPT ![j] = IF req[j].shas = {} THEN Idle
                                  ELSE [req[j] EXCEPT !.at = "used"]]
    BY <1>6 DEF DropMessages
  <2> QED BY <1>0, <1>2, <2>1, <2>2, OneGoesOn
<1>7. CASE Unlink(j)
  <2>1. req'[j].op \in {"retain", "idle"}
    <3>1. req'[j] = IF files[req[j].now] = "absent" THEN Idle ELSE NextFile(req[j])
      BY <1>7 DEF Unlink
    <3> QED BY <1>1, <1>2, <3>1
  <2>2. ASSUME NEW q \in Job \ {j}
        PROVE  \/ req'[q] = req[q]
               \/ req[q].op = "inline" /\ req'[q].op = "inline"
    <3>1. req'[q] = IF At(q, "inline", "write") /\ req[q].sha = req[j].now
                    THEN [req[q] EXCEPT !.at = "insert"] ELSE req[q]
      BY <1>7 DEF Unlink
    <3>2. [req[q] EXCEPT !.at = "insert"].op = req[q].op
      BY OpStays DEF StoreTypeOK
    <3> QED BY <3>1, <3>2 DEF At
  <2> QED BY <1>0, <1>7, <2>1, <2>2 DEF UnlinkMoves
<1> QED BY <1>4, <1>5, <1>6, <1>7 DEF RetainStep

\* Whoever calls, the request starts at the first statement of its handler.
LEMMA BeginMoves ==
  ASSUME StoreTypeOK, NEW r \in Thread, Begin(r)
  PROVE  \/ Begun(r)
         \/ RevokeChat(r) /\ req' = req
<1>0. r \in Job /\ Main \in Job /\ req[r] \in Request /\ req[Main] \in Request
  BY DEF Job, StoreTypeOK
<1>1. ASSUME NEW s \in Request, Accept(r, s), s.op # "idle", ~Engaged(s)
      PROVE  Begun(r)
  <2>1. req[Main].op = "idle" /\ req[r].op = "idle"
    BY <1>0, <1>1, FreeIsIdle DEF Accept, Serving
  <2> QED BY <1>1, <2>1 DEF Accept, Begun
<1>2. ASSUME NEW c \in Chat, SendBegin(r, c) PROVE Begun(r)
  <2>1. PICK to \in SUBSET Address, want \in SUBSET BlobId,
             as \in Label \cup {None}, parent \in DOMAIN asked \cup {None} :
          Accept(r, [op |-> "send", at |-> "resolve", by |-> c, to |-> to,
                     want |-> want, todo |-> to, now |-> None, check |-> want,
                     as |-> as, parent |-> parent, answers |-> None])
    BY <1>2 DEF SendBegin, AcceptFrom
  <2>2. parent \in MsgId \cup {None}
    BY DEF StoreTypeOK, IsTable
  <2>3. [op |-> "send", at |-> "resolve", by |-> c, to |-> to, want |-> want,
         todo |-> to, now |-> None, check |-> want, as |-> as, parent |-> parent,
         answers |-> None] \in Request
    BY <2>2 DEF SendJob, Request
  <2> QED BY <1>1, <2>1, <2>3 DEF Engaged
<1>3. DOMAIN asked \subseteq MsgId
  BY DEF StoreTypeOK, IsTable
<1>4. ASSUME NEW c \in Chat, ReadBegin(r, c) PROVE Begun(r)
  <2>1. PICK m \in DOMAIN asked, peek \in BOOLEAN :
          Accept(r, [op |-> "read", at |-> "lookup", by |-> c, msg |-> m,
                     peek |-> peek, row |-> None])
    BY <1>4 DEF ReadBegin, AcceptFrom
  <2>2. [op |-> "read", at |-> "lookup", by |-> c, msg |-> m, peek |-> peek,
         row |-> None] \in Request
    BY <1>3 DEF ReadJob, Request
  <2> QED BY <1>1, <2>1, <2>2 DEF Engaged
<1>5. ASSUME NEW c \in Chat, ArchiveBegin(r, c) PROVE Begun(r)
  <2>1. PICK m \in DOMAIN asked :
          Accept(r, [op |-> "archive", at |-> "update", by |-> c, msg |-> m])
    BY <1>5 DEF ArchiveBegin, AcceptFrom
  <2>2. [op |-> "archive", at |-> "update", by |-> c, msg |-> m] \in Request
    BY <1>3 DEF ArchiveJob, Request
  <2> QED BY <1>1, <2>1, <2>2 DEF Engaged
<1>6. ASSUME NEW c \in Chat, WithdrawBegin(r, c) PROVE Begun(r)
  <2>1. PICK op \in {"unsend", "edit"}, m \in DOMAIN asked :
          Accept(r, [op |-> op, at |-> "lookup", by |-> c, msg |-> m, tell |-> {}])
    BY <1>6 DEF WithdrawBegin, AcceptFrom
  <2>2. [op |-> op, at |-> "lookup", by |-> c, msg |-> m, tell |-> {}] \in Request
    BY <1>3 DEF WithdrawJob, Request
  <2> QED BY <1>1, <2>1, <2>2 DEF Engaged
<1>7. ASSUME NEW c \in Chat, UploadBegin(r, c) PROVE Begun(r)
  <2>1. PICK op \in {"upload", "inline"}, sha \in Sha :
          Accept(r, [op |-> op, at |-> "exists", by |-> c, sha |-> sha])
    BY <1>7 DEF UploadBegin, AcceptFrom
  <2>2. [op |-> op, at |-> "exists", by |-> c, sha |-> sha] \in Request
    BY DEF UploadJob, Request
  <2> QED BY <1>1, <2>1, <2>2 DEF Engaged
<1>8. ASSUME NEW c \in Chat, DownloadBegin(r, c) PROVE Begun(r)
  <2>1. PICK m \in DOMAIN asked : \E b \in asked[m].want :
          Accept(r, [op |-> "download", at |-> "lookup", by |-> c, msg |-> m,
                     blob |-> b, sha |-> None])
    BY <1>8 DEF DownloadBegin, AcceptFrom
  <2>2. m \in MsgId /\ asked[m].want \subseteq BlobId
    BY DEF StoreTypeOK, IsTable, Asked
  <2>3. \A b \in asked[m].want :
          [op |-> "download", at |-> "lookup", by |-> c, msg |-> m, blob |-> b,
           sha |-> None] \in Request
    BY <2>2 DEF DownloadJob, Request
  <2> QED BY <1>1, <2>1, <2>3 DEF Engaged
<1>9. ASSUME NEW c \in Chat, SessionBegin(r, c) PROVE Begun(r)
  <2>1. PICK op \in {"open", "close"}, l \in Label :
          Accept(r, [op |-> op, by |-> c, label |-> l,
                     at |-> IF op = "open" THEN "select" ELSE "update"])
    BY <1>9 DEF SessionBegin, AcceptFrom
  <2>2. [op |-> op, by |-> c, label |-> l,
         at |-> IF op = "open" THEN "select" ELSE "update"] \in Request
    BY DEF SessionJob, Request
  <2> QED BY <1>1, <2>1, <2>2 DEF Engaged
<1>10. CASE PeerBegin(r)
  <2>1. PICK p \in Peer, c \in Chat :
          Accept(r, [op |-> "peer", at |-> "commit", by |-> p, to |-> c])
    BY <1>10 DEF PeerBegin
  <2>2. [op |-> "peer", at |-> "commit", by |-> p, to |-> c] \in Request
    BY DEF PeerJob, Request
  <2> QED BY <1>1, <2>1, <2>2 DEF Engaged
<1>11. CASE RetainBegin(r)
  <2>1. PICK days \in BOOLEAN : Accept(r, Retention(days))
    BY <1>11 DEF RetainBegin
  <2>2. Retention(days) \in Request
    BY DEF Retention, RetainJob, Request
  <2>3. Retention(days).op = "retain" /\ ~Engaged(Retention(days))
    BY DEF Retention, Engaged
  <2> QED BY <1>1, <2>1, <2>2, <2>3
<1>12. CASE GcBegin(r)
  <2>1. Accept(r, [op |-> "gc", at |-> "deliveries"])
    BY <1>12 DEF GcBegin
  <2>2. [op |-> "gc", at |-> "deliveries"] \in Request
    BY DEF GcJob, Request
  <2> QED BY <1>1, <2>1, <2>2 DEF Engaged
<1>13. CASE RevokeChat(r)
  <2>1. req[r] = Idle /\ req' = [req EXCEPT ![r] = Idle]
    BY <1>13 DEF RevokeChat, Answer
  <2>2. req' = req
    BY <1>0, <2>1 DEF StoreTypeOK
  <2> QED BY <1>13, <2>2
<1> QED BY <1>2, <1>4, <1>5, <1>6, <1>7, <1>8, <1>9, <1>10, <1>11, <1>12, <1>13
        DEF Begin

-----------------------------------------------------------------------------
(* What no statement does to the tables, and the few exceptions.           *)

\* A delivery is read and has its status moved only by its reader, or by the
\* answer of its recipient, which moves it up.
DeliveriesStand ==
  \A k \in DOMAIN deliveries' :
    \/ /\ k \in DOMAIN deliveries /\ deliveries'[k].read = deliveries[k].read
       /\ \/ deliveries'[k].status = deliveries[k].status
          \/ /\ deliveries'[k].status = "replied"
             /\ STATUS_RANK[deliveries[k].status] < STATUS_RANK["replied"]
             /\ \E r \in Thread : SendCommit(r)
    \/ /\ k[1] \notin DOMAIN asked /\ ~deliveries'[k].read
       /\ deliveries'[k].status = "delivered"

\* A message is rewritten by its withdrawal alone.
MessagesStand ==
  \A m \in DOMAIN messages' :
    \/ m \in DOMAIN messages /\ messages'[m] = messages[m]
    \/ /\ m \notin DOMAIN asked /\ ~messages'[m].recalled
       /\ messages'[m].body = "first"

\* An event is forgotten with the deliveries of its message, or with its chat.
EventsStand ==
  \A i \in DOMAIN events :
    \/ i \in DOMAIN events' /\ events'[i] = events[i]
    \/ events[i].chat \in revoked
    \/ \A k \in DOMAIN deliveries' : k[1] # events[i].msg

\* An attachment keeps its bytes, and its message once it has one.
BlobsStand ==
  \A b \in DOMAIN blobs' :
    \/ /\ b \in DOMAIN blobs /\ blobs'[b].sha = blobs[b].sha
       /\ \/ blobs'[b].attached = blobs[b].attached
          \/ /\ blobs[b].attached = None
             /\ blobs'[b].attached \in DOMAIN messages' \ DOMAIN asked
    \/ /\ b \notin DOMAIN blobs /\ blobs'[b].attached = None
       /\ \E r \in Thread : InsertBlob(r) /\ blobs'[b].sha = req[r].sha

Stand ==
  /\ DeliveriesStand /\ MessagesStand /\ EventsStand /\ BlobsStand
  /\ revoked \subseteq revoked'

LEMMA NothingWritten ==
  ASSUME UNCHANGED <<messages, deliveries, events, blobs>>, revoked \subseteq revoked'
  PROVE  Stand
BY DEF Stand, DeliveriesStand, MessagesStand, EventsStand, BlobsStand

\* The transaction of send changes of the deliveries there are only the status
\* of the one it answers.
LEMMA SendCommitRaises ==
  ASSUME StoreTypeOK, Rows, Knowing, NEW r \in Thread, SendCommit(r)
  PROVE  /\ DeliveriesStand
         /\ \A k \in DOMAIN deliveries :
              deliveries'[k].status =
                IF /\ k = <<req[r].parent, req[r].by>>
                   /\ STATUS_RANK[deliveries[k].status] < STATUS_RANK["replied"]
                THEN "replied" ELSE deliveries[k].status
<1> DEFINE s == req[r]
           m == Fresh(MsgId, DOMAIN asked)
           new == {<<m, c>> : c \in Chats(s)}
           labelOf(c) == (CHOOSE a \in s.to : a[1] = c)[2]
           added == [k \in DOMAIN deliveries \cup new |->
                       IF k \in new THEN NewDelivery(labelOf(k[2])) ELSE deliveries[k]]
           key == <<s.parent, s.by>>
<1>1. /\ m \in MsgId \ DOMAIN asked /\ Validated(s)
  BY SendCommitWrites DEF Written
<1>2. deliveries' = BumpReplied(s, added)
  BY DEF SendCommit
<1>3. \A k \in DOMAIN deliveries : k[1] \in DOMAIN asked /\ deliveries[k] \in Delivery
  BY DEF StoreTypeOK, IsTable, Rows, DeliveriesAsked, MessagesAsked
<1>4. \A k \in new : k[1] = m
  OBVIOUS
<1>5. /\ \A k \in DOMAIN deliveries : k \in DOMAIN added /\ added[k] = deliveries[k]
      /\ \A k \in DOMAIN added :
           \/ k \in DOMAIN deliveries
           \/ /\ k[1] \notin DOMAIN asked /\ ~added[k].read
              /\ added[k].status = "delivered"
  BY <1>1, <1>3, <1>4 DEF NewDelivery
<1>6. s.parent \in DOMAIN asked \/ s.parent = None
  BY <1>1 DEF Validated
<1>7. key \in DOMAIN added => key \in DOMAIN deliveries
  <2>1. key \in new => s.parent = m
    BY <1>4
  <2>2. m # None
    BY <1>1
  <2> QED BY <1>1, <1>6, <2>1, <2>2
<1> HIDE DEF new, labelOf, added, m
<1>8. DOMAIN deliveries' = DOMAIN added
  BY <1>2 DEF BumpReplied
<1>9. ASSUME NEW k \in DOMAIN added
      PROVE  \/ deliveries'[k] = added[k]
             \/ /\ k = key /\ deliveries'[k] = [added[k] EXCEPT !.status = "replied"]
                /\ STATUS_RANK["replied"] > STATUS_RANK[added[k].status]
  BY <1>2 DEF BumpReplied
<1>10. ASSUME NEW k \in DOMAIN added, k = key,
              STATUS_RANK["replied"] > STATUS_RANK[added[k].status]
       PROVE  deliveries'[k] = [added[k] EXCEPT !.status = "replied"]
  BY <1>2, <1>10 DEF BumpReplied
<1>11. ASSUME NEW k \in DOMAIN deliveries
       PROVE  /\ deliveries'[k].read = deliveries[k].read
              /\ \/ deliveries'[k].status = deliveries[k].status
                 \/ /\ deliveries'[k].status = "replied" /\ k = key
                    /\ STATUS_RANK[deliveries[k].status] < STATUS_RANK["replied"]
              /\ k = key /\ STATUS_RANK[deliveries[k].status] < STATUS_RANK["replied"]
                   => deliveries'[k].status = "replied"
  <2>1. deliveries[k] \in Delivery /\ added[k] = deliveries[k] /\ k \in DOMAIN added
    BY <1>3, <1>5
  <2>2. /\ [deliveries[k] EXCEPT !.status = "replied"].read = deliveries[k].read
        /\ [deliveries[k] EXCEPT !.status = "replied"].status = "replied"
    BY <2>1 DEF Delivery
  <2>3. STATUS_RANK["replied"] > STATUS_RANK[deliveries[k].status]
          <=> STATUS_RANK[deliveries[k].status] < STATUS_RANK["replied"]
    OBVIOUS
  <2> QED BY <1>9, <1>10, <2>1, <2>2, <2>3
<1>12. ASSUME NEW k \in DOMAIN added, k \notin DOMAIN deliveries
       PROVE  /\ k[1] \notin DOMAIN asked /\ ~deliveries'[k].read
              /\ deliveries'[k].status = "delivered"
  <2>1. k # key /\ deliveries'[k] = added[k]
    BY <1>7, <1>9, <1>12
  <2> QED BY <1>5, <1>12, <2>1
<1>13. DeliveriesStand
  BY <1>8, <1>11, <1>12 DEF DeliveriesStand
<1> QED BY <1>11, <1>13

LEMMA SendStands ==
  ASSUME StoreTypeOK, Rows, Knowing, NEW r \in Thread, SendStep(r)
  PROVE  Stand
<1> DEFINE m == Fresh(MsgId, DOMAIN asked)
<1>1. CASE \/ ResolveChat(r) \/ ResolveLabel(r) \/ ValidateBlob(r) \/ SpeakAs(r)
           \/ FindParent(r) \/ Push(r) \/ SendRollback(r)
  <2>1. UNCHANGED <<messages, deliveries, events, blobs, revoked>>
    BY <1>1 DEF ResolveChat, ResolveLabel, ValidateBlob, SpeakAs, FindParent, Push,
                SendRollback, quiet, tables
  <2> QED BY <2>1, NothingWritten
<1>2. ASSUME NEW by, NEW via, m \in MsgId \ DOMAIN asked, messages' = Put(messages, m, Row(by, via))
      PROVE  MessagesStand
  <2>1. \A x \in DOMAIN messages : x \in DOMAIN asked
    BY DEF Rows, MessagesAsked
  <2>2. ~Row(by, via).recalled /\ Row(by, via).body = "first"
    BY DEF Row
  <2> HIDE DEF m
  <2> QED BY <1>2, <2>1, <2>2 DEF Put, MessagesStand
<1>3. CASE RecordRemote(r)
  <2>1. UNCHANGED <<revoked, deliveries, events, blobs>>
    BY <1>3 DEF RecordRemote, quiet
  <2>2. m \in MsgId \ DOMAIN asked
    BY <1>3, FreshId DEF RecordRemote, StoreTypeOK, IsTable
  <2>3. MessagesStand
    BY <1>2, <1>3, <2>2 DEF RecordRemote
  <2> QED BY <2>1, <2>3 DEF Stand, DeliveriesStand, EventsStand, BlobsStand
<1>4. CASE PeerCommit(r)
  <2>1. UNCHANGED <<revoked, blobs, cursor>> /\ req[r] \in PeerJob
    BY <1>4, RequestKinds DEF PeerCommit, quiet, At, StoreTypeOK, Job
  <2>2. m \in MsgId \ DOMAIN asked
    BY <1>4, FreshId DEF PeerCommit, StoreTypeOK, IsTable
  <2>3. MessagesStand
    BY <1>2, <1>4, <2>2 DEF PeerCommit
  <2> HIDE DEF m
  <2>4. DeliveriesStand
    <3>1. deliveries' = Put(deliveries, <<m, req[r].to>>, NewDelivery(None))
      BY <1>4 DEF PeerCommit, m
    <3>2. <<m, req[r].to>>[1] = m
      OBVIOUS
    <3>3. \A k \in DOMAIN deliveries' :
            \/ k \in DOMAIN deliveries /\ deliveries'[k] = deliveries[k]
            \/ k[1] = m /\ deliveries'[k] = NewDelivery(None)
      BY <3>1, <3>2 DEF Put
    <3> QED BY <2>2, <3>3 DEF DeliveriesStand, NewDelivery
  <2>5. EventsStand
    <3>1. EmitAll(<<[chat |-> req[r].to, type |-> "message.received", msg |-> m]>>)
      BY <1>4 DEF PeerCommit, Emit, m
    <3>2. <<[chat |-> req[r].to, type |-> "message.received", msg |-> m]>> \in Seq(Event)
      BY <2>1, <2>2 DEF Event, EventType, PeerJob
    <3>3. \A i \in DOMAIN events : i \in DOMAIN events' /\ events'[i] = events[i]
      BY <2>1, <3>1, <3>2, Emitted DEF Rows
    <3> QED BY <3>3 DEF EventsStand
  <2> QED BY <2>1, <2>3, <2>4, <2>5 DEF Stand, BlobsStand
<1>5. CASE SendCommit(r)
  <2>1. /\ Written(req[r], m) /\ Attached(req[r], m)
    BY <1>5, SendCommitWrites
  <2>2. m \in MsgId \ DOMAIN asked /\ MessagesStand
    BY <1>2, <2>1 DEF Written
  <2>3. EventsStand
    <3>1. \A i \in DOMAIN events : i \in DOMAIN events' /\ events'[i] = events[i]
      BY <1>5, SendCommitTells
    <3> QED BY <3>1 DEF EventsStand
  <2>4. BlobsStand
    <3>1. m \in DOMAIN messages' \ DOMAIN asked
      BY <2>1, <2>2 DEF Written, Put
    <3>2. \A b \in DOMAIN blobs : blobs[b] \in Blob
      BY DEF StoreTypeOK, IsTable
    <3>3. blobs' = [b \in DOMAIN blobs |->
                     IF b \in req[r].want THEN [blobs[b] EXCEPT !.attached = m] ELSE blobs[b]]
      BY <1>5 DEF SendCommit, Update
    <3>4. \A b \in req[r].want : blobs[b].attached = None
      BY <1>5 DEF SendCommit, IsRefused, CanAttach
    <3> HIDE DEF m
    <3> QED BY <3>1, <3>2, <3>3, <3>4 DEF BlobsStand, Blob
  <2>5. DeliveriesStand /\ UNCHANGED revoked
    BY <1>5, SendCommitRaises DEF SendCommit, quiet
  <2> QED BY <2>2, <2>3, <2>4, <2>5 DEF Stand
<1> QED BY <1>1, <1>3, <1>4, <1>5 DEF SendStep

\* A row added to events takes none away.
LEMMA EmittedStands ==
  ASSUME StoreTypeOK, Rows, NEW c \in Chat, NEW type \in EventType, NEW m \in MsgId,
         Emit(c, type, m), UNCHANGED <<revoked, messages, deliveries, blobs, cursor>>
  PROVE  /\ Stand
         /\ Announced(c, type, m)'
<1> DEFINE row == [chat |-> c, type |-> type, msg |-> m]
<1>1. <<row>> \in Seq(Event) /\ Len(<<row>>) = 1 /\ <<row>>[1] = row
  BY DEF Event
<1>2. EmitAll(<<row>>)
  BY DEF Emit
<1> HIDE DEF row
<1>3. /\ \A i \in DOMAIN events : i \in DOMAIN events' /\ events'[i] = events[i]
      /\ \A i \in 1 .. Len(<<row>>) :
            lastSeq + i \in DOMAIN events' /\ events'[lastSeq + i] = <<row>>[i]
  BY <1>1, <1>2, Emitted DEF Rows
<1>4. Stand
  BY <1>3 DEF Stand, DeliveriesStand, MessagesStand, EventsStand, BlobsStand
<1>5. lastSeq + 1 \in DOMAIN events' /\ events'[lastSeq + 1] = row
  BY <1>1, <1>3
<1> QED BY <1>4, <1>5 DEF Announced, row

\* The steps of read and archive, but for the two that mark a delivery.
LEMMA ReadStands ==
  ASSUME StoreTypeOK, Rows, NEW r \in Thread, ReadStep(r)
  PROVE  /\ MessagesStand /\ EventsStand /\ BlobsStand /\ UNCHANGED revoked
         /\ DeliveriesStand \/ ReadMark(r) \/ ReadBump(r)
<1>0. r \in Job
  BY DEF Job
<1>1. CASE ReadLookup(r) \/ ReadUnread(r) \/ ReadRank(r) \/ ReadView(r)
  <2>1. UNCHANGED <<messages, deliveries, events, blobs, revoked>>
    BY <1>1 DEF ReadLookup, ReadUnread, ReadRank, ReadView, quiet, tables
  <2> QED BY <2>1, NothingWritten DEF Stand
<1>2. CASE ReadMark(r) \/ ReadBump(r)
  <2>1. UNCHANGED <<messages, events, blobs, revoked>> /\ DOMAIN deliveries' = DOMAIN deliveries
    BY <1>2 DEF ReadMark, ReadBump, quiet, Update
  <2> QED BY <1>2, <2>1 DEF MessagesStand, EventsStand, BlobsStand
<1>3. CASE Archive(r)
  <2>1. UNCHANGED <<messages, events, blobs, revoked>>
    BY <1>3 DEF Archive, quiet
  <2>2. \A k \in DOMAIN deliveries : deliveries[k] \in Delivery
    BY DEF StoreTypeOK, IsTable
  <2>3. DeliveriesStand
    BY <1>3, <2>2 DEF Archive, Update, Delivery, DeliveriesStand
  <2> QED BY <2>1, <2>3 DEF MessagesStand, EventsStand, BlobsStand
<1>4. CASE ReadTell(r)
  <2>1. UNCHANGED <<messages, deliveries, blobs, revoked, cursor>>
    BY <1>4 DEF ReadTell, quiet
  <2>2. CASE UNCHANGED <<events, lastSeq>>
    BY <2>1, <2>2, NothingWritten DEF Stand
  <2>3. CASE /\ req[r].row.from \in Chat
             /\ Emit(req[r].row.from, "message.read", req[r].msg)
    <3>1. req[r].msg \in MsgId
      BY <1>0, <1>4, RequestKinds DEF ReadTell, At, StoreTypeOK, ReadJob
    <3> QED BY <2>1, <2>3, <3>1, EmittedStands DEF EventType, Stand
  <2> QED BY <1>4, <2>2, <2>3 DEF ReadTell
<1> QED BY <1>1, <1>2, <1>3, <1>4 DEF ReadStep

\* The steps of unsend and edit, but for the one that rewrites the message.
LEMMA WithdrawStands ==
  ASSUME StoreTypeOK, Rows, NEW r \in Thread, WithdrawStep(r)
  PROVE  /\ DeliveriesStand /\ EventsStand /\ UNCHANGED revoked
         /\ BlobsStand
         /\ MessagesStand \/ WithdrawUpdate(r)
<1>0. r \in Job
  BY DEF Job
<1>1. CASE WithdrawLookup(r) \/ WithdrawUnread(r) \/ WithdrawRecipients(r)
  <2>1. UNCHANGED <<messages, deliveries, events, blobs, revoked>>
    BY <1>1 DEF WithdrawLookup, WithdrawUnread, WithdrawRecipients, quiet, tables
  <2> QED BY <2>1, NothingWritten DEF Stand
<1>2. CASE WithdrawUpdate(r)
  <2>1. UNCHANGED <<deliveries, events, blobs, revoked>>
    BY <1>2 DEF WithdrawUpdate, quiet
  <2> QED BY <1>2, <2>1 DEF DeliveriesStand, EventsStand, BlobsStand
<1>3. CASE WithdrawTell(r)
  <2>1. UNCHANGED <<messages, deliveries, blobs, revoked, cursor>>
    BY <1>3 DEF WithdrawTell, quiet
  <2>2. PICK c \in req[r].tell :
          Emit(c, IF req[r].op = "unsend" THEN "message.recalled"
                                          ELSE "message.edited", req[r].msg)
    BY <1>3 DEF WithdrawTell
  <2>3. c \in Chat /\ req[r].msg \in MsgId
    BY <1>0, <1>3, RequestKinds
       DEF WithdrawTell, Withdrawing, At, StoreTypeOK, WithdrawJob
  <2> QED BY <2>1, <2>2, <2>3, EmittedStands DEF EventType, Stand
<1> QED BY <1>1, <1>2, <1>3 DEF WithdrawStep

LEMMA AttachmentStands ==
  ASSUME StoreTypeOK, Rows, NEW r \in Thread, AttachmentStep(r)
  PROVE  Stand
<1>1. CASE InsertBlob(r)
  <2>1. UNCHANGED <<messages, deliveries, events, revoked>>
    BY <1>1 DEF InsertBlob, still
  <2> DEFINE row == [sha |-> req[r].sha, by |-> req[r].by, attached |-> None]
             b == Fresh(BlobId, uploaded)
  <2>2. blobs' = Put(blobs, b, row)
    BY <1>1 DEF InsertBlob
  <2>3. row.attached = None /\ row.sha = req[r].sha
    OBVIOUS
  <2>4. b \notin DOMAIN blobs
    BY <1>1, FreshId DEF InsertBlob, StoreTypeOK, Rows, BlobsUploaded
  <2> HIDE DEF row, b
  <2>5. BlobsStand
    BY <1>1, <2>2, <2>3, <2>4 DEF BlobsStand, Put
  <2> QED BY <2>1, <2>5 DEF Stand, DeliveriesStand, MessagesStand, EventsStand
<1>2. CASE \/ UploadExists(r) \/ UploadReplace(r) \/ InlineExists(r)
           \/ InlineTruncate(r) \/ InlineWrite(r)
           \/ DownloadLookup(r) \/ DownloadBlob(r) \/ DownloadOpen(r) \/ DownloadServe(r)
  <2>1. UNCHANGED <<messages, deliveries, events, blobs, revoked>>
    BY <1>2 DEF UploadExists, UploadReplace, InlineExists, InlineTruncate, InlineWrite,
                DownloadLookup, DownloadBlob, DownloadOpen, DownloadServe, still
  <2> QED BY <2>1, NothingWritten
<1> QED BY <1>1, <1>2 DEF AttachmentStep

\* Cleaning changes no row, and forgets the events of messages whose
\* deliveries have gone.
LEMMA RetainStands ==
  ASSUME StoreTypeOK, Rows, Knowing, NEW j \in Job, RetainStep(j)
  PROVE  Stand
<1>1. UNCHANGED revoked
  BY DEF RetainStep, Orphans, DropOrphans, StillUsed, FileExists, Unlink, Doomed,
         DoomedShas, DropBlobs, DropDeliveries, DropEvents, DropMessages, unmoved
<1>2. CASE \/ Orphans(j) \/ StillUsed(j) \/ FileExists(j) \/ Unlink(j)
           \/ Doomed(j) \/ DoomedShas(j)
  <2>1. UNCHANGED <<messages, deliveries, events, blobs>>
    BY <1>2 DEF Orphans, StillUsed, FileExists, Unlink, Doomed, DoomedShas
  <2> QED BY <1>1, <2>1, NothingWritten
<1>3. CASE DropOrphans(j) \/ DropBlobs(j)
  <2>1. UNCHANGED <<messages, deliveries, events>>
    BY <1>3 DEF DropOrphans, DropBlobs
  <2>2. \A b \in DOMAIN blobs' : b \in DOMAIN blobs /\ blobs'[b] = blobs[b]
    BY <1>3 DEF DropOrphans, DropBlobs, Drop, Restrict
  <2> QED BY <1>1, <2>1, <2>2 DEF Stand, DeliveriesStand, MessagesStand, EventsStand,
                                  BlobsStand
<1>4. CASE DropDeliveries(j)
  <2>1. UNCHANGED <<messages, events, blobs>>
    BY <1>4 DEF DropDeliveries
  <2>2. \A k \in DOMAIN deliveries' : k \in DOMAIN deliveries /\ deliveries'[k] = deliveries[k]
    BY <1>4 DEF DropDeliveries, Drop, Restrict
  <2> QED BY <1>1, <2>1, <2>2 DEF Stand, DeliveriesStand, MessagesStand, EventsStand,
                                  BlobsStand
<1>5. CASE DropEvents(j)
  <2>1. UNCHANGED <<messages, deliveries, blobs>>
    BY <1>5 DEF DropEvents
  <2>2. \A k \in DOMAIN deliveries : k[1] \notin req[j].ids
    BY <1>5 DEF DropEvents, At, Knowing, Known, RetainKnown
  <2>3. \A i \in DOMAIN events :
          events[i].msg \in req[j].ids \/ (i \in DOMAIN events' /\ events'[i] = events[i])
    BY <1>5 DEF DropEvents, Drop, Restrict
  <2>4. EventsStand
    BY <2>1, <2>2, <2>3 DEF EventsStand
  <2> QED BY <1>1, <2>1, <2>4 DEF Stand, DeliveriesStand, MessagesStand, BlobsStand
<1>6. CASE DropMessages(j)
  <2>1. UNCHANGED <<deliveries, events, blobs>>
    BY <1>6 DEF DropMessages
  <2>2. \A m \in DOMAIN messages' : m \in DOMAIN messages /\ messages'[m] = messages[m]
    BY <1>6 DEF DropMessages, Drop, Restrict
  <2> QED BY <1>1, <2>1, <2>2 DEF Stand, DeliveriesStand, MessagesStand, EventsStand,
                                  BlobsStand
<1> QED BY <1>2, <1>3, <1>4, <1>5, <1>6 DEF RetainStep

LEMMA GcStands ==
  ASSUME NEW r \in Thread, GcStep(r)
  PROVE  Stand
<1>1. UNCHANGED <<revoked, blobs>>
  BY DEF GcStep, GcDeliveries, GcMessages, GcEvents, unmoved
<1>2. CASE GcDeliveries(r)
  <2>1. UNCHANGED <<messages, events>>
    BY <1>2 DEF GcDeliveries
  <2>2. \A k \in DOMAIN deliveries' : k \in DOMAIN deliveries /\ deliveries'[k] = deliveries[k]
    BY <1>2 DEF GcDeliveries, Drop, Restrict
  <2> QED BY <1>1, <2>1, <2>2 DEF Stand, DeliveriesStand, MessagesStand, EventsStand,
                                  BlobsStand
<1>3. CASE GcMessages(r)
  <2>1. UNCHANGED <<deliveries, events>>
    BY <1>3 DEF GcMessages
  <2>2. \A m \in DOMAIN messages' : m \in DOMAIN messages /\ messages'[m] = messages[m]
    BY <1>3 DEF GcMessages, Drop, Restrict
  <2> QED BY <1>1, <2>1, <2>2 DEF Stand, DeliveriesStand, MessagesStand, EventsStand,
                                  BlobsStand
<1>4. CASE GcEvents(r)
  <2>1. UNCHANGED <<messages, deliveries>>
    BY <1>4 DEF GcEvents
  <2>2. \A i \in DOMAIN events :
          events[i].chat \in revoked \/ (i \in DOMAIN events' /\ events'[i] = events[i])
    BY <1>4 DEF GcEvents, Drop, Restrict
  <2>3. EventsStand
    BY <2>2 DEF EventsStand
  <2> QED BY <1>1, <2>1, <2>3 DEF Stand, DeliveriesStand, MessagesStand, BlobsStand
<1> QED BY <1>2, <1>3, <1>4 DEF GcStep

-----------------------------------------------------------------------------
(* Every step of the instance: which handler goes on, what the tables keep. *)

Goes(q) == (q \in Thread /\ Step(q)) \/ RetainStep(q)

\* What any step leaves, but for the statements it names.
Frame ==
  /\ EventsStand /\ BlobsStand /\ revoked \subseteq revoked'
  /\ DeliveriesStand \/ \E r \in Thread : ReadMark(r) \/ ReadBump(r)
  /\ MessagesStand \/ \E r \in Thread : WithdrawUpdate(r)
  /\ \/ files' = files
     \/ \E r \in Thread : UploadReplace(r) \/ InlineTruncate(r) \/ InlineWrite(r)
     \/ \E j \in Job : Unlink(j)

LEMMA FilesStand ==
  /\ \A r \in Thread : SendStep(r) => UNCHANGED <<files, boots>>
  /\ \A r \in Thread : ReadStep(r) => UNCHANGED <<files, boots>>
  /\ \A r \in Thread : WithdrawStep(r) => UNCHANGED <<files, boots>>
  /\ \A r \in Thread : SessionStep(r) => UNCHANGED <<files, boots, revoked, tables>>
  /\ \A r \in Thread : GcStep(r) => UNCHANGED <<files, boots>>
  /\ \A r \in Thread : AttachmentStep(r) =>
       /\ UNCHANGED boots
       /\ UNCHANGED files \/ UploadReplace(r) \/ InlineTruncate(r) \/ InlineWrite(r)
  /\ \A j \in Job : RetainStep(j) => UNCHANGED boots /\ (UNCHANGED files \/ Unlink(j))
<1>1. ASSUME NEW r \in Thread, SendStep(r) PROVE UNCHANGED <<files, boots>>
  BY <1>1 DEF SendStep, ResolveChat, ResolveLabel, ValidateBlob, SpeakAs, FindParent, Push,
              RecordRemote, SendRollback, SendCommit, PeerCommit, quiet
<1>2. ASSUME NEW r \in Thread, ReadStep(r) PROVE UNCHANGED <<files, boots>>
  BY <1>2 DEF ReadStep, ReadLookup, ReadUnread, ReadMark, ReadRank, ReadBump, ReadTell,
              ReadView, Archive, quiet
<1>3. ASSUME NEW r \in Thread, WithdrawStep(r) PROVE UNCHANGED <<files, boots>>
  BY <1>3 DEF WithdrawStep, WithdrawLookup, WithdrawUnread, WithdrawUpdate,
              WithdrawRecipients, WithdrawTell, quiet
<1>4. ASSUME NEW r \in Thread, SessionStep(r) PROVE UNCHANGED <<files, boots, revoked, tables>>
  BY <1>4 DEF SessionStep, OpenSelect, OpenReopen, OpenInsert, Close, elsewhere
<1>5. ASSUME NEW r \in Thread, GcStep(r) PROVE UNCHANGED <<files, boots>>
  BY <1>5 DEF GcStep, GcDeliveries, GcMessages, GcEvents
<1>6. ASSUME NEW r \in Thread, AttachmentStep(r)
      PROVE  /\ UNCHANGED boots
             /\ UNCHANGED files \/ UploadReplace(r) \/ InlineTruncate(r) \/ InlineWrite(r)
  BY <1>6 DEF AttachmentStep, UploadExists, UploadReplace, InlineExists, InlineTruncate,
              InlineWrite, InsertBlob, DownloadLookup, DownloadBlob, DownloadOpen,
              DownloadServe, still
<1>7. ASSUME NEW j \in Job, RetainStep(j)
      PROVE  UNCHANGED boots /\ (UNCHANGED files \/ Unlink(j))
  BY <1>7 DEF RetainStep, Orphans, DropOrphans, StillUsed, FileExists, Unlink, Doomed,
              DoomedShas, DropBlobs, DropDeliveries, DropEvents, DropMessages
<1> QED BY <1>1, <1>2, <1>3, <1>4, <1>5, <1>6, <1>7

\* Taking a request up, polling, ageing and a crash write nothing.
LEMMA OthersStand ==
  ASSUME \/ \E r \in Thread : Begin(r)
         \/ \E c \in Chat : Poll(c)
         \/ HoursPass \/ DaysPass \/ Crash \/ UNCHANGED vars
  PROVE  /\ Stand /\ UNCHANGED <<files, tables>>
         /\ UNCHANGED boots \/ Crash
<1>1. ASSUME NEW r \in Thread, Begin(r)
      PROVE  UNCHANGED <<tables, files, boots>> /\ revoked \subseteq revoked'
  <2>1. ASSUME NEW c, \/ SendBegin(r, c) \/ ReadBegin(r, c) \/ ArchiveBegin(r, c)
                      \/ WithdrawBegin(r, c) \/ PeerBegin(r)
        PROVE  UNCHANGED <<tables, files, boots, revoked>>
    BY <2>1 DEF SendBegin, ReadBegin, ArchiveBegin, WithdrawBegin, PeerBegin, quiet
  <2>2. ASSUME NEW c, \/ UploadBegin(r, c) \/ DownloadBegin(r, c) \/ SessionBegin(r, c)
                      \/ RetainBegin(r) \/ GcBegin(r)
        PROVE  UNCHANGED <<tables, files, boots, revoked>>
    BY <2>2 DEF UploadBegin, DownloadBegin, SessionBegin, RetainBegin, GcBegin, still,
                elsewhere, unmoved, tables
  <2>3. ASSUME RevokeChat(r)
        PROVE  UNCHANGED <<tables, files, boots>> /\ revoked \subseteq revoked'
    BY <2>3 DEF RevokeChat, elsewhere
  <2> QED BY <1>1, <2>1, <2>2, <2>3 DEF Begin
<1>2. ASSUME \/ \E c \in Chat : Poll(c)
             \/ HoursPass \/ DaysPass \/ UNCHANGED vars
      PROVE  UNCHANGED <<tables, files, boots, revoked>>
  BY <1>2 DEF Poll, HoursPass, DaysPass, vars, store, unmoved, tables
<1>3. ASSUME Crash PROVE UNCHANGED <<tables, files, revoked>>
  BY <1>3 DEF Crash, unmoved, tables
<1>4. UNCHANGED <<tables, files>> /\ revoked \subseteq revoked'
  BY <1>1, <1>2, <1>3
<1>5. Stand
  BY <1>4, NothingWritten DEF tables
<1> QED BY <1>1, <1>2, <1>4, <1>5

LEMMA StepStands ==
  ASSUME Inv, [Next]_vars
  PROVE  Frame /\ (UNCHANGED boots \/ Crash)
<1>0. StoreTypeOK /\ Rows /\ Knowing
  BY DEF Inv, TypeOK
<1>1. CASE \/ \E r \in Thread : Begin(r)
           \/ \E c \in Chat : Poll(c)
           \/ HoursPass \/ DaysPass \/ Crash \/ UNCHANGED vars
  BY <1>1, OthersStand DEF Frame, Stand
<1>2. ASSUME NEW r \in Thread, SendStep(r) PROVE Frame /\ UNCHANGED boots
  BY <1>0, <1>2, SendStands, FilesStand DEF Frame, Stand
<1>3. ASSUME NEW r \in Thread, ReadStep(r) PROVE Frame /\ UNCHANGED boots
  BY <1>0, <1>3, ReadStands, FilesStand DEF Frame
<1>4. ASSUME NEW r \in Thread, WithdrawStep(r) PROVE Frame /\ UNCHANGED boots
  BY <1>0, <1>4, WithdrawStands, FilesStand DEF Frame
<1>5. ASSUME NEW r \in Thread, AttachmentStep(r) PROVE Frame /\ UNCHANGED boots
  BY <1>0, <1>5, AttachmentStands, FilesStand DEF Frame, Stand
<1>6. ASSUME NEW r \in Thread, SessionStep(r) PROVE Frame /\ UNCHANGED boots
  BY <1>0, <1>6, NothingWritten, FilesStand DEF Frame, Stand, tables
<1>7. ASSUME NEW j \in Job, RetainStep(j) PROVE Frame /\ UNCHANGED boots
  BY <1>0, <1>7, RetainStands, FilesStand DEF Frame, Stand
<1>8. ASSUME NEW r \in Thread, GcStep(r) PROVE Frame /\ UNCHANGED boots
  BY <1>0, <1>8, GcStands, FilesStand DEF Frame, Stand
<1> QED BY <1>1, <1>2, <1>3, <1>4, <1>5, <1>6, <1>7, <1>8
        DEF Next, Stop, Work, Step, Job

LEMMA StepMoves ==
  ASSUME StoreTypeOK, NEW j \in Job, Goes(j)
  PROVE  \/ Moves(j)
         \/ Unlink(j) /\ UnlinkMoves(j)
BY SendMoves, ReadMoves, WithdrawMoves, AttachmentMoves, SessionMoves, RetainMoves, GcMoves
   DEF Goes, Step, Job

\* Each step is one of these.
LEMMA StepIs ==
  ASSUME Inv, [Next]_vars
  PROVE  \/ req' = req /\ UNCHANGED <<tables, files>>
         \/ \E r \in Thread : Begun(r) /\ UNCHANGED <<tables, files, boots>>
         \/ \E j \in Job : Goes(j) /\ UNCHANGED boots
         \/ Crash
<1>0. StoreTypeOK
  BY DEF Inv, TypeOK
<1>1. ASSUME NEW r \in Thread, Begin(r)
      PROVE  \/ Begun(r) /\ UNCHANGED <<tables, files, boots>>
             \/ req' = req /\ UNCHANGED <<tables, files>>
  <2>1. UNCHANGED <<tables, files>> /\ (UNCHANGED boots \/ Crash)
    BY <1>1, OthersStand
  <2>2. Begun(r) => UNCHANGED boots
    <3>1. ASSUME Begun(r), Crash PROVE FALSE
      <4>1. req'[Main].op = "retain" /\ Main \in Job /\ r \in Job /\ r # Main
        BY <3>1 DEF Crash, Retention, Job
      <4>2. req'[Main] = req[Main] /\ req[Main].op = "idle"
        BY <1>0, <3>1, <4>1 DEF Begun, StoreTypeOK
      <4> QED BY <4>1, <4>2
    <3> QED BY <2>1, <3>1
  <2> QED BY <1>0, <1>1, <2>1, <2>2, BeginMoves
<1>2. ASSUME \/ \E c \in Chat : Poll(c)
             \/ HoursPass \/ DaysPass \/ UNCHANGED vars
      PROVE  req' = req /\ UNCHANGED <<tables, files>>
  BY <1>2, OthersStand DEF Poll, HoursPass, DaysPass, vars, store
<1>3. ASSUME NEW j \in Job, Goes(j) PROVE UNCHANGED boots
  BY <1>3, FilesStand DEF Goes, Step, Job
<1> QED BY <1>1, <1>2, <1>3 DEF Next, Stop, Work, Goes, Job

\* What a step does to one handler.
LEMMA OneHandler ==
  ASSUME Inv, [Next]_vars, NEW q \in Job
  PROVE  \/ req'[q] = req[q]
         \/ Begun(q) /\ ~Engaged(req'[q]) /\ UNCHANGED <<tables, files>>
         \/ Goes(q) /\ req'[q].op \in {req[q].op, "idle"}
         \/ req[q].op = "inline" /\ req'[q].op = "inline"
         \/ Crash /\ ~Engaged(req'[q]) /\ req'[q].op \in {"idle", "retain"}
<1>0. StoreTypeOK
  BY DEF Inv, TypeOK
<1>1. CASE req' = req
  BY <1>1
<1>2. ASSUME NEW r \in Thread, Begun(r), UNCHANGED <<tables, files>>
      PROVE  \/ req'[q] = req[q]
             \/ Begun(q) /\ ~Engaged(req'[q]) /\ UNCHANGED <<tables, files>>
  <2>1. CASE q = r
    BY <1>0, <1>2, <2>1 DEF Begun, StoreTypeOK
  <2>2. CASE q # r
    BY <1>0, <1>2, <2>2 DEF Begun, StoreTypeOK
  <2> QED BY <2>1, <2>2
<1>3. ASSUME NEW j \in Job, Goes(j)
      PROVE  \/ req'[q] = req[q]
             \/ Goes(q) /\ req'[q].op \in {req[q].op, "idle"}
             \/ req[q].op = "inline" /\ req'[q].op = "inline"
  BY <1>0, <1>3, StepMoves DEF Moves, UnlinkMoves
<1>4. ASSUME Crash
      PROVE  ~Engaged(req'[q]) /\ req'[q].op \in {"idle", "retain"}
  <2>1. req'[q] = Idle \/ req'[q] = Retention(Window)
    BY <1>4 DEF Crash
  <2> QED BY <2>1 DEF Idle, Retention, Engaged
<1> QED BY <1>1, <1>2, <1>3, <1>4, StepIs

-----------------------------------------------------------------------------
(* Who is in flight with whom.                                             *)

LEMMA OrderlyInit == Init => Orderly
BY DEF Init, Orderly, Free, Idle, Job

LEMMA OrderlyKept == Inv /\ Orderly /\ [Next]_vars => Orderly'
<1> SUFFICES ASSUME Inv, Orderly, [Next]_vars PROVE Orderly'
  OBVIOUS
<1>0. StoreTypeOK /\ Main \in Job /\ Thread \subseteq Job /\ boots \in Nat
  BY DEF Inv, TypeOK, StoreTypeOK, Job
<1>1. boots' >= 1
  <2>1. UNCHANGED boots \/ Crash
    BY StepStands
  <2> QED BY <1>0, <2>1 DEF Orderly, Crash
<1>2. ASSUME \A q \in Job : req'[q] = req[q] \/ req'[q].op \in {req[q].op, "idle"}
      PROVE  Orderly'
  BY <1>0, <1>1, <1>2 DEF Orderly, Free
<1>3. ASSUME NEW r \in Thread, Begun(r) PROVE Orderly'
  <2>1. PICK s : /\ req[Main].op = "idle" /\ s.op \in Workload
                 /\ \A q \in Thread : {s.op, req[q].op} \notin Apart
                 /\ req' = [req EXCEPT ![r] = s]
    BY <1>3 DEF Begun
  <2>2. r # Main /\ req'[Main] = req[Main] /\ req'[r] = s
    BY <1>0, <2>1 DEF StoreTypeOK
  <2>3. \A q \in Thread \ {r} : req'[q] = req[q]
    BY <1>0, <2>1 DEF StoreTypeOK
  <2>4. \A q \in Thread : {s.op, req[q].op} = {req[q].op, s.op}
    OBVIOUS
  <2> QED BY <1>1, <2>1, <2>2, <2>3, <2>4 DEF Orderly, Free
<1>4. CASE Crash
  <2>1. req'[Main].op = "retain" /\ \A q \in Thread : req'[q].op = "idle"
    BY <1>4 DEF Crash, Retention, Idle, Job
  <2> QED BY <1>1, <2>1 DEF Orderly, Free
<1>5. ASSUME NEW j \in Job, Goes(j) PROVE Orderly'
  <2>1. Moves(j) \/ UnlinkMoves(j)
    BY <1>0, <1>5, StepMoves
  <2> QED BY <1>2, <2>1 DEF Moves, UnlinkMoves
<1> QED BY <1>2, <1>3, <1>4, <1>5, StepIs

\* Operations that take turns are not both in flight.
LEMMA TurnsTaken ==
  ASSUME Orderly, NEW a, NEW b, TakeTurns(a, b), a # b, a # "idle", b # "idle",
         NEW q \in Thread, NEW r \in Thread, req[q].op = a, req[r].op = b
  PROVE  FALSE
BY DEF Orderly, TakeTurns, Free

\* Nothing else is in flight while the start cleans.
LEMMA StartIsAlone ==
  ASSUME Orderly, NEW r \in Thread, req[r].op # "idle"
  PROVE  req[Main].op = "idle"
BY DEF Orderly, Free

-----------------------------------------------------------------------------
(* read: the mark, the status and the receipt.                             *)

LEMMA MarkWrites ==
  ASSUME StoreTypeOK, NEW r, ReadMark(r), NEW k \in DOMAIN deliveries'
  PROVE  /\ k \in DOMAIN deliveries /\ deliveries'[k].status = deliveries[k].status
         /\ k # OwnKey(req[r]) => deliveries'[k] = deliveries[k]
<1>1. \A x \in DOMAIN deliveries : deliveries[x] \in Delivery
  BY DEF StoreTypeOK, IsTable
<1>2. DOMAIN deliveries' = DOMAIN deliveries
  BY DEF ReadMark, Update
<1>3. deliveries'[k] = IF k \in OwnDelivery(req[r]) THEN [deliveries[k] EXCEPT !.read = TRUE]
                       ELSE deliveries[k]
  BY <1>2 DEF ReadMark, Update
<1> QED BY <1>1, <1>2, <1>3 DEF OwnDelivery, OwnKey, Delivery

LEMMA BumpWrites ==
  ASSUME StoreTypeOK, NEW r, ReadBump(r), NEW k \in DOMAIN deliveries'
  PROVE  /\ k \in DOMAIN deliveries /\ deliveries'[k].read = deliveries[k].read
         /\ k # OwnKey(req[r]) => deliveries'[k] = deliveries[k]
         /\ k = OwnKey(req[r]) => deliveries'[k].status = "read"
<1>1. \A x \in DOMAIN deliveries : deliveries[x] \in Delivery
  BY DEF StoreTypeOK, IsTable
<1>2. DOMAIN deliveries' = DOMAIN deliveries
  BY DEF ReadBump, Update
<1>3. deliveries'[k] = IF k \in OwnDelivery(req[r])
                       THEN [deliveries[k] EXCEPT !.status = "read"] ELSE deliveries[k]
  BY <1>2 DEF ReadBump, Update
<1> QED BY <1>1, <1>2, <1>3 DEF OwnDelivery, OwnKey, Delivery

\* The course of a read, from one statement to the next.
LEMMA ReadGoesOn ==
  ASSUME StoreTypeOK, NEW r \in Thread, ReadStep(r), req[r].op = "read"
  PROVE  \/ req'[r].op = "idle" /\ req[r].at \in {"lookup", "unread", "view"}
         \/ /\ req'[r].op = "read" /\ req'[r].msg = req[r].msg /\ req'[r].by = req[r].by
            /\ req[r].at = "lookup" /\ req'[r].at = "unread"
            /\ req[r].msg \in DOMAIN messages /\ req'[r].row = messages[req[r].msg]
         \/ /\ req'[r].op = "read" /\ req'[r].msg = req[r].msg /\ req'[r].by = req[r].by
            /\ req'[r].row = req[r].row
            /\ \/ req[r].at = "unread" /\ req'[r].at \in {"mark", "view"}
               \/ req[r].at = "mark" /\ req'[r].at = "rank" /\ ReadMark(r)
               \/ /\ req[r].at = "rank" /\ UNCHANGED deliveries
                  /\ \/ req'[r].at = "bump" /\ IsBelowRead(req[r].msg, req[r].by)
                     \/ req'[r].at = "tell" /\ ~IsBelowRead(req[r].msg, req[r].by)
               \/ req[r].at = "bump" /\ req'[r].at = "tell" /\ ReadBump(r)
               \/ req[r].at = "tell" /\ req'[r].at = "view" /\ ReadTell(r)
<1>0. r \in Job /\ req[r] \in ReadJob /\ Idle.op = "idle"
  BY RequestKinds DEF StoreTypeOK, Job, Idle
<1>1. ASSUME Answer(r) PROVE req'[r].op = "idle"
  BY <1>0, <1>1 DEF Answer, StoreTypeOK
<1>2. ASSUME NEW at, Goto(r, at)
      PROVE  /\ req'[r].op = "read" /\ req'[r].msg = req[r].msg /\ req'[r].by = req[r].by
             /\ req'[r].row = req[r].row /\ req'[r].at = at
  <2>1. req'[r] = [req[r] EXCEPT !.at = at]
    BY <1>0, <1>2 DEF Goto, StoreTypeOK
  <2> QED BY <1>0, <2>1 DEF ReadJob
<1>3. CASE ReadLookup(r)
  <2> DEFINE s == [req[r] EXCEPT !.at = "unread", !.row = messages[req[r].msg]]
  <2>1. /\ s.op = "read" /\ s.msg = req[r].msg /\ s.by = req[r].by /\ s.at = "unread"
        /\ s.row = messages[req[r].msg]
    BY <1>0 DEF ReadJob
  <2>2. Answer(r) \/ (req' = [req EXCEPT ![r] = s] /\ req[r].msg \in DOMAIN messages)
    BY <1>3 DEF ReadLookup, VisibleTo
  <2>3. req[r].at = "lookup"
    BY <1>3 DEF ReadLookup, At
  <2> HIDE DEF s
  <2>4. Answer(r) \/ (req'[r] = s /\ req[r].msg \in DOMAIN messages)
    BY <1>0, <2>2 DEF StoreTypeOK
  <2> QED BY <1>1, <2>1, <2>3, <2>4
<1>4. CASE ReadUnread(r)
  <2>1. /\ req[r].at = "unread"
        /\ Answer(r) \/ Goto(r, "mark") \/ Goto(r, "view")
    BY <1>4 DEF ReadUnread, At
  <2> QED BY <1>1, <1>2, <2>1
<1>5. CASE ReadMark(r)
  <2>1. req[r].at = "mark" /\ Goto(r, "rank")
    BY <1>5 DEF ReadMark, At
  <2> QED BY <1>2, <1>5, <2>1
<1>6. CASE ReadRank(r)
  <2>1. /\ req[r].at = "rank" /\ UNCHANGED deliveries
        /\ Goto(r, IF IsBelowRead(req[r].msg, req[r].by) THEN "bump" ELSE "tell")
    BY <1>6 DEF ReadRank, At, tables
  <2> QED BY <1>2, <2>1
<1>7. CASE ReadBump(r)
  <2>1. req[r].at = "bump" /\ Goto(r, "tell")
    BY <1>7 DEF ReadBump, At
  <2> QED BY <1>2, <1>7, <2>1
<1>8. CASE ReadTell(r)
  <2>1. req[r].at = "tell" /\ Goto(r, "view")
    BY <1>8 DEF ReadTell, At
  <2> QED BY <1>2, <1>8, <2>1
<1>9. CASE ReadView(r)
  BY <1>1, <1>9 DEF ReadView, At
<1>10. CASE Archive(r)
  BY <1>10 DEF Archive, At
<1> QED BY <1>3, <1>4, <1>5, <1>6, <1>7, <1>8, <1>9, <1>10 DEF ReadStep

\* A handler that is in the middle of a read has made its step, or none.
LEMMA InRead ==
  ASSUME Inv, [Next]_vars, NEW q \in Job, req'[q].op = "read", req'[q].at # "lookup"
  PROVE  \/ req'[q] = req[q]
         \/ q \in Thread /\ ReadStep(q) /\ req[q].op = "read"
<1>1. Engaged(req'[q])
  BY DEF Engaged
<1>2. req'[q] = req[q] \/ (Goes(q) /\ req[q].op = "read")
  BY <1>1, OneHandler
<1>3. Goes(q) /\ req[q].op = "read" => q \in Thread /\ ReadStep(q)
  BY StepOps DEF Goes, Step
<1> QED BY <1>2, <1>3

\* And one that was in the middle of a read goes on, but for a crash.
LEMMA ReadStays ==
  ASSUME Inv, [Next]_vars, ~Crash, NEW r \in Thread, req[r].op = "read"
  PROVE  req'[r] = req[r] \/ ReadStep(r)
<1>1. ~Begun(r)
  BY DEF Begun
<1>2. req'[r] = req[r] \/ Goes(r)
  BY <1>1, OneHandler DEF Job
<1> QED BY <1>2, StepOps DEF Goes, Step

\* No status becomes "delivered" again.
LEMMA StatusLeaves ==
  ASSUME Inv, [Next]_vars, NEW k \in DOMAIN deliveries', k[1] \in DOMAIN asked
  PROVE  /\ k \in DOMAIN deliveries
         /\ deliveries[k].status # "delivered" => deliveries'[k].status # "delivered"
<1>1. StoreTypeOK
  BY DEF Inv, TypeOK
<1>2. CASE DeliveriesStand
  BY <1>2 DEF DeliveriesStand
<1>3. CASE \E r \in Thread : ReadMark(r) \/ ReadBump(r)
  BY <1>1, <1>3, MarkWrites, BumpWrites
<1> QED BY <1>2, <1>3, StepStands DEF Frame

LEMMA ReceiptHeldKept ==
  ASSUME Inv, [Next]_vars, NEW q \in Job, ReceiptHeld(req[q])
  PROVE  ReceiptHeld(req[q])'
<1> SUFFICES ASSUME req'[q].op = "read", req'[q].at # "lookup"
             PROVE  /\ req'[q].row.from = asked'[req'[q].msg].from
                    /\ req'[q].at = "tell" /\ OwnKey(req'[q]) \in DOMAIN deliveries'
                         => deliveries'[OwnKey(req'[q])].status # "delivered"
  BY DEF ReceiptHeld, OwnKey
<1>0. StoreTypeOK /\ Known(req[q]) /\ Lasting /\ MessagesAsked
  BY StepKeeps DEF Inv, TypeOK, Knowing, Legal, Rows
<1>1. CASE req'[q] = req[q]
  <2>1. req[q].msg \in DOMAIN asked
    BY <1>0, <1>1 DEF Known, GateKnown
  <2>2. OwnKey(req[q]) \in DOMAIN deliveries' =>
          /\ OwnKey(req[q]) \in DOMAIN deliveries
          /\ deliveries[OwnKey(req[q])].status # "delivered"
               => deliveries'[OwnKey(req[q])].status # "delivered"
    BY <2>1, StatusLeaves DEF OwnKey
  <2>3. asked'[req[q].msg] = asked[req[q].msg]
    BY <1>0, <2>1 DEF Lasting
  <2> QED BY <1>1, <2>2, <2>3 DEF ReceiptHeld
<1>2. CASE q \in Thread /\ ReadStep(q) /\ req[q].op = "read"
  <2> USE <1>0, <1>2
  <2>1. req[q].msg \in DOMAIN asked /\ asked'[req[q].msg] = asked[req[q].msg]
    BY DEF Known, GateKnown, Lasting
  <2>2. req'[q].msg = req[q].msg /\ OwnKey(req'[q]) = OwnKey(req[q])
    BY ReadGoesOn DEF OwnKey
  <2>3. CASE req[q].at = "lookup"
    <3>1. /\ req[q].msg \in DOMAIN messages /\ req'[q].row = messages[req[q].msg]
          /\ req'[q].at = "unread"
      BY <2>3, ReadGoesOn
    <3>2. messages[req[q].msg].from = asked[req[q].msg].from
      BY <3>1 DEF MessagesAsked
    <3> QED BY <2>1, <2>2, <3>1, <3>2
  <2>4. CASE req[q].at # "lookup"
    <3>1. req'[q].row = req[q].row /\ req[q].row.from = asked[req[q].msg].from
      BY <2>4, ReadGoesOn DEF ReceiptHeld
    <3>2. ASSUME req'[q].at = "tell", OwnKey(req[q]) \in DOMAIN deliveries'
          PROVE  deliveries'[OwnKey(req[q])].status # "delivered"
      <4>1. \/ UNCHANGED deliveries /\ ~IsBelowRead(req[q].msg, req[q].by)
            \/ ReadBump(q)
        BY <2>4, <3>2, ReadGoesOn
      <4>2. CASE ReadBump(q)
        BY <3>2, <4>2, BumpWrites
      <4>3. CASE UNCHANGED deliveries /\ ~IsBelowRead(req[q].msg, req[q].by)
        BY <3>2, <4>3 DEF IsBelowRead, OwnKey, STATUS_RANK, Status
      <4> QED BY <4>1, <4>2, <4>3
    <3> QED BY <2>1, <2>2, <3>1, <3>2
  <2> QED BY <2>3, <2>4
<1> QED BY <1>1, <1>2, InRead

LEMMA StillLowKept ==
  ASSUME Inv, Orderly, [Next]_vars, NEW q \in Job, StillLow(req[q])
  PROVE  StillLow(req[q])'
<1> SUFFICES ASSUME TakeTurns("read", "send"), req'[q].op = "read", req'[q].at = "bump",
                    OwnKey(req'[q]) \in DOMAIN deliveries'
             PROVE  deliveries'[OwnKey(req'[q])].status \in {"delivered", "read"}
  BY DEF StillLow, OwnKey, TakeTurns
<1> DEFINE k == OwnKey(req'[q])
<1>0. StoreTypeOK /\ Known(req[q]) /\ q # Main
  <2>1. req'[Main].op \in {"idle", "retain"}
    BY OrderlyKept DEF Orderly
  <2> QED BY <2>1 DEF Inv, TypeOK, Knowing
<1>1. CASE req'[q] = req[q]
  <2>1. q \in Thread /\ k[1] \in DOMAIN asked /\ k \in DOMAIN deliveries
    BY <1>0, <1>1, StatusLeaves DEF Known, GateKnown, Job, OwnKey
  <2>2. deliveries[k].status \in {"delivered", "read"}
    BY <1>1, <2>1 DEF StillLow
  <2>3. ~\E r \in Thread : SendCommit(r)
    BY <1>1, <2>1, TurnsTaken DEF SendCommit, At
  <2> HIDE DEF k
  <2>4. CASE DeliveriesStand
    BY <2>1, <2>2, <2>3, <2>4 DEF DeliveriesStand, k
  <2>5. CASE \E r \in Thread : ReadMark(r) \/ ReadBump(r)
    BY <1>0, <2>1, <2>2, <2>5, MarkWrites, BumpWrites DEF k
  <2> QED BY <2>4, <2>5, StepStands DEF Frame, k
<1>2. CASE q \in Thread /\ ReadStep(q) /\ req[q].op = "read"
  <2>1. /\ UNCHANGED deliveries /\ IsBelowRead(req[q].msg, req[q].by)
        /\ k = OwnKey(req[q])
    BY <1>0, <1>2, ReadGoesOn DEF OwnKey
  <2>2. deliveries[k] \in Delivery
    BY <1>0, <2>1 DEF StoreTypeOK, IsTable
  <2>3. deliveries[k].status \in Status /\ STATUS_RANK["read"] > STATUS_RANK[deliveries[k].status]
    BY <2>1, <2>2 DEF IsBelowRead, OwnKey, Delivery
  <2> QED BY <2>1, <2>3 DEF STATUS_RANK, Status
<1> QED BY <1>1, <1>2, InRead

\* What has been announced stays so, as long as the delivery it is about and
\* the chat that was told.
LEMMA StaysAnnounced ==
  ASSUME EventsStand, NEW c, c \notin revoked, NEW type, NEW k \in DOMAIN deliveries',
         Announced(c, type, k[1])
  PROVE  Announced(c, type, k[1])'
<1>1. PICK i \in DOMAIN events : events[i] = [chat |-> c, type |-> type, msg |-> k[1]]
  BY DEF Announced
<1>2. events[i].chat = c /\ events[i].msg = k[1]
  BY <1>1
<1>3. i \in DOMAIN events' /\ events'[i] = events[i]
  BY <1>2 DEF EventsStand
<1> QED BY <1>1, <1>3 DEF Announced

\* Whoever has read is still to see to the status, or has seen to it; and the
\* same goes for the receipt.
LEMMA ReceiptsKept ==
  ASSUME Inv, Relying, Receipts, [Next]_vars, ~Crash
  PROVE  Receipts'
<1> SUFFICES ASSUME NEW k \in DOMAIN deliveries', deliveries'[k].read,
                    NEW from, from = asked'[k[1]].from
             PROVE  /\ \/ deliveries'[k].status # "delivered"
                       \/ \E r \in Thread : Marking(req'[r], k)
                    /\ from \in Chat \ revoked' =>
                         \/ Announced(from, "message.read", k[1])'
                         \/ \E r \in Thread : Receipting(req'[r], k)
  BY DEF Receipts, Marking, Receipting, OwnKey, Announced
<1>0. StoreTypeOK /\ Lasting /\ DeliveriesAsked /\ MessagesAsked /\ Rows
  BY StepKeeps DEF Inv, TypeOK, Legal, Rows
<1>1. k \in DOMAIN deliveries /\ k[1] \in DOMAIN asked /\ asked'[k[1]] = asked[k[1]]
  <2>1. CASE \E r \in Thread : ReadMark(r) \/ ReadBump(r)
    <3>1. k \in DOMAIN deliveries
      BY <1>0, <2>1, MarkWrites, BumpWrites
    <3> QED BY <1>0, <3>1 DEF DeliveriesAsked, MessagesAsked, Lasting
  <2>2. CASE DeliveriesStand
    <3>1. k \in DOMAIN deliveries
      BY <2>2 DEF DeliveriesStand
    <3> QED BY <1>0, <3>1 DEF DeliveriesAsked, MessagesAsked, Lasting
  <2> QED BY <2>1, <2>2, StepStands DEF Frame
<1>2. CASE deliveries[k].read
  <2>1. \/ deliveries'[k].status # "delivered"
        \/ \E r \in Thread : Marking(req'[r], k)
    <3>1. CASE deliveries[k].status # "delivered"
      BY <1>1, <3>1, StatusLeaves
    <3>2. ASSUME NEW r \in Thread, Marking(req[r], k)
          PROVE  deliveries'[k].status # "delivered" \/ Marking(req'[r], k)
      <4>1. req[r].op = "read" /\ OwnKey(req[r]) = k /\ req[r].at \in {"rank", "bump"}
        BY <3>2 DEF Marking
      <4>2. CASE req'[r] = req[r]
        BY <3>2, <4>2
      <4>3. CASE ReadStep(r)
        <5>1. /\ req'[r].op = "read" /\ OwnKey(req'[r]) = k
              /\ \/ req'[r].at = "bump"
                 \/ UNCHANGED deliveries /\ ~IsBelowRead(req[r].msg, req[r].by)
                 \/ ReadBump(r)
          BY <1>0, <4>1, <4>3, ReadGoesOn DEF OwnKey
        <5>2. CASE req'[r].at = "bump"
          BY <5>1, <5>2 DEF Marking
        <5>3. CASE UNCHANGED deliveries /\ ~IsBelowRead(req[r].msg, req[r].by)
          BY <1>1, <4>1, <5>3 DEF IsBelowRead, OwnKey, STATUS_RANK, Status
        <5>4. CASE ReadBump(r)
          BY <1>0, <4>1, <5>4, BumpWrites
        <5> QED BY <5>1, <5>2, <5>3, <5>4
      <4> QED BY <4>1, <4>2, <4>3, ReadStays
    <3> QED BY <1>1, <1>2, <3>1, <3>2 DEF Receipts
  <2>2. ASSUME from \in Chat \ revoked'
        PROVE  \/ Announced(from, "message.read", k[1])'
               \/ \E r \in Thread : Receipting(req'[r], k)
    <3>0. EventsStand /\ from \in Chat \ revoked
      BY <2>2, StepStands DEF Frame
    <3>1. CASE Announced(from, "message.read", k[1])
      BY <3>0, <3>1, StaysAnnounced
    <3>2. ASSUME NEW r \in Thread, Receipting(req[r], k)
          PROVE  Announced(from, "message.read", k[1])' \/ Receipting(req'[r], k)
      <4>1. req[r].op = "read" /\ OwnKey(req[r]) = k /\ req[r].at \in {"rank", "bump", "tell"}
        BY <3>2 DEF Receipting
      <4>2. CASE req'[r] = req[r]
        BY <3>2, <4>2
      <4>3. CASE ReadStep(r)
        <5>1. /\ req'[r].op = "read" /\ OwnKey(req'[r]) = k
              /\ req'[r].at \in {"bump", "tell"} \/ ReadTell(r)
          BY <1>0, <4>1, <4>3, ReadGoesOn DEF OwnKey
        <5>2. CASE req'[r].at \in {"bump", "tell"}
          BY <5>1, <5>2 DEF Receipting
        <5>3. CASE ReadTell(r)
          <6>1. req[r].row.from = from /\ req[r].msg = k[1]
            BY <4>1, <5>3 DEF ReadTell, At, Relying, Relies, ReceiptHeld, Job, OwnKey
          <6>2. from \notin Peer
            BY <3>0
          <6>3. Emit(from, "message.read", k[1])
            BY <5>3, <6>1, <6>2 DEF ReadTell
          <6>4. k[1] \in MsgId
            BY <1>0, <1>1 DEF StoreTypeOK, IsTable
          <6>5. UNCHANGED <<revoked, messages, deliveries, blobs, cursor>>
            BY <5>3 DEF ReadTell, quiet
          <6> QED BY <1>0, <3>0, <6>3, <6>4, <6>5, EmittedStands DEF EventType
        <5> QED BY <5>1, <5>2, <5>3
      <4> QED BY <4>1, <4>2, <4>3, ReadStays
    <3> QED BY <1>1, <1>2, <3>0, <3>1, <3>2 DEF Receipts
  <2> QED BY <1>1, <2>1, <2>2
<1>3. CASE ~deliveries[k].read
  <2>1. PICK r \in Thread : ReadMark(r) /\ k = OwnKey(req[r])
    <3>1. ~DeliveriesStand
      BY <1>1, <1>3 DEF DeliveriesStand
    <3>2. PICK r \in Thread : ReadMark(r) \/ ReadBump(r)
      BY <3>1, StepStands DEF Frame
    <3>3. ~ReadBump(r)
      BY <1>0, <1>3, BumpWrites
    <3>4. k = OwnKey(req[r])
      BY <1>0, <1>3, <3>2, <3>3, MarkWrites
    <3> QED BY <3>2, <3>3, <3>4
  <2>2. req[r].op = "read" /\ req[r].at = "mark" /\ ReadStep(r)
    BY <2>1 DEF ReadMark, At, ReadStep
  <2>3. req'[r].op = "read" /\ OwnKey(req'[r]) = k /\ req'[r].at = "rank"
    BY <1>0, <2>1, <2>2, ReadGoesOn DEF OwnKey
  <2> QED BY <2>3 DEF Marking, Receipting
<1> QED BY <1>2, <1>3

-----------------------------------------------------------------------------
(* unsend and edit.                                                        *)

\* The course of a withdrawal.
LEMMA WithdrawGoesOn ==
  ASSUME StoreTypeOK, NEW r \in Thread, WithdrawStep(r)
  PROVE  \/ req'[r].op = "idle" /\ req[r].at \in {"lookup", "unread"}
         \/ /\ req'[r].op = "idle" /\ req[r].at = "recipients"
            /\ Recipients(req[r].msg) = {} /\ UNCHANGED deliveries
         \/ /\ req'[r].op = "idle" /\ req[r].at = "tell" /\ WithdrawTell(r)
            /\ \E c \in req[r].tell :
                 /\ req[r].tell = {c}
                 /\ Emit(c, IF req[r].op = "unsend" THEN "message.recalled"
                                                    ELSE "message.edited", req[r].msg)
         \/ /\ req'[r].op = req[r].op /\ req'[r].msg = req[r].msg
            /\ \/ req[r].at = "lookup" /\ req'[r].at = "unread"
               \/ /\ req[r].at = "unread" /\ req'[r].at = "update"
                  /\ ReadBy(req[r].msg) = {} /\ UNCHANGED deliveries
               \/ req[r].at = "update" /\ req'[r].at = "recipients" /\ WithdrawUpdate(r)
               \/ /\ req[r].at = "recipients" /\ req'[r].at = "tell"
                  /\ req'[r].tell = Recipients(req[r].msg) /\ UNCHANGED deliveries
               \/ /\ req[r].at = "tell" /\ req'[r].at = "tell" /\ WithdrawTell(r)
                  /\ \E c \in req[r].tell :
                       /\ req'[r].tell = req[r].tell \ {c}
                       /\ Emit(c, IF req[r].op = "unsend" THEN "message.recalled"
                                                          ELSE "message.edited", req[r].msg)
<1>0. r \in Job /\ req[r] \in WithdrawJob /\ Idle.op = "idle"
  BY StepOps, RequestKinds DEF StoreTypeOK, Job, Idle
<1>1. ASSUME Answer(r) PROVE req'[r].op = "idle"
  BY <1>0, <1>1 DEF Answer, StoreTypeOK
<1>2. ASSUME NEW at, Goto(r, at)
      PROVE  req'[r].op = req[r].op /\ req'[r].msg = req[r].msg /\ req'[r].at = at
  <2>1. req'[r] = [req[r] EXCEPT !.at = at]
    BY <1>0, <1>2 DEF Goto, StoreTypeOK
  <2> QED BY <1>0, <2>1 DEF WithdrawJob
<1>3. CASE WithdrawLookup(r)
  <2>1. req[r].at = "lookup" /\ (Answer(r) \/ Goto(r, "unread"))
    BY <1>3 DEF WithdrawLookup, Withdrawing, At
  <2> QED BY <1>1, <1>2, <2>1
<1>4. CASE WithdrawUnread(r)
  <2>1. /\ req[r].at = "unread" /\ UNCHANGED deliveries
        /\ Answer(r) \/ (Goto(r, "update") /\ ReadBy(req[r].msg) = {})
    BY <1>4 DEF WithdrawUnread, Withdrawing, At, tables
  <2> QED BY <1>1, <1>2, <2>1
<1>5. CASE WithdrawUpdate(r)
  <2>1. req[r].at = "update" /\ Goto(r, "recipients")
    BY <1>5 DEF WithdrawUpdate, Withdrawing, At
  <2> QED BY <1>2, <1>5, <2>1
<1>6. CASE WithdrawRecipients(r)
  <2> DEFINE to == Recipients(req[r].msg)
             s == [req[r] EXCEPT !.at = "tell", !.tell = to]
  <2>1. /\ req[r].at = "recipients" /\ UNCHANGED deliveries
        /\ req' = [req EXCEPT ![r] = IF to = {} THEN Idle ELSE s]
    BY <1>6 DEF WithdrawRecipients, Withdrawing, At, tables
  <2>2. s.op = req[r].op /\ s.msg = req[r].msg /\ s.at = "tell" /\ s.tell = to
    BY <1>0 DEF WithdrawJob
  <2> HIDE DEF s
  <2>3. req'[r] = IF to = {} THEN Idle ELSE s
    BY <1>0, <2>1 DEF StoreTypeOK
  <2> QED BY <1>0, <2>1, <2>2, <2>3
<1>7. CASE WithdrawTell(r)
  <2>1. PICK c \in req[r].tell :
          /\ Emit(c, IF req[r].op = "unsend" THEN "message.recalled"
                                             ELSE "message.edited", req[r].msg)
          /\ req' = [req EXCEPT ![r] = IF req[r].tell \ {c} = {} THEN Idle
                                       ELSE [req[r] EXCEPT !.tell = req[r].tell \ {c}]]
    BY <1>7 DEF WithdrawTell
  <2> DEFINE left == req[r].tell \ {c}
             s == [req[r] EXCEPT !.tell = left]
  <2>2. /\ s.op = req[r].op /\ s.msg = req[r].msg /\ s.at = req[r].at /\ s.tell = left
    BY <1>0 DEF WithdrawJob
  <2>3. req'[r] = IF left = {} THEN Idle ELSE s
    BY <1>0, <2>1 DEF StoreTypeOK
  <2>4. req[r].at = "tell"
    BY <1>7 DEF WithdrawTell, Withdrawing, At
  <2> HIDE DEF s
  <2>5. CASE left = {}
    <3>1. req[r].tell = {c}
      BY <2>5
    <3> QED BY <1>0, <1>7, <2>1, <2>3, <2>4, <2>5, <3>1
  <2>6. CASE left # {}
    BY <1>7, <2>1, <2>2, <2>3, <2>4, <2>6
  <2> QED BY <2>5, <2>6
<1> QED BY <1>3, <1>4, <1>5, <1>6, <1>7 DEF WithdrawStep

LEMMA InWithdrawal ==
  ASSUME Inv, [Next]_vars, NEW q \in Job, req'[q].op \in {"unsend", "edit"},
         req'[q].at # "lookup"
  PROVE  \/ req'[q] = req[q]
         \/ q \in Thread /\ WithdrawStep(q) /\ req[q].op = req'[q].op
<1>1. Engaged(req'[q])
  BY DEF Engaged
<1>2. req'[q] = req[q] \/ (Goes(q) /\ req[q].op = req'[q].op)
  BY <1>1, OneHandler
<1>3. Goes(q) /\ req[q].op = req'[q].op => q \in Thread /\ WithdrawStep(q)
  BY StepOps DEF Goes, Step
<1> QED BY <1>2, <1>3

LEMMA WithdrawalStays ==
  ASSUME Inv, [Next]_vars, ~Crash, NEW r \in Thread, req[r].op \in {"unsend", "edit"}
  PROVE  req'[r] = req[r] \/ WithdrawStep(r)
<1>1. ~Begun(r)
  BY DEF Begun
<1>2. req'[r] = req[r] \/ Goes(r)
  BY <1>1, OneHandler DEF Job
<1> QED BY <1>2, StepOps DEF Goes, Step

LEMMA StillUnreadKept ==
  ASSUME Inv, Orderly, [Next]_vars, NEW q \in Job, StillUnread(req[q])
  PROVE  StillUnread(req[q])'
<1> SUFFICES ASSUME TakeTurns("read", "unsend"), TakeTurns("read", "edit"),
                    req'[q].op \in {"unsend", "edit"}, req'[q].at = "update",
                    NEW c \in Chat, <<req'[q].msg, c>> \in DOMAIN deliveries'
             PROVE  ~deliveries'[<<req'[q].msg, c>>].read
  BY DEF StillUnread, ReadBy, Recipients, TakeTurns
<1> DEFINE k == <<req'[q].msg, c>>
<1>0. StoreTypeOK /\ q # Main
  <2>1. req'[Main].op \in {"idle", "retain"}
    BY OrderlyKept DEF Orderly
  <2> QED BY <2>1 DEF Inv, TypeOK
<1>1. ASSUME k \in DOMAIN deliveries PROVE ReadBy(req'[q].msg) = {} => ~deliveries[k].read
  BY <1>1 DEF ReadBy, Recipients
<1>2. CASE req'[q] = req[q]
  <2>1. ReadBy(req'[q].msg) = {}
    BY <1>2 DEF StillUnread
  <2>2. ~\E r \in Thread : ReadMark(r)
    <3>1. q \in Thread
      BY <1>0 DEF Job
    <3> QED BY <1>2, <3>1, TurnsTaken DEF ReadMark, At
  <2>3. CASE DeliveriesStand
    BY <1>1, <2>1, <2>3 DEF DeliveriesStand
  <2>4. CASE \E r \in Thread : ReadBump(r)
    BY <1>0, <1>1, <2>1, <2>4, BumpWrites
  <2> QED BY <2>2, <2>3, <2>4, StepStands DEF Frame
<1>3. CASE q \in Thread /\ WithdrawStep(q) /\ req[q].op = req'[q].op
  <2>1. UNCHANGED deliveries /\ ReadBy(req[q].msg) = {} /\ req'[q].msg = req[q].msg
    BY <1>0, <1>3, WithdrawGoesOn
  <2> QED BY <1>1, <2>1
<1> QED BY <1>2, <1>3, InWithdrawal

\* A withdrawal rewrites its own message and no delivery.
LEMMA UpdateWrites ==
  ASSUME StoreTypeOK, NEW r, WithdrawUpdate(r)
  PROVE  /\ UNCHANGED deliveries /\ DOMAIN messages' = DOMAIN messages
         /\ \A m \in DOMAIN messages :
              /\ m # req[r].msg => messages'[m] = messages[m]
              /\ req[r].op # "unsend" => messages'[m].recalled = messages[m].recalled
              /\ req[r].op = "unsend" => messages'[m].body = messages[m].body
<1>1. \A m \in DOMAIN messages : messages[m] \in Message
  BY DEF StoreTypeOK, IsTable
<1>2. DOMAIN messages' = DOMAIN messages /\ UNCHANGED deliveries
  BY DEF WithdrawUpdate, Update
<1>3. \A m \in DOMAIN messages :
        messages'[m] = IF m \in {req[r].msg}
                       THEN IF req[r].op = "unsend" THEN [messages[m] EXCEPT !.recalled = TRUE]
                                                    ELSE [messages[m] EXCEPT !.body = "edited"]
                       ELSE messages[m]
  BY DEF WithdrawUpdate, Update
<1> QED BY <1>1, <1>2, <1>3 DEF Message

\* Whoever has a withdrawn message has been told, or is still to be.
LEMMA WithdrawalsKept ==
  ASSUME Inv, Withdrawals, [Next]_vars, ~Crash
  PROVE  Withdrawals'
<1>0. StoreTypeOK /\ Rows /\ Lasting /\ (DeliveriesAsked)' /\ TypeOK'
  BY StepKeeps DEF Inv, TypeOK, Legal, Rows
<1> DEFINE type(op) == IF op = "unsend" THEN "message.recalled" ELSE "message.edited"
           done(m, op) == IF op = "unsend" THEN messages[m].recalled
                                           ELSE messages[m].body = "edited"
<1> SUFFICES ASSUME NEW k \in DOMAIN deliveries', k[2] \notin revoked',
                    NEW op \in {"unsend", "edit"}, done(k[1], op)'
             PROVE  \/ Announced(k[2], type(op), k[1])'
                    \/ \E r \in Thread : Telling(req'[r], op, k)
  BY DEF Withdrawals, Telling
<1>1. EventsStand /\ k[2] \notin revoked
  BY StepStands DEF Frame
<1>2. k[1] \in DOMAIN messages' /\ k \in MsgId \X Chat
  BY <1>0 DEF DeliveriesAsked, TypeOK, StoreTypeOK, IsTable
<1>3. ASSUME k \in DOMAIN deliveries, done(k[1], op)
      PROVE  \/ Announced(k[2], type(op), k[1])'
             \/ \E r \in Thread : Telling(req'[r], op, k)
  <2>1. CASE Announced(k[2], type(op), k[1])
    BY <1>1, <2>1, StaysAnnounced
  <2>2. ASSUME NEW r \in Thread, Telling(req[r], op, k)
        PROVE  Announced(k[2], type(op), k[1])' \/ Telling(req'[r], op, k)
    <3>1. /\ req[r].op = op /\ req[r].msg = k[1]
          /\ req[r].at = "recipients" \/ (req[r].at = "tell" /\ k[2] \in req[r].tell)
      BY <2>2 DEF Telling
    <3>2. CASE req'[r] = req[r]
      BY <2>2, <3>2
    <3>3. CASE WithdrawStep(r)
      <4>1. CASE req[r].at = "recipients"
        <5>1. k = <<k[1], k[2]>> /\ k[2] \in Chat
          BY <1>2
        <5>2. k[2] \in Recipients(req[r].msg)
          BY <1>3, <3>1, <5>1 DEF Recipients
        <5> QED BY <1>0, <3>1, <3>3, <4>1, <5>2, WithdrawGoesOn DEF Telling
      <4>2. CASE req[r].at = "tell"
        <5>1. PICK c \in req[r].tell :
                /\ WithdrawTell(r) /\ Emit(c, type(op), k[1])
                /\ \/ req[r].tell = {c}
                   \/ /\ req'[r].op = op /\ req'[r].msg = k[1] /\ req'[r].at = "tell"
                      /\ req'[r].tell = req[r].tell \ {c}
          BY <1>0, <3>1, <3>3, <4>2, WithdrawGoesOn
        <5>2. CASE c = k[2]
          <6>1. UNCHANGED <<revoked, messages, deliveries, blobs, cursor>>
            BY <5>1 DEF WithdrawTell, quiet
          <6>2. k[1] \in MsgId /\ k[2] \in Chat /\ type(op) \in EventType
            BY <1>2 DEF EventType
          <6> HIDE DEF type
          <6> QED BY <1>0, <5>1, <5>2, <6>1, <6>2, EmittedStands
        <5>3. CASE c # k[2]
          BY <3>1, <4>2, <5>1, <5>3 DEF Telling
        <5> QED BY <5>2, <5>3
      <4> QED BY <3>1, <4>1, <4>2
    <3> QED BY <3>1, <3>2, <3>3, WithdrawalStays
  <2> QED BY <1>1, <1>3, <2>1, <2>2 DEF Withdrawals
<1>4. CASE MessagesStand
  <2>1. /\ k[1] \in DOMAIN messages /\ messages'[k[1]] = messages[k[1]]
    BY <1>2, <1>4 DEF MessagesStand
  <2>2. k[1] \in DOMAIN asked
    BY <1>0, <2>1 DEF Rows, MessagesAsked
  <2>3. k \in DOMAIN deliveries
    BY <1>0, <2>2 DEF Lasting
  <2> QED BY <1>3, <2>1, <2>3
<1>5. ASSUME NEW r \in Thread, WithdrawUpdate(r)
      PROVE  \/ Announced(k[2], type(op), k[1])'
             \/ \E q \in Thread : Telling(req'[q], op, k)
  <2>1. k \in DOMAIN deliveries /\ k[1] \in DOMAIN messages
    BY <1>0, <1>2, <1>5, UpdateWrites
  <2>2. CASE done(k[1], op)
    BY <1>3, <2>1, <2>2
  <2>3. CASE ~done(k[1], op)
    <3>1. req[r].msg = k[1] /\ req[r].op = op
      <4>1. req[r].op \in {"unsend", "edit"}
        BY <1>5 DEF WithdrawUpdate, Withdrawing, At
      <4> QED BY <1>0, <1>5, <2>1, <2>3, <4>1, UpdateWrites
    <3>2. WithdrawStep(r) /\ req[r].at = "update"
      BY <1>5 DEF WithdrawStep, WithdrawUpdate, Withdrawing, At
    <3>3. req'[r].op = op /\ req'[r].msg = k[1] /\ req'[r].at = "recipients"
      BY <1>0, <3>1, <3>2, WithdrawGoesOn
    <3> QED BY <3>3 DEF Telling
  <2> QED BY <2>2, <2>3
<1> QED BY <1>4, <1>5, StepStands DEF Frame

-----------------------------------------------------------------------------
(* retention, and what it takes away.                                      *)

\* The course of a cleaning.
LEMMA CleaningGoesOn ==
  ASSUME StoreTypeOK, NEW j \in Job, RetainStep(j)
  PROVE  \/ /\ req'[j].op = "idle"
            /\ \/ req[j].at \in {"orphans", "used", "exists", "unlink"} /\ ~req[j].days
               \/ req[j].at = "unlink" /\ files[req[j].now] = "absent"
               \/ req[j].at = "doomed" /\ DOMAIN messages \cap aged = {}
               \/ req[j].at = "messages" /\ DropMessages(j)
         \/ /\ req'[j].op = "retain" /\ req'[j].days = req[j].days
            /\ \/ /\ req[j].at \in {"orphans", "used", "exists", "unlink"} /\ req[j].days
                  /\ req'[j].at = "doomed"
               \/ req[j].at = "orphans" /\ req'[j].at = "dropOrphans"
               \/ req[j].at = "dropOrphans" /\ req'[j].at = "used"
               \/ /\ req[j].at = "used" /\ req'[j].at = "exists" /\ UNCHANGED blobs
                  /\ req'[j].now \notin ReferencedShas
               \/ /\ req[j].at = "exists" /\ req'[j].at = "unlink" /\ UNCHANGED <<blobs, files>>
                  /\ req'[j].now = req[j].now /\ files[req[j].now] # "absent"
               \/ req[j].at \in {"used", "exists", "unlink"} /\ req'[j].at = "used"
               \/ req[j].at = "messages" /\ req'[j].at = "used" /\ DropMessages(j)
         \/ /\ req'[j].op = "retain"
            /\ req[j].at = "doomed" /\ req'[j].at = "shas"
            /\ req'[j].ids = DOMAIN messages \cap aged
         \/ /\ req'[j].op = "retain" /\ req'[j].ids = req[j].ids
            /\ \/ req[j].at = "shas" /\ req'[j].at = "blobs"
               \/ req[j].at = "blobs" /\ req'[j].at = "deliveries" /\ DropBlobs(j)
               \/ req[j].at = "deliveries" /\ req'[j].at = "events" /\ DropDeliveries(j)
               \/ req[j].at = "events" /\ req'[j].at = "messages" /\ DropEvents(j)
<1>0. req[j] \in RetainJob /\ Idle.op = "idle" /\ req[j].days \in BOOLEAN
  BY StepOps, RequestKinds DEF StoreTypeOK, Idle, RetainJob
<1>1. ASSUME NEW at, Goto(j, at)
      PROVE  /\ req'[j].op = "retain" /\ req'[j].at = at /\ req'[j].ids = req[j].ids
             /\ req'[j].days = req[j].days
  <2>1. req'[j] = [req[j] EXCEPT !.at = at]
    BY <1>1 DEF Goto, StoreTypeOK
  <2> QED BY <1>0, <2>1 DEF RetainJob
<1>2. ASSUME req'[j] = NextPart(req[j])
      PROVE  \/ req'[j].op = "idle" /\ ~req[j].days
             \/ /\ req'[j].op = "retain" /\ req'[j].days = req[j].days
                /\ req[j].days /\ req'[j].at = "doomed"
  BY <1>0, <1>2 DEF NextPart, RetainJob
<1> DEFINE dropping(x, y) == [req[j] EXCEPT !.at = "dropOrphans", !.ids = x, !.shas = y]
           found(y, z) == [req[j] EXCEPT !.at = "exists", !.now = z, !.shas = y]
           there == [req[j] EXCEPT !.at = "unlink"]
           left(y) == [req[j] EXCEPT !.shas = y]
           doomed(x) == [req[j] EXCEPT !.at = "shas", !.ids = x, !.days = FALSE]
           listed(y) == [req[j] EXCEPT !.at = "blobs", !.shas = y]
           used == [req[j] EXCEPT !.at = "used"]
<1>3. \A x, y, z :
        /\ dropping(x, y).op = "retain" /\ dropping(x, y).at = "dropOrphans"
        /\ dropping(x, y).days = req[j].days
        /\ found(y, z).op = "retain" /\ found(y, z).at = "exists"
        /\ found(y, z).days = req[j].days /\ found(y, z).now = z
        /\ there.op = "retain" /\ there.at = "unlink" /\ there.days = req[j].days
        /\ there.now = req[j].now
        /\ left(y).op = "retain" /\ left(y).at = req[j].at /\ left(y).days = req[j].days
        /\ doomed(x).op = "retain" /\ doomed(x).at = "shas" /\ doomed(x).ids = x
        /\ listed(y).op = "retain" /\ listed(y).at = "blobs" /\ listed(y).ids = req[j].ids
        /\ used.op = "retain" /\ used.at = "used" /\ used.days = req[j].days
  BY <1>0 DEF RetainJob
<1>4. CASE Orphans(j)
  <2>1. PICK x, y : req' = [req EXCEPT ![j] = IF x = {} THEN NextPart(req[j])
                                              ELSE dropping(x, y)]
    BY <1>4 DEF Orphans
  <2>2. req'[j] = NextPart(req[j]) \/ req'[j] = dropping(x, y)
    BY <2>1 DEF StoreTypeOK
  <2>3. req[j].at = "orphans"
    BY <1>4 DEF Orphans, At
  <2> HIDE DEF dropping, found, there, left, doomed, listed, used
  <2> QED BY <1>2, <1>3, <2>2, <2>3
<1>5. CASE DropOrphans(j)
  <2>1. req[j].at = "dropOrphans" /\ Goto(j, "used")
    BY <1>5 DEF DropOrphans, At
  <2> QED BY <1>1, <2>1
<1>6. CASE StillUsed(j)
  <2>1. PICK z \in req[j].shas :
           req' = IF z \notin ReferencedShas
                  THEN [req EXCEPT ![j].at = "exists", ![j].now = z,
                                   ![j].shas = req[j].shas \ {z}]
                  ELSE [req EXCEPT ![j] = IF req[j].shas \ {z} = {} THEN NextPart(@)
                                          ELSE [@ EXCEPT !.shas = req[j].shas \ {z}]]
    BY <1>6 DEF StillUsed
  <2> DEFINE y == req[j].shas \ {z}
             next == IF y = {} THEN NextPart(req[j]) ELSE left(y)
  <2>2. \/ z \notin ReferencedShas /\ req' = [req EXCEPT ![j] = found(y, z)]
        \/ req' = [req EXCEPT ![j] = next]
    BY <2>1
  <2>3. req[j].at = "used" /\ UNCHANGED blobs
    BY <1>6 DEF StillUsed, At
  <2>4. next = NextPart(req[j]) \/ next = left(y)
    OBVIOUS
  <2> HIDE DEF dropping, found, there, left, doomed, listed, used, next, y
  <2>5. \/ z \notin ReferencedShas /\ req'[j] = found(y, z)
        \/ req'[j] = NextPart(req[j])
        \/ req'[j] = left(y)
    BY <2>2, <2>4 DEF StoreTypeOK
  <2> QED BY <1>2, <1>3, <2>3, <2>5
<1>7. CASE Unlink(j)
  <2>1. /\ \/ req'[j] = NextPart(req[j]) \/ req'[j] = used
           \/ req'[j] = Idle /\ files[req[j].now] = "absent"
        /\ req[j].at = "unlink"
    BY <1>7 DEF Unlink, NextFile, At
  <2> HIDE DEF dropping, found, there, left, doomed, listed, used
  <2> QED BY <1>0, <1>2, <1>3, <2>1
<1>8. CASE Doomed(j)
  <2> DEFINE old == DOMAIN messages \cap aged
  <2>1. /\ req[j].at = "doomed"
        /\ req' = [req EXCEPT ![j] =
             IF old = {} THEN Idle ELSE doomed(old)]
    BY <1>8 DEF Doomed, At
  <2>2. \/ old = {} /\ req'[j] = Idle
        \/ req'[j] = doomed(old)
    BY <2>1 DEF StoreTypeOK
  <2> HIDE DEF old, dropping, found, there, left, doomed, listed, used
  <2>3. \/ old = {} /\ req'[j].op = "idle"
        \/ req'[j].op = "retain" /\ req'[j].at = "shas" /\ req'[j].ids = old
    BY <1>0, <1>3, <2>2
  <2> QED BY <2>1, <2>3 DEF old
<1>9. CASE DoomedShas(j)
  <2>1. /\ req[j].at = "shas"
        /\ \E y : req' = [req EXCEPT ![j] = listed(y)]
    BY <1>9 DEF DoomedShas, At
  <2>2. \E y : req'[j] = listed(y)
    BY <2>1 DEF StoreTypeOK
  <2> HIDE DEF dropping, found, there, left, doomed, listed, used
  <2> QED BY <1>3, <2>1, <2>2
<1>10. CASE DropBlobs(j)
  <2>1. req[j].at = "blobs" /\ Goto(j, "deliveries")
    BY <1>10 DEF DropBlobs, At
  <2> QED BY <1>1, <1>10, <2>1
<1>11. CASE DropDeliveries(j)
  <2>1. req[j].at = "deliveries" /\ Goto(j, "events")
    BY <1>11 DEF DropDeliveries, At
  <2> QED BY <1>1, <1>11, <2>1
<1>12. CASE DropEvents(j)
  <2>1. req[j].at = "events" /\ Goto(j, "messages")
    BY <1>12 DEF DropEvents, At
  <2> QED BY <1>1, <1>12, <2>1
<1>13. CASE DropMessages(j)
  <2>1. /\ req[j].at = "messages"
        /\ req'[j] = Idle \/ req'[j] = used
    BY <1>13 DEF DropMessages, At, StoreTypeOK
  <2> HIDE DEF dropping, found, there, left, doomed, listed, used
  <2> QED BY <1>0, <1>3, <1>13, <2>1
<1>14. CASE FileExists(j)
  <2>1. req' = [req EXCEPT ![j] = IF files[req[j].now] = "absent" THEN NextFile(req[j])
                                  ELSE there]
    BY <1>14 DEF FileExists
  <2>2. /\ \/ req'[j] = NextPart(req[j]) \/ req'[j] = used
           \/ req'[j] = there /\ files[req[j].now] # "absent"
        /\ req[j].at = "exists" /\ UNCHANGED <<blobs, files>>
    BY <1>14, <2>1 DEF FileExists, NextFile, At, StoreTypeOK
  <2> HIDE DEF dropping, found, there, left, doomed, listed, used
  <2> QED BY <1>2, <1>3, <2>2
<1> QED BY <1>4, <1>5, <1>6, <1>7, <1>8, <1>9, <1>10, <1>11, <1>12, <1>13, <1>14
        DEF RetainStep

LEMMA InCleaning ==
  ASSUME Inv, [Next]_vars, NEW q \in Job, req'[q].op = "retain", req'[q].at # "orphans"
  PROVE  \/ req'[q] = req[q]
         \/ RetainStep(q) /\ req[q].op = "retain"
<1>1. Engaged(req'[q])
  BY DEF Engaged
<1>2. req'[q] = req[q] \/ (Goes(q) /\ req[q].op = "retain")
  BY <1>1, OneHandler
<1> QED BY <1>2, StepOps DEF Goes, Step

LEMMA CleaningStays ==
  ASSUME Inv, [Next]_vars, ~Crash, NEW q \in Job, req[q].op = "retain"
  PROVE  req'[q] = req[q] \/ RetainStep(q)
<1>1. ~Begun(q)
  BY DEF Begun
<1>2. req'[q] = req[q] \/ Goes(q)
  BY <1>1, OneHandler
<1> QED BY <1>2, StepOps DEF Goes, Step

LEMMA DetachedKept ==
  ASSUME Inv, [Next]_vars, NEW q \in Job, Detached(req[q])
  PROVE  Detached(req[q])'
<1> SUFFICES ASSUME req'[q].op = "retain", req'[q].at \in {"deliveries", "events", "messages"},
                    NEW b \in DOMAIN blobs', blobs'[b].attached \in req'[q].ids
             PROVE  FALSE
  BY DEF Detached
<1>0. StoreTypeOK /\ Known(req[q]) /\ BlobsStand
  BY StepStands DEF Inv, TypeOK, Knowing, Frame
<1>1. ASSUME req[q].op = "retain", req[q].at \in {"blobs", "deliveries", "events", "messages"},
             req'[q].ids = req[q].ids
      PROVE  b \in DOMAIN blobs /\ blobs[b].attached \in req[q].ids
  <2>1. req[q].ids \subseteq DOMAIN asked
    BY <1>0, <1>1 DEF Known, RetainKnown
  <2>2. None \notin DOMAIN asked
    BY <1>0 DEF StoreTypeOK, IsTable
  <2> QED BY <1>0, <1>1, <2>1, <2>2 DEF BlobsStand
<1>2. CASE req'[q] = req[q]
  BY <1>1, <1>2 DEF Detached
<1>3. CASE RetainStep(q) /\ req[q].op = "retain"
  <2>1. /\ req'[q].ids = req[q].ids
        /\ \/ req[q].at = "blobs" /\ DropBlobs(q)
           \/ req[q].at \in {"deliveries", "events"}
    BY <1>0, <1>3, CleaningGoesOn
  <2>2. b \in DOMAIN blobs /\ blobs[b].attached \in req[q].ids
    BY <1>1, <1>3, <2>1
  <2>3. CASE DropBlobs(q)
    BY <2>2, <2>3 DEF DropBlobs, Drop, Restrict, AttachmentsOf
  <2>4. CASE req[q].at \in {"deliveries", "events"}
    BY <1>3, <2>2, <2>4 DEF Detached
  <2> QED BY <2>1, <2>3, <2>4
<1> QED BY <1>2, <1>3, InCleaning

\* What goes, goes by these statements; what comes, comes whole.
Turnover ==
  /\ \A m \in DOMAIN messages \ DOMAIN messages' :
       \/ \E j \in Job : DropMessages(j) /\ m \in req[j].ids
       \/ \E r \in Thread : GcMessages(r) /\ m \in Abandoned
  /\ \A k \in DOMAIN deliveries \ DOMAIN deliveries' :
       \/ \E j \in Job : DropDeliveries(j) /\ k[1] \in req[j].ids
       \/ k[2] \in revoked /\ \E r \in Thread : GcDeliveries(r)
  /\ \A b \in DOMAIN blobs \ DOMAIN blobs' :
       \/ blobs[b].attached = None
       \/ \E j \in Job : DropBlobs(j) /\ blobs[b].attached \in req[j].ids
  /\ \A m \in DOMAIN messages' \ DOMAIN messages : Complete(m)'

LEMMA SendTurnover ==
  ASSUME StoreTypeOK, Rows, Knowing, NEW r \in Thread, SendStep(r)
  PROVE  Turnover
<1>0. PICK m : m = Fresh(MsgId, DOMAIN asked)
  OBVIOUS
<1>1. CASE \/ ResolveChat(r) \/ ResolveLabel(r) \/ ValidateBlob(r) \/ SpeakAs(r)
           \/ FindParent(r) \/ Push(r) \/ SendRollback(r)
  <2>1. UNCHANGED <<messages, deliveries, blobs>>
    BY <1>1 DEF ResolveChat, ResolveLabel, ValidateBlob, SpeakAs, FindParent, Push,
                SendRollback, tables
  <2> QED BY <2>1 DEF Turnover
<1>2. ASSUME NEW row, messages' = Put(messages, m, row)
      PROVE  DOMAIN messages' = DOMAIN messages \cup {m}
  BY <1>2 DEF Put
<1>3. \A b \in DOMAIN blobs : blobs[b].attached # None => blobs[b].attached \in DOMAIN asked
  BY DEF Rows, BlobsUploaded
<1>4. CASE RecordRemote(r)
  <2>1. m \in MsgId \ DOMAIN asked /\ UNCHANGED <<deliveries, blobs>>
    BY <1>0, <1>4, FreshId DEF RecordRemote, StoreTypeOK, IsTable
  <2>2. PICK a : /\ messages' = Put(messages, m, Row(req[r].by, a[1]))
                 /\ asked' = Put(asked, m, [from |-> req[r].by, to |-> {}, want |-> {}])
    BY <1>0, <1>4 DEF RecordRemote
  <2>3. asked'[m] = [from |-> req[r].by, to |-> {}, want |-> {}]
    BY <2>2 DEF Put
  <2>4. AttachedTo(m)' = {}
    BY <1>3, <2>1 DEF AttachedTo
  <2>5. DOMAIN messages' = DOMAIN messages \cup {m}
    BY <1>2, <2>2
  <2>6. Complete(m)'
    BY <2>3, <2>4 DEF Complete
  <2> QED BY <2>1, <2>5, <2>6 DEF Turnover
<1>5. CASE PeerCommit(r)
  <2>1. /\ m \in MsgId \ DOMAIN asked /\ UNCHANGED blobs
        /\ messages' = Put(messages, m, Row(req[r].by, None))
        /\ deliveries' = Put(deliveries, <<m, req[r].to>>, NewDelivery(None))
        /\ asked' = Put(asked, m, [from |-> req[r].by, to |-> {req[r].to}, want |-> {}])
    BY <1>0, <1>5, FreshId DEF PeerCommit, StoreTypeOK, IsTable
  <2>2. req[r] \in PeerJob
    BY <1>5, RequestKinds DEF PeerCommit, At, StoreTypeOK, Job
  <2>3. asked'[m] = [from |-> req[r].by, to |-> {req[r].to}, want |-> {}]
    BY <2>1 DEF Put
  <2>4. AttachedTo(m)' = {}
    BY <1>3, <2>1 DEF AttachedTo
  <2>5. DOMAIN messages' = DOMAIN messages \cup {m}
    BY <1>2, <2>1
  <2>6. DOMAIN deliveries' = DOMAIN deliveries \cup {<<m, req[r].to>>}
    BY <2>1 DEF Put
  <2>7. req[r].to \in Recipients(m)'
    BY <2>2, <2>6 DEF Recipients, PeerJob
  <2>8. Complete(m)'
    BY <2>3, <2>4, <2>7 DEF Complete
  <2> QED BY <2>1, <2>5, <2>6, <2>8 DEF Turnover
<1>6. CASE SendCommit(r)
  <2>1. /\ Written(req[r], m) /\ Attached(req[r], m) /\ Delivered(req[r], m)
        /\ req[r].to \subseteq Chat \X (Label \cup {None})
    BY <1>0, <1>6, SendCommitWrites
  <2>2. req[r].want \subseteq DOMAIN blobs
    BY <1>6 DEF SendCommit, IsRefused, CanAttach
  <2>3. DOMAIN messages' = DOMAIN messages \cup {m}
    BY <1>2, <2>1 DEF Written
  <2>4. asked'[m] = [from |-> req[r].by, want |-> req[r].want, to |-> Chats(req[r])]
    BY <2>1 DEF Written, Put
  <2>5. m \in MsgId \ DOMAIN asked
    BY <2>1 DEF Written
  <2>6. AttachedTo(m)' = req[r].want
    BY <1>3, <2>1, <2>2, <2>5 DEF Attached, AttachedTo
  <2>7. Chats(req[r]) \subseteq Recipients(m)'
    BY <2>1 DEF Delivered, Recipients, Chats
  <2>8. Complete(m)'
    BY <2>4, <2>6, <2>7 DEF Complete
  <2>9. DOMAIN deliveries \subseteq DOMAIN deliveries' /\ DOMAIN blobs' = DOMAIN blobs
    BY <2>1 DEF Delivered, Attached
  <2> QED BY <2>3, <2>8, <2>9 DEF Turnover
<1> QED BY <1>1, <1>4, <1>5, <1>6 DEF SendStep

LEMMA StepTurnover ==
  ASSUME Inv, [Next]_vars
  PROVE  Turnover
<1>0. StoreTypeOK /\ Rows /\ Knowing
  BY DEF Inv, TypeOK
<1>1. ASSUME DOMAIN messages' = DOMAIN messages, DOMAIN deliveries' = DOMAIN deliveries,
             DOMAIN blobs \subseteq DOMAIN blobs'
      PROVE  Turnover
  BY <1>1 DEF Turnover
<1>2. ASSUME UNCHANGED tables PROVE Turnover
  BY <1>1, <1>2 DEF tables
<1>3. ASSUME NEW r \in Thread, ReadStep(r) PROVE Turnover
  BY <1>1, <1>3 DEF ReadStep, ReadLookup, ReadUnread, ReadMark, ReadRank, ReadBump, ReadTell,
                    ReadView, Archive, tables, Update
<1>4. ASSUME NEW r \in Thread, WithdrawStep(r) PROVE Turnover
  BY <1>1, <1>4 DEF WithdrawStep, WithdrawLookup, WithdrawUnread, WithdrawUpdate,
                    WithdrawRecipients, WithdrawTell, tables, Update
<1>5. ASSUME NEW r \in Thread, AttachmentStep(r) PROVE Turnover
  BY <1>1, <1>5 DEF AttachmentStep, UploadExists, UploadReplace, InlineExists, InlineTruncate,
                    InlineWrite, InsertBlob, DownloadLookup, DownloadBlob, DownloadOpen,
                    DownloadServe, still, Put
<1>6. ASSUME NEW j \in Job, RetainStep(j) PROVE Turnover
  <2>1. CASE \/ Orphans(j) \/ StillUsed(j) \/ FileExists(j) \/ Unlink(j)
             \/ Doomed(j) \/ DoomedShas(j) \/ DropEvents(j)
    BY <1>1, <2>1 DEF Orphans, StillUsed, FileExists, Unlink, Doomed, DoomedShas, DropEvents
  <2>2. CASE DropOrphans(j)
    BY <2>2 DEF DropOrphans, Drop, Restrict, Turnover
  <2>3. CASE DropBlobs(j)
    <3>1. /\ UNCHANGED <<messages, deliveries>>
          /\ DOMAIN blobs' = DOMAIN blobs \ AttachmentsOf(req[j].ids)
      BY <2>3 DEF DropBlobs, Drop, Restrict
    <3> QED BY <2>3, <3>1 DEF AttachmentsOf, Turnover
  <2>4. CASE DropDeliveries(j)
    <3>1. /\ UNCHANGED <<messages, blobs>>
          /\ DOMAIN deliveries' = DOMAIN deliveries \ DeliveriesOf(req[j].ids)
      BY <2>4 DEF DropDeliveries, Drop, Restrict
    <3> QED BY <2>4, <3>1 DEF DeliveriesOf, Turnover
  <2>5. CASE DropMessages(j)
    <3>1. /\ UNCHANGED <<deliveries, blobs>>
          /\ DOMAIN messages' = DOMAIN messages \ req[j].ids
      BY <2>5 DEF DropMessages, Drop, Restrict
    <3> QED BY <2>5, <3>1 DEF Turnover
  <2> QED BY <1>6, <2>1, <2>2, <2>3, <2>4, <2>5 DEF RetainStep
<1>7. ASSUME NEW r \in Thread, GcStep(r) PROVE Turnover
  <2>1. CASE GcDeliveries(r)
    <3>1. /\ UNCHANGED <<messages, blobs>>
          /\ DOMAIN deliveries' = DOMAIN deliveries \ InRevokedBoxes
      BY <2>1 DEF GcDeliveries, Drop, Restrict
    <3> QED BY <2>1, <3>1 DEF InRevokedBoxes, Turnover
  <2>2. CASE GcMessages(r)
    <3>1. /\ UNCHANGED <<deliveries, blobs>>
          /\ DOMAIN messages' = DOMAIN messages \ Abandoned
      BY <2>2 DEF GcMessages, Drop, Restrict
    <3> QED BY <2>2, <3>1 DEF Turnover
  <2>3. CASE GcEvents(r)
    BY <1>1, <2>3 DEF GcEvents
  <2> QED BY <1>7, <2>1, <2>2, <2>3 DEF GcStep
<1>8. ASSUME NEW j \in Job, Goes(j) PROVE Turnover
  BY <1>0, <1>2, <1>3, <1>4, <1>5, <1>6, <1>7, <1>8, SendTurnover, FilesStand
     DEF Goes, Step
<1>9. Crash => UNCHANGED tables
  BY DEF Crash, unmoved, tables
<1> QED BY <1>2, <1>8, <1>9, StepIs

\* An attachment outlives its message by garbage collection alone: retention
\* takes the attachments before the message.
LEMMA StrandedKept ==
  ASSUME Inv, Relying, NoStrandedAttachment, [Next]_vars
  PROVE  NoStrandedAttachment'
<1> SUFFICES ASSUME NEW b \in DOMAIN blobs', blobs'[b].attached # None,
                    asked'[blobs'[b].attached].from \notin revoked'
             PROVE  blobs'[b].attached \in DOMAIN messages'
  BY DEF NoStrandedAttachment
<1>0. StoreTypeOK /\ Rows /\ Lasting /\ BlobsStand /\ revoked \subseteq revoked' /\ Turnover
  BY StepKeeps, StepStands, StepTurnover DEF Inv, TypeOK, Legal, Frame
<1>1. CASE b \in DOMAIN blobs /\ blobs'[b].attached = blobs[b].attached
  <2> DEFINE m == blobs[b].attached
  <2>1. m \in DOMAIN asked /\ asked'[m] = asked[m]
    BY <1>0, <1>1 DEF Rows, BlobsUploaded, Lasting
  <2>2. m \in DOMAIN messages /\ asked[m].from \notin revoked
    BY <1>0, <1>1, <2>1 DEF NoStrandedAttachment
  <2> HIDE DEF m
  <2>3. ASSUME NEW j \in Job, DropMessages(j), m \in req[j].ids PROVE FALSE
    <3>1. req[j].op = "retain" /\ req[j].at = "messages"
      BY <2>3 DEF DropMessages, At
    <3>2. Detached(req[j])
      BY DEF Relying, Relies
    <3> QED BY <1>1, <2>3, <3>1, <3>2 DEF Detached, m
  <2>4. m \notin Abandoned
    BY <1>0, <2>2 DEF Rows, MessagesAsked, Abandoned
  <2> QED BY <1>0, <1>1, <2>2, <2>3, <2>4 DEF Turnover, m
<1>2. CASE blobs'[b].attached \in DOMAIN messages'
  BY <1>2
<1> QED BY <1>0, <1>1, <1>2 DEF BlobsStand

\* Cleaning takes attachments, and then deliveries, from what is going.
LEMMA DroppedIsGoing ==
  ASSUME Inv, NEW j \in Job, DropBlobs(j) \/ DropDeliveries(j), NEW m \in req[j].ids
  PROVE  BeingForgotten(m)'
<1>1. RetainStep(j) /\ req[j].at \in {"blobs", "deliveries"}
  BY DEF RetainStep, DropBlobs, DropDeliveries, At
<1>2. /\ req'[j].op = "retain" /\ req'[j].ids = req[j].ids
      /\ req'[j].at \in {"deliveries", "events"}
  BY <1>1, CleaningGoesOn DEF Inv, TypeOK
<1> QED BY <1>2 DEF BeingForgotten

\* Nothing else takes an attachment from its message, or gives it another.
LEMMA AttachedStays ==
  ASSUME Inv, [Next]_vars, NEW m \in DOMAIN messages, ~BeingForgotten(m)'
  PROVE  AttachedTo(m)' = AttachedTo(m)
<1>0. StoreTypeOK /\ Rows /\ BlobsStand /\ Turnover
  BY StepStands, StepTurnover DEF Inv, TypeOK, Frame
<1>1. m \in DOMAIN asked /\ m # None
  BY <1>0 DEF Rows, MessagesAsked, StoreTypeOK, IsTable
<1>2. ASSUME NEW b \in AttachedTo(m) PROVE b \in AttachedTo(m)'
  <2>1. b \in DOMAIN blobs /\ blobs[b].attached = m
    BY <1>2 DEF AttachedTo
  <2>2. b \in DOMAIN blobs'
    BY <1>0, <1>1, <2>1, DroppedIsGoing DEF Turnover
  <2> QED BY <1>0, <1>1, <2>1, <2>2 DEF BlobsStand, AttachedTo
<1>3. ASSUME NEW b \in AttachedTo(m)' PROVE b \in AttachedTo(m)
  <2>1. b \in DOMAIN blobs' /\ blobs'[b].attached = m
    BY <1>3 DEF AttachedTo
  <2> QED BY <1>0, <1>1, <2>1 DEF BlobsStand, AttachedTo
<1> QED BY <1>2, <1>3

\* A message that is here whole stays whole, or its rows start to go.
LEMMA StaysComplete ==
  ASSUME Inv, [Next]_vars, NEW m \in DOMAIN messages, Complete(m)
  PROVE  Complete(m)' \/ BeingForgotten(m)'
<1>0. StoreTypeOK /\ Rows /\ Lasting /\ revoked \subseteq revoked' /\ Turnover
  BY StepKeeps, StepStands, StepTurnover DEF Inv, TypeOK, Legal, Frame
<1>1. asked'[m] = asked[m]
  BY <1>0 DEF Rows, MessagesAsked, Lasting
<1>4. ASSUME ~BeingForgotten(m)', NEW c \in asked[m].to \ revoked'
      PROVE  c \in Recipients(m)'
  <2>1. c \in Recipients(m)
    BY <1>0, <1>4 DEF Complete
  <2>2. c \in Chat /\ <<m, c>> \in DOMAIN deliveries
    BY <2>1 DEF Recipients
  <2>3. <<m, c>>[1] = m /\ <<m, c>>[2] = c
    OBVIOUS
  <2>4. <<m, c>> \in DOMAIN deliveries'
    BY <1>0, <1>4, <2>2, <2>3, DroppedIsGoing DEF Turnover
  <2> QED BY <2>2, <2>4 DEF Recipients
<1> QED BY <1>1, <1>4, AttachedStays DEF Complete

\* What is going goes on, unless the process dies.
LEMMA ForgettingGoesOn ==
  ASSUME Inv, [Next]_vars, ~Crash, NEW m \in DOMAIN messages', BeingForgotten(m)
  PROVE  BeingForgotten(m)'
<1>1. PICK j \in Job : /\ req[j].op = "retain" /\ m \in req[j].ids
                       /\ req[j].at \in {"deliveries", "events", "messages"}
  BY DEF BeingForgotten
<1>2. CASE req'[j] = req[j]
  BY <1>1, <1>2 DEF BeingForgotten
<1>3. CASE RetainStep(j)
  <2>1. \/ DropMessages(j)
        \/ /\ req'[j].op = "retain" /\ req'[j].ids = req[j].ids
           /\ req'[j].at \in {"events", "messages"}
    BY <1>1, <1>3, CleaningGoesOn DEF Inv, TypeOK
  <2>2. ~DropMessages(j)
    BY <1>1 DEF DropMessages, Drop, Restrict
  <2> QED BY <1>1, <2>1, <2>2 DEF BeingForgotten
<1> QED BY <1>1, <1>2, <1>3, CleaningStays

\* While the start cleans, nothing else happens.
LEMMA StartGoesOn ==
  ASSUME Inv, Orderly, [Next]_vars, req[Main].op = "retain", ~Crash
  PROVE  RetainStep(Main) \/ UNCHANGED vars
<1>0. StoreTypeOK /\ Main \in Job /\ Thread \subseteq Job /\ Idle.op = "idle"
  BY DEF Inv, TypeOK, Job, Idle
<1>1. req[Main] # Idle /\ \A r \in Thread : req[r].op = "idle"
  BY <1>0 DEF Orderly, Free
<1>2. ASSUME NEW r \in Thread, Begin(r) PROVE FALSE
  <2>1. Begun(r) \/ RevokeChat(r)
    BY <1>0, <1>2, BeginMoves
  <2> QED BY <1>1, <2>1 DEF Begun, RevokeChat, Serving
<1>3. ASSUME NEW r \in Thread, Step(r) PROVE FALSE
  BY <1>0, <1>1, <1>3, StepOps DEF Step
<1>4. ASSUME NEW c \in Chat, Poll(c) PROVE FALSE
  BY <1>1, <1>4 DEF Poll, Serving
<1>5. ASSUME HoursPass \/ DaysPass PROVE FALSE
  BY <1>0, <1>1, <1>5 DEF HoursPass, DaysPass, AtRest
<1>6. ASSUME Stop PROVE UNCHANGED vars
  BY <1>6 DEF Stop
<1> QED BY <1>2, <1>3, <1>4, <1>5, <1>6 DEF Next, Work

LEMMA StartsOverKept ==
  ASSUME Inv, Orderly, StartsOver, [Next]_vars
  PROVE  StartsOver'
<1> SUFFICES ASSUME req'[Main].op = "retain" PROVE StartsOver'
  BY DEF StartsOver
<1>0. StoreTypeOK /\ Main \in Job /\ Window \in BOOLEAN
  BY HousekeepingAssumption DEF Inv, TypeOK, Job
<1>1. CASE Crash
  <2>1. req'[Main] = Retention(Window)
    BY <1>0, <1>1 DEF Crash
  <2> QED BY <1>0, <2>1 DEF Retention, StartsOver, AboutUploads
<1>2. CASE ~Crash
  <2>1. req[Main].op = "retain"
    <3>1. ASSUME NEW r \in Thread, Begun(r) PROVE req'[Main] = req[Main]
      BY <1>0, <3>1 DEF Begun, StoreTypeOK
    <3>2. ASSUME NEW j \in Job, Goes(j) PROVE req'[Main].op \in {req[Main].op, "idle"}
      BY <1>0, <3>2, StepMoves DEF Moves, UnlinkMoves
    <3> QED BY <1>2, <3>1, <3>2, StepIs
  <2>2. CASE UNCHANGED vars
    BY <2>1, <2>2 DEF vars, store, StartsOver
  <2>3. CASE RetainStep(Main)
    <3>0. req[Main].days \in BOOLEAN
      BY <1>0, <2>1, RequestKinds DEF StoreTypeOK, RetainJob
    <3>1. UNCHANGED aged /\ DOMAIN messages' \subseteq DOMAIN messages
      BY <2>3 DEF RetainStep, Orphans, DropOrphans, StillUsed, FileExists, Unlink, Doomed,
         DoomedShas, DropBlobs, DropDeliveries, DropEvents, DropMessages, Drop, Restrict
    <3>2. DropMessages(Main) => DOMAIN messages' = DOMAIN messages \ req[Main].ids
      BY DEF DropMessages, Drop, Restrict
    <3> QED BY <1>0, <2>1, <2>3, <3>0, <3>1, <3>2, CleaningGoesOn DEF StartsOver, AboutUploads
  <2> QED BY <1>2, <2>1, <2>2, <2>3, StartGoesOn
<1> QED BY <1>1, <1>2

\* What has started to go ends gone, by the statements that follow or by the
\* start that follows a crash.
LEMMA GoingOn ==
  ASSUME Inv, Orderly, StartsOver, [Next]_vars, Resumes',
         NEW m \in DOMAIN messages \cap DOMAIN messages', Going(m)
  PROVE  Going(m)'
<1>0. StoreTypeOK /\ Rows /\ Knowing /\ Lasting /\ Main \in Job
  BY StepKeeps DEF Inv, TypeOK, Legal, Job
<1>1. m \in aged
  BY <1>0 DEF Going, BeingResumed, BeingForgotten, Knowing, Known, RetainKnown
<1>2. m \in aged'
  BY <1>0, <1>1 DEF Lasting
<1>3. CASE Crash
  <2>1. Window
    BY <1>0, <1>3, HousekeepingAssumption DEF Crash, Resumes, Orderly, StoreTypeOK
  <2>2. req'[Main] = Retention(Window)
    BY <1>0, <1>3 DEF Crash
  <2> QED BY <1>2, <2>1, <2>2 DEF Retention, Going, BeingResumed
<1>5. ASSUME ~Crash, BeingResumed(m) PROVE Going(m)'
  <2>1. /\ req[Main].op = "retain"
        /\ \/ req[Main].days /\ req[Main].at \in {"orphans", "dropOrphans", "used",
                                                  "exists", "unlink", "doomed"}
           \/ req[Main].at \in {"shas", "blobs"} /\ m \in req[Main].ids
    BY <1>5 DEF BeingResumed
  <2>2. CASE req'[Main] = req[Main]
    BY <1>2, <2>1, <2>2 DEF Going, BeingResumed
  <2>3. CASE RetainStep(Main)
    <3>1. CASE req[Main].days /\ req[Main].at \in {"orphans", "dropOrphans", "used",
                                                    "exists", "unlink"}
      <4>1. /\ req'[Main].op = "retain" /\ req'[Main].days
            /\ req'[Main].at \in {"dropOrphans", "used", "exists", "unlink", "doomed"}
        BY <1>0, <2>1, <2>3, <3>1, CleaningGoesOn DEF StartsOver
      <4> QED BY <1>2, <4>1 DEF Going, BeingResumed
    <3>2. CASE req[Main].at = "doomed"
      <4>1. /\ req'[Main].op = "retain" /\ req'[Main].at = "shas" /\ m \in req'[Main].ids
        BY <1>0, <1>1, <2>3, <3>2, CleaningGoesOn
      <4> QED BY <1>2, <4>1 DEF Going, BeingResumed
    <3>3. CASE req[Main].at \in {"shas", "blobs"} /\ m \in req[Main].ids
      <4>1. /\ req'[Main].op = "retain" /\ m \in req'[Main].ids
            /\ req'[Main].at \in {"blobs", "deliveries"}
        BY <1>0, <2>3, <3>3, CleaningGoesOn
      <4> QED BY <1>0, <1>2, <4>1 DEF Going, BeingResumed, BeingForgotten
    <3> QED BY <2>1, <3>1, <3>2, <3>3
  <2> QED BY <1>0, <1>5, <2>1, <2>2, <2>3, CleaningStays
<1> QED BY <1>3, <1>5, ForgettingGoesOn DEF Going

LEMMA AllOrNothingKept ==
  ASSUME Inv, Orderly, StartsOver, AllOrNothing, [Next]_vars
  PROVE  AllOrNothing'
<1> SUFFICES ASSUME Resumes', NEW m \in DOMAIN messages'
             PROVE  Complete(m)' \/ Going(m)'
  BY DEF AllOrNothing
<1>1. CASE m \notin DOMAIN messages
  BY <1>1, StepTurnover DEF Turnover
<1>2. CASE m \in DOMAIN messages
  <2>1. Resumes
    <3>1. UNCHANGED boots \/ Crash
      BY StepStands
    <3>2. boots \in Nat /\ boots >= 1
      BY DEF Inv, TypeOK, StoreTypeOK, Orderly
    <3> QED BY <3>1, <3>2 DEF Resumes, Crash
  <2>2. Complete(m) \/ Going(m)
    BY <1>2, <2>1 DEF AllOrNothing
  <2>3. Going(m) => Going(m)'
    BY <1>2, GoingOn
  <2>4. Complete(m) => Complete(m)' \/ BeingForgotten(m)'
    BY <1>2, StaysComplete
  <2>5. BeingForgotten(m)' => Going(m)'
    BY DEF Going
  <2> QED BY <2>2, <2>3, <2>4, <2>5
<1> QED BY <1>1, <1>2

-----------------------------------------------------------------------------
(* The bytes, when no cleaning runs beside an upload.                      *)

\* An upload comes to its row, and a download to its bytes, past the file.
LEMMA AttachmentGoesOn ==
  ASSUME StoreTypeOK, NEW r \in Thread, AttachmentStep(r)
  PROVE  /\ req'[r].op = "upload" /\ req'[r].at = "insert" =>
              /\ req'[r].sha = req[r].sha
              /\ UploadReplace(r) \/ (files[req[r].sha] # "absent" /\ UNCHANGED files)
         /\ req'[r].op = "download" /\ req'[r].at = "serve" =>
              /\ req'[r].sha = req[r].sha /\ req[r].op = "download" /\ req[r].at = "open"
              /\ files[req[r].sha] # "absent" /\ UNCHANGED files
         /\ req'[r].op = "download" /\ req'[r].at = "open" => req'[r].sha \in Sha
<1>0. r \in Job /\ req[r] \in UploadJob \cup DownloadJob /\ Idle.op = "idle"
  BY StepOps, RequestKinds DEF StoreTypeOK, Job, Idle
<1>1. ASSUME Answer(r) PROVE req'[r].op = "idle"
  BY <1>0, <1>1 DEF Answer, StoreTypeOK
<1>2. ASSUME NEW at, Goto(r, at)
      PROVE  req'[r].op = req[r].op /\ req'[r].sha = req[r].sha /\ req'[r].at = at
  <2>1. req'[r] = [req[r] EXCEPT !.at = at]
    BY <1>0, <1>2 DEF Goto, StoreTypeOK
  <2> QED BY <1>0, <2>1 DEF UploadJob, DownloadJob
<1>3. CASE UploadExists(r)
  <2>1. /\ req[r].op = "upload" /\ UNCHANGED files
        /\ Goto(r, IF files[req[r].sha] = "absent" THEN "replace" ELSE "insert")
    BY <1>3 DEF UploadExists, At
  <2> QED BY <1>2, <2>1
<1>4. CASE UploadReplace(r)
  <2>1. req[r].op = "upload" /\ Goto(r, "insert")
    BY <1>4 DEF UploadReplace, At
  <2> QED BY <1>2, <1>4, <2>1
<1>5. CASE InlineExists(r) \/ InlineTruncate(r) \/ InlineWrite(r)
  <2>1. req[r].op = "inline" /\ \E at : Goto(r, at)
    BY <1>5 DEF InlineExists, InlineTruncate, InlineWrite, At
  <2> QED BY <1>2, <2>1
<1>6. CASE InsertBlob(r) \/ DownloadServe(r)
  BY <1>1, <1>6 DEF InsertBlob, DownloadServe
<1>7. CASE DownloadLookup(r)
  <2>1. req[r].op = "download" /\ (Answer(r) \/ Goto(r, "blob"))
    BY <1>7 DEF DownloadLookup, At
  <2> QED BY <1>1, <1>2, <2>1
<1>8. CASE DownloadBlob(r)
  <2> DEFINE s == [req[r] EXCEPT !.at = "open", !.sha = blobs[req[r].blob].sha]
  <2>1. req[r].op = "download" /\ (Answer(r) \/ req' = [req EXCEPT ![r] = s])
    BY <1>8 DEF DownloadBlob, At
  <2>2. req[r] \in DownloadJob
    BY <1>0, <2>1 DEF UploadJob
  <2>3. s.op = "download" /\ s.at = "open" /\ s.sha = blobs[req[r].blob].sha
    BY <2>1, <2>2 DEF DownloadJob
  <2>5. Answer(r) \/ s.sha \in Sha
    <3>1. Answer(r) \/ req[r].blob \in DOMAIN blobs
      BY <1>8 DEF DownloadBlob, AttachedTo
    <3>2. req[r].blob \in DOMAIN blobs => blobs[req[r].blob].sha \in Sha
      BY DEF StoreTypeOK, IsTable, Blob
    <3> HIDE DEF s
    <3> QED BY <2>3, <3>1, <3>2
  <2> HIDE DEF s
  <2>4. Answer(r) \/ req'[r] = s
    BY <1>0, <2>1 DEF StoreTypeOK
  <2> QED BY <1>1, <2>3, <2>4, <2>5
<1>9. CASE DownloadOpen(r)
  <2>1. /\ req[r].op = "download" /\ req[r].at = "open" /\ UNCHANGED files
        /\ Answer(r) \/ (Goto(r, "serve") /\ files[req[r].sha] # "absent")
    BY <1>9 DEF DownloadOpen, At
  <2> QED BY <1>1, <1>2, <2>1
<1> QED BY <1>3, <1>4, <1>5, <1>6, <1>7, <1>8, <1>9 DEF AttachmentStep

LEMMA InAttachment ==
  ASSUME Inv, [Next]_vars, NEW q \in Job, req'[q].op \in {"upload", "download"},
         Engaged(req'[q])
  PROVE  \/ req'[q] = req[q]
         \/ q \in Thread /\ AttachmentStep(q) /\ req[q].op = req'[q].op
<1>1. req'[q] = req[q] \/ (Goes(q) /\ req[q].op = req'[q].op)
  BY OneHandler
<1>2. Goes(q) /\ req[q].op = req'[q].op => q \in Thread /\ AttachmentStep(q)
  BY StepOps DEF Goes, Step
<1> QED BY <1>1, <1>2

\* Nothing but an upload that is complete, or an unlink, changes the files.
LEMMA FilesChange ==
  ASSUME Inv, Orderly, BytesAreSafe, [Next]_vars
  PROVE  \/ files' = files
         \/ \E r \in Thread : /\ req[r].op = "upload" /\ UploadReplace(r)
                              /\ files' = [files EXCEPT ![req[r].sha] = "whole"]
         \/ \E j \in Job : /\ req[j].op = "retain" /\ req[j].at = "unlink"
                           /\ files' = [files EXCEPT ![req[j].now] = "absent"]
<1>1. ASSUME NEW r \in Thread, InlineTruncate(r) \/ InlineWrite(r) PROVE FALSE
  BY <1>1 DEF InlineTruncate, InlineWrite, At, Orderly, Free, BytesAreSafe
<1>2. ASSUME NEW r \in Thread, UploadReplace(r)
      PROVE  req[r].op = "upload" /\ files' = [files EXCEPT ![req[r].sha] = "whole"]
  BY <1>2 DEF UploadReplace, At
<1>3. ASSUME NEW j \in Job, Unlink(j)
      PROVE  /\ req[j].op = "retain" /\ req[j].at = "unlink"
             /\ files' = [files EXCEPT ![req[j].now] = "absent"]
  BY <1>3 DEF Unlink, At
<1> QED BY <1>1, <1>2, <1>3, StepStands DEF Frame

\* No cleaning is under way beside an operation that takes turns with it.
LEMMA NoCleaning ==
  ASSUME Orderly, NEW a, TakeTurns(a, "retain"), a \notin {"idle", "retain"},
         NEW q \in Thread, req[q].op = a, NEW j \in Job, req[j].op = "retain"
  PROVE  FALSE
<1>1. CASE j \in Thread
  BY <1>1, TurnsTaken
<1>2. CASE j = Main
  BY <1>2, StartIsAlone
<1> QED BY <1>1, <1>2 DEF Job

\* What an upload, a cleaning or a download has seen of the files still holds.
LEMMA StillStoredKept ==
  ASSUME Inv, Orderly, StoredWhole, [Next]_vars, NEW q \in Job, StillStored(req[q])
  PROVE  StillStored(req[q])'
<1> SUFFICES ASSUME BytesAreSafe
             PROVE  /\ req'[q].op = "upload" /\ req'[q].at = "insert"
                         => files'[req'[q].sha] = "whole"
                    /\ req'[q].op = "retain" /\ req'[q].at \in {"exists", "unlink"}
                         => req'[q].now \notin ReferencedShas'
                    /\ TakeTurns("download", "retain") /\ req'[q].op = "download"
                           /\ req'[q].at = "serve"
                         => files'[req'[q].sha] = "whole"
                    /\ req'[q].op = "download" /\ req'[q].at \in {"open", "serve"}
                         => req'[q].sha \in Sha
  BY DEF StillStored, BytesAreSafe, TakeTurns
<1>0. /\ StoreTypeOK /\ files \in [Sha -> File] /\ req'[Main].op \in {"idle", "retain"}
      /\ req' \in [Job -> Request] /\ TypeOK'
  BY OrderlyKept, StepKeeps DEF Inv, TypeOK, StoreTypeOK, Orderly
<1>1. ASSUME req'[q].op = "upload", req'[q].at = "insert"
      PROVE  files'[req'[q].sha] = "whole"
  <2>1. q \in Thread /\ Engaged(req'[q])
    BY <1>0, <1>1 DEF Job, Engaged
  <2>2. req'[q].sha \in Sha
    BY <1>0, <1>1, RequestKinds DEF UploadJob
  <2>3. CASE req'[q] = req[q]
    <3>1. files[req[q].sha] = "whole"
      BY <1>1, <2>3 DEF StillStored
    <3>2. ~\E j \in Job : req[j].op = "retain"
      BY <1>1, <2>1, <2>3, NoCleaning DEF BytesAreSafe
    <3> QED BY <1>0, <2>2, <2>3, <3>1, <3>2, FilesChange
  <2>4. CASE AttachmentStep(q)
    <3>1. /\ req'[q].sha = req[q].sha
          /\ UploadReplace(q) \/ (files[req[q].sha] # "absent" /\ UNCHANGED files)
      BY <1>0, <1>1, <2>1, <2>4, AttachmentGoesOn
    <3>2. CASE UploadReplace(q)
      BY <1>0, <2>2, <3>1, <3>2 DEF UploadReplace
    <3>3. CASE files[req[q].sha] # "absent" /\ UNCHANGED files
      BY <1>0, <2>2, <3>1, <3>3 DEF StoredWhole, File
    <3> QED BY <3>1, <3>2, <3>3
  <2> QED BY <1>1, <2>1, <2>3, <2>4, InAttachment
<1>2. ASSUME req'[q].op = "retain", req'[q].at \in {"exists", "unlink"}
      PROVE  req'[q].now \notin ReferencedShas'
  <2>1. CASE req'[q] = req[q]
    <3>1. req[q].now \notin ReferencedShas
      BY <1>2, <2>1 DEF StillStored
    <3>2. ~\E r \in Thread : InsertBlob(r)
      <4>1. ASSUME NEW r \in Thread, InsertBlob(r) PROVE FALSE
        <5>1. req[r].op = "upload"
          BY <4>1 DEF InsertBlob, Uploading, At, Orderly, Free, BytesAreSafe
        <5> QED BY <1>2, <2>1, <5>1, NoCleaning DEF BytesAreSafe
      <4> QED BY <4>1
    <3>3. \A b \in DOMAIN blobs' : b \in DOMAIN blobs /\ blobs'[b].sha = blobs[b].sha
      BY <3>2, StepStands DEF Frame, BlobsStand
    <3> QED BY <2>1, <3>1, <3>3 DEF ReferencedShas
  <2>2. CASE RetainStep(q)
    <3>1. \/ UNCHANGED blobs /\ req'[q].now \notin ReferencedShas
          \/ /\ UNCHANGED blobs /\ req[q].op = "retain" /\ req[q].at = "exists"
             /\ req'[q].now = req[q].now
      BY <1>0, <1>2, <2>2, CleaningGoesOn, StepOps
    <3> QED BY <3>1 DEF StillStored, ReferencedShas
  <2> QED BY <1>2, <2>1, <2>2, InCleaning
<1>3. ASSUME TakeTurns("download", "retain"), req'[q].op = "download", req'[q].at = "serve"
      PROVE  files'[req'[q].sha] = "whole"
  <2>1. q \in Thread /\ Engaged(req'[q])
    BY <1>0, <1>3 DEF Job, Engaged
  <2>2. CASE req'[q] = req[q]
    <3>1. files[req[q].sha] = "whole"
      BY <1>3, <2>2 DEF StillStored
    <3>2. ~\E j \in Job : req[j].op = "retain"
      BY <1>3, <2>1, <2>2, NoCleaning
    <3>3. UNCHANGED files \/ \E x : files' = [files EXCEPT ![x] = "whole"]
      BY <3>2, FilesChange
    <3>4. req[q].sha \in Sha
      BY <1>3, <2>2 DEF StillStored
    <3> QED BY <1>0, <2>2, <3>1, <3>3, <3>4
  <2>3. CASE AttachmentStep(q)
    <3>1. /\ req'[q].sha = req[q].sha /\ files[req[q].sha] # "absent" /\ UNCHANGED files
          /\ req[q].op = "download" /\ req[q].at = "open"
      BY <1>0, <1>3, <2>1, <2>3, AttachmentGoesOn
    <3>2. req[q].sha \in Sha
      BY <3>1 DEF StillStored
    <3> QED BY <1>0, <3>1, <3>2 DEF StoredWhole, File
  <2> QED BY <1>3, <2>1, <2>2, <2>3, InAttachment
<1>4. ASSUME req'[q].op = "download", req'[q].at \in {"open", "serve"}
      PROVE  req'[q].sha \in Sha
  <2>1. q \in Thread /\ Engaged(req'[q])
    BY <1>0, <1>4 DEF Job, Engaged
  <2>2. CASE req'[q] = req[q]
    BY <1>4, <2>2 DEF StillStored
  <2>3. CASE AttachmentStep(q)
    BY <1>0, <1>4, <2>1, <2>3, AttachmentGoesOn DEF StillStored
  <2> QED BY <1>4, <2>1, <2>2, <2>3, InAttachment
<1> QED BY <1>1, <1>2, <1>3, <1>4

\* So every row has its bytes.
LEMMA StoredWholeKept ==
  ASSUME Inv, Orderly, Relying, StoredWhole, [Next]_vars
  PROVE  StoredWhole'
<1> SUFFICES ASSUME BytesAreSafe
             PROVE  /\ \A sha \in Sha : files'[sha] # "partial"
                    /\ \A b \in DOMAIN blobs' : files'[blobs'[b].sha] = "whole"
  BY DEF StoredWhole, BytesAreSafe, TakeTurns
<1>0. /\ StoreTypeOK /\ files \in [Sha -> File] /\ BlobsStand
      /\ \A b \in DOMAIN blobs : blobs[b].sha \in Sha
  BY StepStands DEF Inv, TypeOK, StoreTypeOK, IsTable, Blob, Frame
<1>1. \A sha \in Sha : files'[sha] # "partial"
  BY <1>0, FilesChange DEF StoredWhole
<1>2. ASSUME NEW b \in DOMAIN blobs', b \in DOMAIN blobs, blobs'[b].sha = blobs[b].sha
      PROVE  files'[blobs'[b].sha] = "whole"
  <2>1. files[blobs[b].sha] = "whole" /\ blobs[b].sha \in ReferencedShas
    BY <1>2 DEF StoredWhole, ReferencedShas
  <2>2. ASSUME NEW j \in Job, req[j].op = "retain", req[j].at = "unlink"
        PROVE  req[j].now # blobs[b].sha
    BY <2>1, <2>2 DEF Relying, Relies, StillStored
  <2> QED BY <1>0, <1>2, <2>1, <2>2, FilesChange
<1>3. ASSUME NEW b \in DOMAIN blobs', NEW r \in Thread, InsertBlob(r),
             blobs'[b].sha = req[r].sha
      PROVE  files'[blobs'[b].sha] = "whole"
  <2>1. req[r].op = "upload" /\ req[r].at = "insert" /\ UNCHANGED files
    BY <1>3 DEF InsertBlob, Uploading, At, Orderly, Free, BytesAreSafe
  <2>2. files[req[r].sha] = "whole"
    BY <2>1 DEF Relying, Relies, StillStored, Job
  <2> QED BY <1>3, <2>1, <2>2
<1> QED BY <1>0, <1>1, <1>2, <1>3 DEF BlobsStand

-----------------------------------------------------------------------------
(* What all of this keeps.                                                 *)

LEMMA CareInit == Init => Care
<1> SUFFICES ASSUME Init PROVE Care
  OBVIOUS
<1>1. \A q \in Job : req[q].op = "idle"
  BY DEF Init, Idle
<1>2. Relying
  BY <1>1 DEF Relying, Relies, ReceiptHeld, StillLow, StillUnread, Detached, StillStored
<1>3. DOMAIN messages = {} /\ DOMAIN deliveries = {} /\ DOMAIN blobs = {}
  BY DEF Init
<1>4. \A sha \in Sha : files[sha] # "partial"
  BY DEF Init
<1>5. Promises
  BY <1>3, <1>4 DEF Promises, StoredWhole, NoStrandedAttachment, AllOrNothing, Receipts,
                    Withdrawals
<1>6. StartsOver
  BY <1>1 DEF StartsOver, Job
<1> QED BY <1>2, <1>5, <1>6, OrderlyInit DEF Care

LEMMA CareKept == Inv /\ Care /\ [Next]_vars => Care'
<1> SUFFICES ASSUME Inv, Care, [Next]_vars PROVE Care'
  OBVIOUS
<1>0. /\ Orderly /\ StartsOver /\ Relying
      /\ StoredWhole /\ NoStrandedAttachment /\ AllOrNothing
      /\ boots = 1 => Receipts /\ Withdrawals
  BY DEF Care, Promises
<1>1. Orderly'
  BY <1>0, OrderlyKept
<1>2. ASSUME NEW q \in Job PROVE Relies(req[q])'
  <2>1. /\ ReceiptHeld(req[q]) /\ StillLow(req[q]) /\ StillUnread(req[q])
        /\ Detached(req[q]) /\ StillStored(req[q])
    BY <1>0 DEF Relying, Relies
  <2>2. ReceiptHeld(req[q])' /\ StillLow(req[q])' /\ StillUnread(req[q])'
    BY <1>0, <2>1, ReceiptHeldKept, StillLowKept, StillUnreadKept
  <2>3. Detached(req[q])' /\ StillStored(req[q])'
    BY <1>0, <2>1, DetachedKept, StillStoredKept
  <2> QED BY <2>2, <2>3 DEF Relies
<1>3. StoredWhole' /\ NoStrandedAttachment' /\ AllOrNothing'
  BY <1>0, StoredWholeKept, StrandedKept, AllOrNothingKept
<1>4. ASSUME boots' = 1 PROVE Receipts' /\ Withdrawals'
  <2>1. boots = 1 /\ ~Crash
    <3>1. boots \in Nat /\ boots >= 1
      BY <1>0 DEF Inv, TypeOK, StoreTypeOK, Orderly
    <3>2. Crash => boots' = boots + 1
      BY DEF Crash
    <3>3. UNCHANGED boots \/ Crash
      BY StepStands
    <3> QED BY <1>4, <3>1, <3>2, <3>3
  <2> QED BY <1>0, <2>1, ReceiptsKept, WithdrawalsKept
<1>5. Relying'
  BY <1>2 DEF Relying
<1>6. StartsOver'
  BY <1>0, StartsOverKept
<1> QED BY <1>1, <1>3, <1>4, <1>5, <1>6 DEF Care, Promises

LEMMA CareHolds == Spec => [](Inv /\ Care)
<1>1. Inv /\ Care /\ [Next]_vars => (Inv /\ Care)'
  BY CareKept, StepKeeps
<1>2. Init => Inv /\ Care
  BY CareInit, InvInit
<1> QED BY <1>1, <1>2, PTL DEF Spec

-----------------------------------------------------------------------------
(* The promises, and what each of them needs.                              *)

\* Every handler that cleans is in Kept's way, so what is kept is complete.
LEMMA KeptIsComplete ==
  ASSUME Care, Resumes, NEW m \in Kept
  PROVE  Complete(m)
<1>1. m \in DOMAIN messages /\ ~BeingForgotten(m)
  BY DEF Kept
<1>2. ~BeingResumed(m)
  <2>1. CASE Serving
    BY <2>1 DEF Serving, BeingResumed, Idle
  <2>2. CASE ~Window
    BY <2>2 DEF Care, StartsOver, AboutUploads, BeingResumed
  <2>3. CASE m \notin aged
    BY <2>3 DEF BeingResumed
  <2> QED BY <2>1, <2>2, <2>3 DEF Kept
<1> QED BY <1>1, <1>2 DEF Care, Promises, AllOrNothing, Going

\* A message is in the box of each chat it was addressed to, and of no other,
\* until it is forgotten as a whole: send inserts its deliveries in its own
\* transaction, and retention, which deletes table after table, goes through
\* the same messages again after a crash in the midst of it.
THEOREM DeliveredAllOrNothing == Spec => [](Resumes => DeliveredAsAsked)
<1>1. Inv /\ Care => (Resumes => DeliveredAsAsked)
  <2> SUFFICES ASSUME Inv, Care, Resumes, NEW m \in Kept
               PROVE  /\ Recipients(m) \subseteq asked[m].to
                      /\ asked[m].to \ revoked \subseteq Recipients(m)
    BY DEF DeliveredAsAsked
  <2>1. asked[m].to \ revoked \subseteq Recipients(m)
    BY KeptIsComplete DEF Complete
  <2>2. Recipients(m) \subseteq asked[m].to
    BY DEF Recipients, Inv, Rows, DeliveriesAsked
  <2> QED BY <2>1, <2>2
<1> QED BY <1>1, CareHolds, PTL

\* A message has the attachments its sender asked for, all of them: no cleanup
\* of uploads takes one between its validation and the transaction of send
\* unnoticed, and no other message takes it.
THEOREM AttachedAllOrNothing == Spec => [](Resumes => AttachedAsAsked)
<1>1. Inv /\ Care => (Resumes => AttachedAsAsked)
  BY KeptIsComplete DEF AttachedAsAsked, Complete
<1> QED BY <1>1, CareHolds, PTL

\* No attachment stays behind its message, unless a revoked chat has sent it:
\* retention deletes the rows of blobs first, the owner's cleanup of revoked
\* chats leaves them.
THEOREM NoneStranded == Spec => []NoStrandedAttachment
<1>1. Inv /\ Care => NoStrandedAttachment
  BY DEF Care, Promises
<1> QED BY <1>1, CareHolds, PTL

\* Where uploads write through a temporary file and none is under way while
\* retention unlinks, every row of blobs has its bytes.
THEOREM BytesStay ==
  ASSUME BytesAreSafe
  PROVE  Spec => []BytesKept
<1>1. Inv /\ Care => BytesKept
  BY DEF Care, Promises, StoredWhole, BytesKept
<1> QED BY <1>1, CareHolds, PTL

\* And where downloads, too, keep apart from retention, the file that was found
\* is whole when its bytes are sent.
THEOREM BytesServed ==
  ASSUME BytesAreSafe, TakeTurns("download", "retain")
  PROVE  Spec => []ServedWhole
<1>1. Inv /\ Care => ServedWhole
  BY DEF Care, Relying, Relies, StillStored, ServedWhole, At, Job
<1> QED BY <1>1, CareHolds, PTL

\* Until a process dies, the sender of every message that was read is told, and
\* its status says so, once the read that marked it is over; whatever overlaps,
\* only one read marks a delivery.
THEOREM ReceiptsGiven == Spec => [](boots = 1 => ReceiptGiven)
<1>1. Inv /\ Care => (boots = 1 => ReceiptGiven)
  <2> SUFFICES
        ASSUME Inv, Receipts, NEW k \in DOMAIN deliveries, deliveries[k].read,
               k[1] \in DOMAIN messages,
               ~Working(k[1], {"read"}, {"rank", "bump", "tell"})
        PROVE  /\ deliveries[k].status # "delivered"
               /\ messages[k[1]].from \in Chat \ revoked
                    => Announced(messages[k[1]].from, "message.read", k[1])
    BY DEF Care, Promises, ReceiptGiven
  <2>1. messages[k[1]].from = asked[k[1]].from
    BY DEF Inv, Rows, MessagesAsked
  <2>2. ~\E r \in Thread : Receipting(req[r], k) \/ Marking(req[r], k)
    BY DEF Working, Receipting, Marking, OwnKey
  <2> QED BY <2>1, <2>2 DEF Receipts
<1> QED BY <1>1, CareHolds, PTL

\* Until a process dies, every recipient of a message that was unsent or edited
\* is told of it, once the withdrawal is over.
THEOREM WithdrawalsAnnounced == Spec => [](boots = 1 => WithdrawalAnnounced)
<1>1. Inv /\ Care => (boots = 1 => WithdrawalAnnounced)
  <2> SUFFICES
        ASSUME Withdrawals, NEW k \in DOMAIN deliveries, k[2] \notin revoked,
               ~Working(k[1], {"unsend", "edit"}, {"recipients", "tell"})
        PROVE  /\ messages[k[1]].recalled => Announced(k[2], "message.recalled", k[1])
               /\ messages[k[1]].body = "edited" => Announced(k[2], "message.edited", k[1])
    BY DEF Care, Promises, WithdrawalAnnounced
  <2>1. ~\E r \in Thread : Telling(req[r], "unsend", k) \/ Telling(req[r], "edit", k)
    BY DEF Working, Telling
  <2> QED BY <2>1 DEF Withdrawals
<1> QED BY <1>1, CareHolds, PTL

\* Where no send overlaps a read, the status of a delivery only climbs: the
\* read that sets it has seen it low, and only an answer raises it meanwhile.
THEOREM StatusClimbs ==
  ASSUME TakeTurns("read", "send")
  PROVE  Spec => LadderUp
<1>1. ASSUME Inv, Care, [Next]_vars, NEW k \in DOMAIN deliveries \cap DOMAIN deliveries'
      PROVE  STATUS_RANK[deliveries[k].status] <= STATUS_RANK[deliveries'[k].status]
  <2>0. StoreTypeOK /\ deliveries[k].status \in Status /\ k[1] \in DOMAIN asked
    BY <1>1 DEF Inv, TypeOK, StoreTypeOK, IsTable, Delivery, Rows, DeliveriesAsked,
                MessagesAsked
  <2>1. \A a, b \in Status : STATUS_RANK[a] \in Nat /\ (a = b => STATUS_RANK[a] <= STATUS_RANK[b])
    BY DEF Status, STATUS_RANK
  <2>2. CASE DeliveriesStand
    <3>1. \/ deliveries'[k].status = deliveries[k].status
          \/ /\ deliveries'[k].status = "replied"
             /\ STATUS_RANK[deliveries[k].status] < STATUS_RANK["replied"]
      BY <2>0, <2>2 DEF DeliveriesStand
    <3> QED BY <2>0, <2>1, <3>1 DEF Status
  <2>3. ASSUME NEW r \in Thread, ReadMark(r) \/ ReadBump(r)
        PROVE  STATUS_RANK[deliveries[k].status] <= STATUS_RANK[deliveries'[k].status]
    <3>1. CASE ReadMark(r)
      BY <2>0, <2>1, <3>1, MarkWrites
    <3>2. CASE ReadBump(r)
      <4>1. CASE k = OwnKey(req[r])
        <5>1. req[r].op = "read" /\ req[r].at = "bump" /\ deliveries'[k].status = "read"
          BY <2>0, <3>2, <4>1, BumpWrites DEF ReadBump, At
        <5>2. StillLow(req[r])
          BY <1>1 DEF Care, Relying, Relies, Job
        <5>3. deliveries[k].status \in {"delivered", "read"}
          BY <4>1, <5>1, <5>2 DEF StillLow
        <5> QED BY <5>1, <5>3 DEF STATUS_RANK, Status
      <4>2. CASE k # OwnKey(req[r])
        BY <2>0, <2>1, <3>2, <4>2, BumpWrites
      <4> QED BY <4>1, <4>2
    <3> QED BY <2>3, <3>1, <3>2
  <2> QED BY <1>1, <2>2, <2>3, StepStands DEF Frame
<1>2. Inv /\ Care /\ [Next]_vars =>
        [\A k \in DOMAIN deliveries \cap DOMAIN deliveries' :
           STATUS_RANK[deliveries[k].status] <= STATUS_RANK[deliveries'[k].status]]_vars
  BY <1>1
<1> QED BY <1>2, CareHolds, PTL DEF Spec, LadderUp

\* Where neither an unsend nor an edit overlaps a read, a message that one of
\* its recipients has read is never rewritten.
THEOREM ReadStaysFinal ==
  ASSUME TakeTurns("read", "unsend"), TakeTurns("read", "edit")
  PROVE  Spec => ReadIsFinal
<1>1. ASSUME Inv, Care, [Next]_vars, NEW m \in DOMAIN messages \cap DOMAIN messages',
             ReadBy(m) # {}
      PROVE  messages'[m] = messages[m]
  <2>0. StoreTypeOK /\ m \in DOMAIN asked
    BY <1>1 DEF Inv, TypeOK, Rows, MessagesAsked
  <2>1. CASE MessagesStand
    BY <2>0, <2>1 DEF MessagesStand
  <2>2. ASSUME NEW r \in Thread, WithdrawUpdate(r)
        PROVE  messages'[m] = messages[m]
    <3>1. req[r].op \in {"unsend", "edit"} /\ req[r].at = "update"
      BY <2>2 DEF WithdrawUpdate, Withdrawing, At
    <3>2. StillUnread(req[r])
      BY <1>1 DEF Care, Relying, Relies, Job
    <3>3. m # req[r].msg
      BY <1>1, <3>1, <3>2 DEF StillUnread
    <3> QED BY <2>0, <2>2, <3>3, UpdateWrites
  <2> QED BY <1>1, <2>1, <2>2, StepStands DEF Frame
<1>2. Inv /\ Care /\ [Next]_vars =>
        [\A m \in DOMAIN messages \cap DOMAIN messages' :
           ReadBy(m) # {} => messages'[m] = messages[m]]_vars
  BY <1>1
<1> QED BY <1>2, CareHolds, PTL DEF Spec, ReadIsFinal
=============================================================================
