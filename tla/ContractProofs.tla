--------------------------- MODULE ContractProofs ----------------------------
(***************************************************************************)
(* Why an Instance keeps the contract of Mailbox, for every value of its   *)
(* constants and across crashes, as long as a few of its operations, which *)
(* Uncrossed names, do not run beside each other.                          *)
(***************************************************************************)
EXTENDS OverlapProofs

USE StoreAssumption

-----------------------------------------------------------------------------
(* What must not overlap.                                                  *)

\* No chat is revoked while another request is served.
RevokesAlone ==
  \/ "revoke" \notin Workload \/ \A q, r \in Thread : q = r
  \/ \A op \in Workload : {"revoke", op} \in Apart

\* What the check of one operation finds, the statements of the others do not
\* change before its UPDATE.
Uncrossed ==
  /\ TakeTurns("read", "send") /\ TakeTurns("read", "unsend")
  /\ TakeTurns("read", "edit") /\ TakeTurns("unsend", "edit")
  /\ RevokesAlone

\* What a handler relies on besides: the delivery it moves up it has marked;
\* the message it rewrites is not recalled; whom it writes to is not revoked.
Marked(s) ==
  s.op = "read" /\ s.at \in {"rank", "bump"} /\ OwnKey(s) \in DOMAIN deliveries
    => deliveries[OwnKey(s)].read

StillOpen(s) ==
  s.op = "edit" /\ s.at \in {"unread", "update"} /\ s.msg \in DOMAIN messages
    => ~messages[s.msg].recalled

Resolved(s) ==
  /\ s.op = "send" =>
       /\ \A a \in s.to \ s.todo : Reachable(a)
       /\ s.at = "label" => Reachable(s.now)
  /\ s.op = "peer" => s.to \notin revoked

Ready(s) == Marked(s) /\ StillOpen(s) /\ Resolved(s)

\* The first process serves from the beginning.
Up == boots = 1 => Serving

Sound == Up /\ \A q \in Job : Ready(req[q])

-----------------------------------------------------------------------------
(* Handlers find what they rely on.                                        *)

LEMMA MarkMarks ==
  ASSUME StoreTypeOK, NEW r, ReadMark(r), NEW k \in DOMAIN deliveries'
  PROVE  deliveries'[k].read = (deliveries[k].read \/ k = OwnKey(req[r]))
<1>1. k \in DOMAIN deliveries /\ deliveries[k] \in Delivery
  BY DEF StoreTypeOK, IsTable, ReadMark, Update
<1>2. deliveries'[k] = IF k \in OwnDelivery(req[r]) THEN [deliveries[k] EXCEPT !.read = TRUE]
                       ELSE deliveries[k]
  BY <1>1 DEF ReadMark, Update
<1>3. CASE k = OwnKey(req[r])
  BY <1>1, <1>2, <1>3 DEF OwnDelivery, OwnKey, Delivery
<1>4. CASE k # OwnKey(req[r])
  BY <1>1, <1>2, <1>4 DEF OwnDelivery, OwnKey, Delivery
<1> QED BY <1>3, <1>4

LEMMA MarkedKept ==
  ASSUME Inv, [Next]_vars, NEW q \in Job, Marked(req[q])
  PROVE  Marked(req[q])'
<1> SUFFICES ASSUME req'[q].op = "read", req'[q].at \in {"rank", "bump"},
                    NEW k \in DOMAIN deliveries', k = OwnKey(req'[q])
             PROVE  deliveries'[k].read
  BY DEF Marked, OwnKey
<1>0. StoreTypeOK /\ Known(req[q])
  BY DEF Inv, TypeOK, Knowing
<1>1. ASSUME req[q].op = "read", req'[q].msg = req[q].msg, req'[q].by = req[q].by
      PROVE  k = OwnKey(req[q]) /\ k[1] \in DOMAIN asked /\ k \in DOMAIN deliveries
  <2>1. k = OwnKey(req[q]) /\ k[1] = req[q].msg
    BY <1>1 DEF OwnKey
  <2> QED BY <1>0, <1>1, <2>1, StatusLeaves DEF Known, GateKnown
<1>2. CASE req'[q] = req[q]
  <2>1. k = OwnKey(req[q]) /\ k[1] \in DOMAIN asked /\ k \in DOMAIN deliveries
    BY <1>1, <1>2
  <2>2. deliveries[k].read
    BY <1>2, <2>1 DEF Marked
  <2>3. CASE DeliveriesStand
    BY <2>1, <2>2, <2>3 DEF DeliveriesStand
  <2>4. ASSUME NEW r \in Thread, ReadMark(r) PROVE deliveries'[k].read
    BY <1>0, <2>2, <2>4, MarkWrites, MarkMarks
  <2>5. ASSUME NEW r \in Thread, ReadBump(r) PROVE deliveries'[k].read
    BY <1>0, <2>2, <2>5, BumpWrites
  <2> QED BY <2>3, <2>4, <2>5, StepStands DEF Frame
<1>3. CASE q \in Thread /\ ReadStep(q) /\ req[q].op = "read"
  <2>1. /\ req'[q].msg = req[q].msg /\ req'[q].by = req[q].by
        /\ \/ ReadMark(q)
           \/ req[q].at = "rank" /\ UNCHANGED deliveries
    BY <1>0, <1>3, ReadGoesOn
  <2>2. k = OwnKey(req[q]) /\ k \in DOMAIN deliveries
    BY <1>1, <1>3, <2>1
  <2>3. CASE ReadMark(q)
    BY <1>0, <2>2, <2>3, MarkMarks
  <2>4. CASE req[q].at = "rank" /\ UNCHANGED deliveries
    BY <1>3, <2>2, <2>4 DEF Marked
  <2> QED BY <2>1, <2>3, <2>4
<1> QED BY <1>2, <1>3, InRead

LEMMA StillOpenKept ==
  ASSUME Inv, Orderly, TakeTurns("unsend", "edit"), [Next]_vars, NEW q \in Job,
         StillOpen(req[q])
  PROVE  StillOpen(req[q])'
<1> SUFFICES ASSUME req'[q].op = "edit", req'[q].at \in {"unread", "update"},
                    NEW m \in DOMAIN messages', m = req'[q].msg
             PROVE  ~messages'[m].recalled
  BY DEF StillOpen
<1>0. StoreTypeOK /\ \A x \in DOMAIN messages : x \in DOMAIN asked
  BY DEF Inv, TypeOK, Rows, MessagesAsked
<1>1. CASE req'[q] = req[q]
  <2>1. m \in DOMAIN messages => ~messages[m].recalled
    BY <1>1 DEF StillOpen
  <2>2. CASE MessagesStand
    BY <2>1, <2>2 DEF MessagesStand
  <2>3. ASSUME NEW r \in Thread, WithdrawUpdate(r) PROVE ~messages'[m].recalled
    <3>1. req[r].op # "unsend"
      <4>1. q \in Thread
        BY <1>1 DEF Job, Orderly
      <4> QED BY <1>1, <2>3, <4>1, TurnsTaken
    <3> QED BY <1>0, <2>1, <2>3, <3>1, UpdateWrites
  <2> QED BY <2>2, <2>3, StepStands DEF Frame
<1>2. CASE q \in Thread /\ WithdrawStep(q) /\ req[q].op = "edit"
  <2>1. /\ req'[q].msg = req[q].msg
        /\ \/ req[q].at = "lookup" /\ req'[q].at = "unread"
           \/ req[q].at = "unread" /\ req'[q].at = "update"
    BY <1>0, <1>2, WithdrawGoesOn
  <2>2. WithdrawLookup(q) \/ WithdrawUnread(q)
    BY <1>2, <2>1 DEF WithdrawStep, WithdrawUpdate, WithdrawRecipients, WithdrawTell,
                      Withdrawing, At
  <2>3. UNCHANGED messages
    BY <2>2 DEF WithdrawLookup, WithdrawUnread, tables
  <2>4. CASE WithdrawUnread(q)
    BY <1>2, <2>1, <2>3, <2>4 DEF StillOpen, WithdrawUnread, Withdrawing, At
  <2>5. CASE WithdrawLookup(q)
    <3>1. ~messages[m].recalled \/ Answer(q)
      BY <2>1, <2>5 DEF WithdrawLookup
    <3>2. ~Answer(q)
      BY <1>0, <1>2 DEF Answer, Idle, StoreTypeOK, Job
    <3> QED BY <2>3, <3>1, <3>2
  <2> QED BY <2>2, <2>4, <2>5
<1> QED BY <1>1, <1>2, InWithdrawal

\* The chats that are revoked change with their revocation alone.
LEMMA RevokedChanges ==
  ASSUME [Next]_vars
  PROVE  UNCHANGED revoked \/ \E r \in Thread : RevokeChat(r)
<1>1. ASSUME NEW r \in Thread, Begin(r) PROVE UNCHANGED revoked \/ RevokeChat(r)
  BY <1>1 DEF Begin, SendBegin, ReadBegin, ArchiveBegin, WithdrawBegin, PeerBegin, quiet,
              UploadBegin, DownloadBegin, still, SessionBegin, RetainBegin, GcBegin, unmoved
<1>2. ASSUME NEW r \in Thread, SendStep(r) \/ ReadStep(r) \/ WithdrawStep(r)
      PROVE  UNCHANGED revoked
  BY <1>2 DEF SendStep, ResolveChat, ResolveLabel, ValidateBlob, SpeakAs, FindParent, Push,
              RecordRemote, SendRollback, SendCommit, PeerCommit, ReadStep, ReadLookup,
              ReadUnread, ReadMark, ReadRank, ReadBump, ReadTell, ReadView, Archive,
              WithdrawStep, WithdrawLookup, WithdrawUnread, WithdrawUpdate,
              WithdrawRecipients, WithdrawTell, quiet
<1>3. ASSUME NEW r \in Thread, AttachmentStep(r) \/ SessionStep(r) \/ GcStep(r)
      PROVE  UNCHANGED revoked
  BY <1>3, FilesStand DEF AttachmentStep, UploadExists, UploadReplace, InlineExists,
              InlineTruncate, InlineWrite, InsertBlob, DownloadLookup, DownloadBlob,
              DownloadOpen, DownloadServe, still, GcStep, GcDeliveries, GcMessages, GcEvents,
              unmoved
<1>4. ASSUME NEW j \in Job, RetainStep(j) PROVE UNCHANGED revoked
  BY <1>4 DEF RetainStep, Orphans, DropOrphans, StillUsed, FileExists, Unlink, Doomed,
              DoomedShas, DropBlobs, DropDeliveries, DropEvents, DropMessages, unmoved
<1>5. ASSUME \/ \E c \in Chat : Poll(c)
             \/ HoursPass \/ DaysPass \/ Crash \/ UNCHANGED vars
      PROVE  UNCHANGED revoked
  BY <1>5 DEF Poll, HoursPass, DaysPass, Crash, vars, store, unmoved
<1> QED BY <1>1, <1>2, <1>3, <1>4, <1>5 DEF Next, Stop, Work, Step, Job

\* None is revoked under a handler.
LEMMA RevokedStays ==
  ASSUME StoreTypeOK, Orderly, RevokesAlone, [Next]_vars, NEW q \in Thread,
         req[q].op # "idle"
  PROVE  UNCHANGED revoked
<1>1. ASSUME NEW r \in Thread, RevokeChat(r) PROVE FALSE
  <2>1. req[q].op \in Workload
    BY DEF Orderly, Free
  <2>2. /\ "revoke" \in Workload /\ q # r
        /\ {"revoke", req[q].op} \notin Apart
    BY <1>1 DEF RevokeChat, Idle
  <2> QED BY <2>1, <2>2 DEF RevokesAlone
<1> QED BY <1>1, RevokedChanges

\* Whom a send has done with, it has found reachable.
LEMMA SendResolves ==
  ASSUME StoreTypeOK, NEW r \in Thread, SendStep(r), req'[r].op # "idle"
  PROVE  /\ req[r].op = "send" /\ req'[r].op = "send" /\ req'[r].to = req[r].to
         /\ \A a \in req[r].todo \ req'[r].todo :
              Reachable(a) \/ (req[r].at = "label" /\ a = req[r].now)
         /\ req'[r].at = "label" => Reachable(req'[r].now)
<1>0. r \in Job /\ Idle.op = "idle" /\ ~Answer(r)
  BY DEF Job, StoreTypeOK, Answer, Idle
<1>1. CASE RecordRemote(r) \/ SendRollback(r) \/ SendCommit(r) \/ PeerCommit(r)
  BY <1>0, <1>1 DEF RecordRemote, SendRollback, SendCommit, PeerCommit
<1>2. CASE \/ ResolveChat(r) \/ ResolveLabel(r) \/ ValidateBlob(r) \/ SpeakAs(r)
           \/ FindParent(r) \/ Push(r)
  <2>0. req[r].op = "send" /\ req[r] \in SendJob
    <3>1. req[r].op = "send"
      BY <1>2 DEF ResolveChat, ResolveLabel, ValidateBlob, SpeakAs, FindParent, Push, At
    <3> QED BY <1>0, <3>1, RequestKinds DEF StoreTypeOK
  <2>1. ASSUME NEW s \in SendJob, Advance(r, s), s.to = req[r].to,
               \A a \in req[r].todo \ s.todo :
                 Reachable(a) \/ (req[r].at = "label" /\ a = req[r].now)
        PROVE  /\ req'[r].op = "send" /\ req'[r].to = req[r].to
               /\ \A a \in req[r].todo \ req'[r].todo :
                    Reachable(a) \/ (req[r].at = "label" /\ a = req[r].now)
               /\ req'[r].at = "label" => Reachable(req'[r].now)
    <3> DEFINE next == [s EXCEPT !.at = Stage(s)]
    <3>1. req'[r] = Idle \/ req'[r] = next
      BY <1>0, <2>1 DEF Advance, StoreTypeOK
    <3>2. req'[r] # Idle
      BY <1>0
    <3>3. Stage(s) # "label"
      BY DEF Stage
    <3>4. next.op = "send" /\ next.to = s.to /\ next.todo = s.todo /\ next.at = Stage(s)
      BY DEF SendJob
    <3> HIDE DEF next
    <3> QED BY <2>1, <3>1, <3>2, <3>3, <3>4
  <2>2. CASE ResolveChat(r)
    <3>1. PICK a \in req[r].todo :
             /\ Reachable(a)
             /\ \/ Advance(r, [req[r] EXCEPT !.todo = @ \ {a}])
                \/ req' = [req EXCEPT ![r].at = "label", ![r].now = a]
      BY <1>0, <2>2 DEF ResolveChat
    <3>2. CASE Advance(r, [req[r] EXCEPT !.todo = @ \ {a}])
      <4> DEFINE s == [req[r] EXCEPT !.todo = @ \ {a}]
      <4>1. s \in SendJob /\ s.to = req[r].to /\ s.todo = req[r].todo \ {a}
        BY <2>0 DEF SendJob
      <4>2. Advance(r, s)
        BY <3>2
      <4> HIDE DEF s
      <4> QED BY <2>0, <2>1, <3>1, <4>1, <4>2
    <3>3. CASE req' = [req EXCEPT ![r].at = "label", ![r].now = a]
      <4> DEFINE s == [req[r] EXCEPT !.at = "label", !.now = a]
      <4>1. req'[r] = s
        BY <1>0, <3>3 DEF StoreTypeOK
      <4>2. s.op = "send" /\ s.to = req[r].to /\ s.todo = req[r].todo /\ s.now = a
        BY <2>0 DEF SendJob
      <4> HIDE DEF s
      <4> QED BY <2>0, <3>1, <4>1, <4>2
    <3> QED BY <3>1, <3>2, <3>3
  <2>3. CASE ResolveLabel(r)
    <3> DEFINE s == [req[r] EXCEPT !.todo = @ \ {req[r].now}]
    <3>1. Advance(r, s) /\ req[r].at = "label"
      BY <1>0, <2>3 DEF ResolveLabel, At
    <3>2. s \in SendJob /\ s.to = req[r].to /\ s.todo = req[r].todo \ {req[r].now}
      BY <2>0 DEF SendJob
    <3> HIDE DEF s
    <3> QED BY <2>0, <2>1, <3>1, <3>2
  <2>4. CASE ValidateBlob(r)
    <3>1. PICK b \in req[r].check : Advance(r, [req[r] EXCEPT !.check = @ \ {b}])
      BY <1>0, <2>4 DEF ValidateBlob
    <3> DEFINE s == [req[r] EXCEPT !.check = @ \ {b}]
    <3>2. s \in SendJob /\ s.to = req[r].to /\ s.todo = req[r].todo
      BY <2>0 DEF SendJob
    <3>3. Advance(r, s)
      BY <3>1
    <3> HIDE DEF s
    <3> QED BY <2>0, <2>1, <3>2, <3>3
  <2>5. CASE SpeakAs(r)
    <3> DEFINE s == [req[r] EXCEPT !.as = None]
    <3>1. Advance(r, s)
      BY <1>0, <2>5 DEF SpeakAs
    <3>2. s \in SendJob /\ s.to = req[r].to /\ s.todo = req[r].todo
      BY <2>0 DEF SendJob
    <3> HIDE DEF s
    <3> QED BY <2>0, <2>1, <3>1, <3>2
  <2>6. CASE FindParent(r)
    <3> DEFINE s == [req[r] EXCEPT !.answers = messages[req[r].parent].from]
    <3>1. Advance(r, s) /\ VisibleTo(req[r].parent, req[r].by) /\ req[r].at = "parent"
      BY <1>0, <2>6 DEF FindParent, At
    <3>2. /\ s.op = "send" /\ s.to = req[r].to /\ s.todo = req[r].todo
          /\ [s EXCEPT !.at = Stage(s)].op = "send"
          /\ [s EXCEPT !.at = Stage(s)].to = req[r].to
          /\ [s EXCEPT !.at = Stage(s)].todo = req[r].todo
          /\ [s EXCEPT !.at = Stage(s)].at = Stage(s)
      BY <2>0 DEF SendJob
    <3>3. Stage(s) # "label"
      BY DEF Stage
    <3> HIDE DEF s
    <3>4. req'[r] = Idle \/ req'[r] = [s EXCEPT !.at = Stage(s)]
      BY <1>0, <3>1 DEF Advance, StoreTypeOK
    <3> QED BY <1>0, <2>0, <3>2, <3>3, <3>4
  <2>7. CASE Push(r)
    <3> DEFINE s == [req[r] EXCEPT !.at = "record"]
    <3>1. req'[r] = s
      BY <1>0, <2>7 DEF Push, Goto, StoreTypeOK
    <3>2. s.op = "send" /\ s.to = req[r].to /\ s.todo = req[r].todo /\ s.at = "record"
      BY <2>0 DEF SendJob
    <3> HIDE DEF s
    <3> QED BY <2>0, <3>1, <3>2
  <2> QED BY <1>2, <2>2, <2>3, <2>4, <2>5, <2>6, <2>7
<1> QED BY <1>1, <1>2 DEF SendStep

\* Whom a send or a peer writes to is still there.
LEMMA ResolvedKept ==
  ASSUME Inv, Orderly, RevokesAlone, [Next]_vars, NEW q \in Job, Resolved(req[q])
  PROVE  Resolved(req[q])'
<1>0. StoreTypeOK /\ req'[Main].op \in {"idle", "retain"}
  BY OrderlyKept DEF Inv, TypeOK, Orderly
<1> SUFFICES ASSUME q \in Thread, req'[q].op \in {"send", "peer"}
             PROVE  Resolved(req[q])'
  BY <1>0 DEF Resolved, Job
<1>1. CASE req'[q] = req[q]
  BY <1>0, <1>1, RevokedStays DEF Resolved, Reachable
<1>2. CASE SendStep(q)
  <2>1. req[q].op = "send" /\ UNCHANGED revoked
    BY <1>0, <1>2, SendResolves, RevokedStays
  <2>2. /\ req'[q].op = "send" /\ req'[q].to = req[q].to
        /\ \A a \in req[q].todo \ req'[q].todo :
             Reachable(a) \/ (req[q].at = "label" /\ a = req[q].now)
        /\ req'[q].at = "label" => Reachable(req'[q].now)
    BY <1>0, <1>2, SendResolves
  <2>3. \A a \in req[q].to \ req[q].todo : Reachable(a)
    BY <2>1 DEF Resolved
  <2>4. req[q].at = "label" => Reachable(req[q].now)
    BY <2>1 DEF Resolved
  <2>5. \A a \in req'[q].to \ req'[q].todo : Reachable(a)
    BY <2>2, <2>3, <2>4
  <2> QED BY <2>1, <2>2, <2>5 DEF Resolved, Reachable
<1>3. CASE Begin(q)
  <2>0. \A s : Accept(q, s) => req'[q] = s
    BY <1>0 DEF Accept, StoreTypeOK, Job
  <2>1. (\E c \in Chat : SendBegin(q, c)) \/ PeerBegin(q)
    <3>1. ASSUME NEW c, \/ ReadBegin(q, c) \/ ArchiveBegin(q, c) \/ WithdrawBegin(q, c)
                        \/ UploadBegin(q, c) \/ DownloadBegin(q, c) \/ SessionBegin(q, c)
                        \/ RetainBegin(q) \/ GcBegin(q)
          PROVE  FALSE
      <4>1. ReadBegin(q, c) => req'[q].op = "read"
        BY <2>0 DEF ReadBegin, AcceptFrom
      <4>2. ArchiveBegin(q, c) => req'[q].op = "archive"
        BY <2>0 DEF ArchiveBegin, AcceptFrom
      <4>3. WithdrawBegin(q, c) => req'[q].op \in {"unsend", "edit"}
        BY <2>0 DEF WithdrawBegin, AcceptFrom
      <4>4. UploadBegin(q, c) => req'[q].op \in {"upload", "inline"}
        BY <2>0 DEF UploadBegin, AcceptFrom
      <4>5. DownloadBegin(q, c) => req'[q].op = "download"
        BY <2>0 DEF DownloadBegin, AcceptFrom
      <4>6. SessionBegin(q, c) => req'[q].op \in {"open", "close"}
        BY <2>0 DEF SessionBegin, AcceptFrom
      <4>7. RetainBegin(q) => req'[q].op = "retain"
        BY <2>0 DEF RetainBegin, Retention
      <4>8. GcBegin(q) => req'[q].op = "gc"
        BY <2>0 DEF GcBegin
      <4> QED BY <3>1, <4>1, <4>2, <4>3, <4>4, <4>5, <4>6, <4>7, <4>8
    <3>2. ~RevokeChat(q)
      BY <1>0 DEF RevokeChat, Answer, Idle, StoreTypeOK, Job
    <3> QED BY <1>3, <3>1, <3>2 DEF Begin
  <2>2. ASSUME NEW c, SendBegin(q, c) PROVE Resolved(req[q])'
    <3>1. req'[q].op = "send" /\ req'[q].at = "resolve" /\ req'[q].to = req'[q].todo
      BY <2>0, <2>2 DEF SendBegin, AcceptFrom
    <3> QED BY <3>1 DEF Resolved
  <2>3. CASE PeerBegin(q)
    <3>1. req'[q].op = "peer" /\ req'[q].to \notin revoked /\ UNCHANGED revoked
      BY <2>0, <2>3 DEF PeerBegin, quiet
    <3> QED BY <3>1 DEF Resolved
  <2> QED BY <2>1, <2>2, <2>3
<1>4. CASE \E r \in Thread \ {q} : Begin(r)
  <2>1. PICK r \in Thread \ {q} : Begin(r)
    BY <1>4
  <2>2. req'[q] = req[q]
    <3>1. Begun(r) \/ req' = req
      BY <1>0, <2>1, BeginMoves
    <3> QED BY <1>0, <2>1, <3>1 DEF Begun, StoreTypeOK, Job
  <2> QED BY <1>1, <2>2
<1>5. CASE ~\E r \in Thread : Begin(r)
  <2>1. (\E j \in Job : Goes(j)) \/ req' = req \/ Crash
    BY <1>5 DEF Next, Stop, Work, Goes, Job, Poll, HoursPass, DaysPass, vars, store
  <2>2. ~Crash
    BY DEF Crash, Idle, Job
  <2>3. ASSUME NEW j \in Job, Goes(j), j # q PROVE req'[q] = req[q]
    BY <1>0, <2>3, StepMoves DEF Moves, UnlinkMoves
  <2>4. ASSUME Goes(q) PROVE SendStep(q)
    <3>1. req'[q].op \in {req[q].op, "idle"}
      BY <1>0, <2>4, StepMoves DEF Moves, UnlinkMoves
    <3> QED BY <2>4, <3>1, StepOps DEF Goes, Step
  <2> QED BY <1>1, <1>2, <2>1, <2>2, <2>3, <2>4
<1> QED BY <1>3, <1>4, <1>5

\* The first process cleans on demand only.
LEMMA UpKept ==
  ASSUME Inv, Orderly, Up, [Next]_vars
  PROVE  Up'
<1> SUFFICES ASSUME boots' = 1 PROVE req'[Main] = Idle
  BY DEF Up, Serving
<1>0. StoreTypeOK /\ Main \in Job /\ Idle.op = "idle"
  BY DEF Inv, TypeOK, Job, Idle
<1>1. boots = 1 /\ ~Crash
  <2>1. boots \in Nat /\ boots >= 1 /\ (Crash => boots' = boots + 1)
    BY <1>0 DEF StoreTypeOK, Orderly, Crash
  <2> QED BY <2>1, StepStands
<1>2. req[Main] = Idle
  BY <1>1 DEF Up, Serving
<1>3. ASSUME NEW r \in Thread, Begun(r) PROVE req'[Main] = req[Main]
  BY <1>0, <1>3 DEF Begun, StoreTypeOK
<1>4. ASSUME NEW j \in Job, Goes(j) PROVE req'[Main] = req[Main]
  <2>1. j # Main
    BY <1>0, <1>2, <1>4, StepOps DEF Goes
  <2> QED BY <1>0, <1>2, <1>4, <2>1, StepMoves DEF Moves, UnlinkMoves
<1> QED BY <1>1, <1>2, <1>3, <1>4, StepIs

LEMMA SoundKept ==
  ASSUME Inv, Care, Sound, Uncrossed, [Next]_vars
  PROVE  Sound'
<1>1. Orderly /\ Up
  BY DEF Care, Sound
<1>2. ASSUME NEW q \in Job PROVE Ready(req[q])'
  BY <1>1, MarkedKept, StillOpenKept, ResolvedKept DEF Uncrossed, Sound, Ready
<1> QED BY <1>1, <1>2, UpKept DEF Sound

LEMMA SoundHolds ==
  ASSUME Uncrossed
  PROVE  Spec => [](Inv /\ Care /\ Sound)
<1>1. Init => Sound
  BY DEF Init, Sound, Up, Serving, Ready, Marked, StillOpen, Resolved, Idle, Job
<1>2. Inv /\ Care /\ Sound /\ [Next]_vars => (Inv /\ Care /\ Sound)'
  BY CareKept, SoundKept, StepKeeps
<1> QED BY <1>1, <1>2, CareInit, InvInit, PTL DEF Spec

-----------------------------------------------------------------------------
(* The mail that is kept, step by step.                                    *)

\* What Mailbox calls its mail.
Letters == [m \in Kept |-> Letter(m)]

\* A letter is as it was if its rows are.
LEMMA SameLetter ==
  ASSUME NEW m, messages'[m] = messages[m], AttachedTo(m)' = AttachedTo(m),
         \A c \in Chat :
           /\ <<m, c>> \in DOMAIN deliveries' <=> <<m, c>> \in DOMAIN deliveries
           /\ <<m, c>> \in DOMAIN deliveries =>
                /\ deliveries'[<<m, c>>].read = deliveries[<<m, c>>].read
                /\ deliveries'[<<m, c>>].status = deliveries[<<m, c>>].status
  PROVE  Letter(m)' = Letter(m)
BY DEF Letter, ReadBy, Recipients, AttachedTo

\* What a letter shows.
LetterShows(m) ==
  /\ Letter(m).from = messages[m].from /\ Letter(m).body = messages[m].body
  /\ Letter(m).recalled = messages[m].recalled /\ Letter(m).read = ReadBy(m)
  /\ DOMAIN Letter(m).status = Recipients(m)
  /\ Letter(m).status = [c \in Recipients(m) |-> deliveries[<<m, c>>].status]

LEMMA LetterIs ==
  ASSUME NEW m
  PROVE  LetterShows(m) /\ LetterShows(m)'
BY DEF LetterShows, Letter, ReadBy, Recipients, AttachedTo

\* If no letter changes and none comes, letters are forgotten, or none is.
LEMMA ForgetStep ==
  ASSUME Kept' \subseteq Kept, \A m \in Kept' : Letter(m)' = Letter(m), UNCHANGED revoked
  PROVE  Contract!Next
<1>1. Contract!Forget(Kept \ Kept')
  BY DEF Contract!Forget, Contract!Restrict, Contract!Boxes
<1>2. Contract!Boxes = Kept
  BY DEF Contract!Boxes
<1> QED BY <1>1, <1>2 DEF Contract!Next, Contract!Change

\* A new letter, which may move the status of the one it answers.
LEMMA PostStep ==
  ASSUME NEW m \in MsgId \ Kept, Kept' = Kept \cup {m}, NEW parent \in MsgId \cup {None},
         ~messages'[m].recalled, messages'[m].body = "first",
         Recipients(m)' \cap revoked = {},
         \A c \in Recipients(m)' : /\ deliveries'[<<m, c>>].status = "delivered"
                                   /\ ~deliveries'[<<m, c>>].read,
         NEW c, c = messages'[m].from,
         \A x \in Kept :
           Letter(x)' = IF x = parent /\ c \in Recipients(x)
                             /\ STATUS_RANK[deliveries[<<x, c>>].status]
                                  < STATUS_RANK["replied"]
                        THEN [Letter(x) EXCEPT !.status[c] = "replied"] ELSE Letter(x),
         UNCHANGED revoked
  PROVE  Contract!Next
<1> DEFINE new == Letter(m)'
<1>1. /\ ~new.recalled /\ new.body = "first" /\ new.read = {} /\ new.from = c
      /\ new.status = [d \in Recipients(m)' |-> "delivered"]
      /\ DOMAIN new.status = Recipients(m)'
  <2>1. LetterShows(m)' /\ ReadBy(m)' = {}
    BY LetterIs DEF ReadBy
  <2>2. new.status = [d \in Recipients(m)' |-> deliveries'[<<m, d>>].status]
    BY <2>1 DEF LetterShows
  <2> HIDE DEF new
  <2>3. \A d \in Recipients(m)' : deliveries'[<<m, d>>].status = "delivered"
    OBVIOUS
  <2>4. new.status = [d \in Recipients(m)' |-> "delivered"]
    BY <2>2, <2>3
  <2> QED BY <2>1, <2>4 DEF LetterShows, new
<1>2. \A x \in Kept : /\ DOMAIN Letter(x).status = Recipients(x)
                      /\ \A d \in Recipients(x) :
                           Letter(x).status[d] = deliveries[<<x, d>>].status
  <2> SUFFICES ASSUME NEW x \in Kept
               PROVE  /\ DOMAIN Letter(x).status = Recipients(x)
                      /\ \A d \in Recipients(x) :
                           Letter(x).status[d] = deliveries[<<x, d>>].status
    OBVIOUS
  <2>1. LetterShows(x)
    BY LetterIs
  <2> QED BY <2>1 DEF LetterShows
<1>3. Letters'[m] = new /\ DOMAIN Letters' = Kept \cup {m} /\ DOMAIN Letters = Kept
  BY DEF Letters
<1>4. Contract!Post(m, Letters'[m], parent)
  <2> DEFINE next(x) ==
           IF x = m THEN new
           ELSE IF x = parent /\ c \in DOMAIN Letters[x].status
                     /\ STATUS_RANK[Letters[x].status[c]] < STATUS_RANK["replied"]
                THEN [Letters[x] EXCEPT !.status[c] = "replied"] ELSE Letters[x]
  <2>1. Letters' = [x \in Kept \cup {m} |-> next(x)]
    <3>1. Letters' = [x \in Kept \cup {m} |-> Letter(x)']
      BY DEF Letters
    <3>2. ASSUME NEW x \in Kept PROVE Letter(x)' = next(x)
      <4>1. Letters[x] = Letter(x) /\ x # m
        BY DEF Letters
      <4>2. c \in DOMAIN Letters[x].status <=> c \in Recipients(x)
        BY <1>2, <4>1
      <4>3. c \in Recipients(x) => Letters[x].status[c] = deliveries[<<x, c>>].status
        BY <1>2, <4>1
      <4> QED BY <4>1, <4>2, <4>3
    <3>3. \A x \in Kept \cup {m} : Letter(x)' = next(x)
      BY <3>2
    <3> HIDE DEF next
    <3> QED BY <3>1, <3>3
  <2>2. Contract!Boxes = Kept
    BY DEF Contract!Boxes
  <2> HIDE DEF new
  <2> QED BY <1>1, <1>3, <2>1, <2>2 DEF Contract!Post, Contract!Raise, Letters
<1> QED BY <1>3, <1>4 DEF Contract!Next, Contract!Change, Contract!Boxes, Letters

\* A letter, from the parts it is made of.
LetterOf(row, read, status, attached) ==
  [from |-> row.from, body |-> row.body, recalled |-> row.recalled,
   read |-> read, status |-> status, attached |-> attached]

StatusOf(m) == [c \in Recipients(m) |-> deliveries[<<m, c>>].status]

LEMMA LetterMade ==
  ASSUME NEW m
  PROVE  /\ Letter(m) = LetterOf(messages[m], ReadBy(m), StatusOf(m), AttachedTo(m))
         /\ Letter(m)' = LetterOf(messages'[m], ReadBy(m)', StatusOf(m)', AttachedTo(m)')
BY DEF Letter, LetterOf, StatusOf, ReadBy, Recipients, AttachedTo

\* One letter is replaced by another.
LEMMA MailIs ==
  ASSUME NEW m \in Kept, Kept' = Kept, NEW new, Letter(m)' = new,
         \A x \in Kept \ {m} : Letter(x)' = Letter(x)
  PROVE  Letters' = [Letters EXCEPT ![m] = new] /\ Letters[m] = Letter(m)
<1>1. Letters' = [x \in Kept |-> Letter(x)']
  BY DEF Letters
<1>2. \A x \in Kept : Letter(x)' = IF x = m THEN new ELSE Letter(x)
  OBVIOUS
<1>3. [Letters EXCEPT ![m] = new] = [x \in Kept |-> IF x = m THEN new ELSE Letter(x)]
  BY DEF Letters
<1> QED BY <1>1, <1>2, <1>3 DEF Letters

LEMMA ReadStepsOn ==
  ASSUME NEW m \in Kept, Kept' = Kept, \A x \in Kept \ {m} : Letter(x)' = Letter(x),
         UNCHANGED <<messages, blobs, revoked>>, NEW c \in Recipients(m), c \notin ReadBy(m),
         Recipients(m)' = Recipients(m), ReadBy(m)' = ReadBy(m) \cup {c},
         \A d \in Recipients(m) : deliveries'[<<m, d>>].status = deliveries[<<m, d>>].status
  PROVE  Contract!Next
<1>1. Letter(m)' = [Letter(m) EXCEPT !.read = @ \cup {c}]
  <2>1. StatusOf(m)' = StatusOf(m)
    <3>1. StatusOf(m)' = [d \in Recipients(m) |-> deliveries'[<<m, d>>].status]
      BY DEF StatusOf, Recipients
    <3> QED BY <3>1 DEF StatusOf
  <2>2. AttachedTo(m)' = AttachedTo(m)
    BY DEF AttachedTo
  <2>3. /\ Letter(m) = LetterOf(messages[m], ReadBy(m), StatusOf(m), AttachedTo(m))
        /\ Letter(m)' = LetterOf(messages[m], ReadBy(m) \cup {c}, StatusOf(m), AttachedTo(m))
    BY <2>1, <2>2, LetterMade
  <2>4. ASSUME NEW old, old = Letter(m), NEW new, new = Letter(m)',
               NEW status, status = StatusOf(m), NEW attached, attached = AttachedTo(m),
               NEW row, row = messages[m], NEW was, was = ReadBy(m),
               NEW read, read = was \cup {c}
        PROVE  new = [old EXCEPT !.read = @ \cup {c}]
    <3>1. /\ old = LetterOf(row, was, status, attached)
          /\ new = LetterOf(row, read, status, attached)
      BY <2>3, <2>4
    <3>2. new = [old EXCEPT !.read = read] /\ old.read = was
      BY ONLY <3>1 DEF LetterOf
    <3> QED BY <2>4, <3>2
  <2> QED BY <2>4
<1>2. /\ Letters' = [Letters EXCEPT ![m] = [Letter(m) EXCEPT !.read = @ \cup {c}]]
      /\ Letters[m] = Letter(m)
  BY <1>1, MailIs
<1>3. DOMAIN Letter(m).status = Recipients(m) /\ Letter(m).read = ReadBy(m)
  BY LetterIs DEF LetterShows
<1>4. Contract!Read(m, c)
  BY <1>2, <1>3 DEF Contract!Read, Letters
<1>5. c \in Chat
  BY DEF Recipients
<1> QED BY <1>4, <1>5 DEF Contract!Next, Contract!Change, Contract!Boxes

\* One status of a letter moves.
LEMMA LetterRaised ==
  ASSUME NEW m, messages'[m] = messages[m], AttachedTo(m)' = AttachedTo(m),
         Recipients(m)' = Recipients(m), ReadBy(m)' = ReadBy(m),
         NEW c \in Recipients(m), NEW s,
         \A d \in Recipients(m) :
           deliveries'[<<m, d>>].status = IF d = c THEN s ELSE deliveries[<<m, d>>].status
  PROVE  Letter(m)' = [Letter(m) EXCEPT !.status[c] = s]
<1>1. StatusOf(m)' = [StatusOf(m) EXCEPT ![c] = s]
  <2>1. StatusOf(m)' = [d \in Recipients(m) |-> deliveries'[<<m, d>>].status]
    BY DEF StatusOf, Recipients
  <2> QED BY <2>1 DEF StatusOf
<1>2. /\ Letter(m) = LetterOf(messages[m], ReadBy(m), StatusOf(m), AttachedTo(m))
      /\ Letter(m)' = LetterOf(messages[m], ReadBy(m), [StatusOf(m) EXCEPT ![c] = s],
                               AttachedTo(m))
  BY <1>1, LetterMade
<1> QED BY <1>2 DEF LetterOf

LEMMA ClimbStep ==
  ASSUME NEW m \in Kept, Kept' = Kept, \A x \in Kept \ {m} : Letter(x)' = Letter(x),
         UNCHANGED <<messages, blobs, revoked>>, NEW c \in ReadBy(m),
         Recipients(m)' = Recipients(m), ReadBy(m)' = ReadBy(m),
         STATUS_RANK[deliveries[<<m, c>>].status] < STATUS_RANK["read"],
         \A d \in Recipients(m) :
           deliveries'[<<m, d>>].status = IF d = c THEN "read" ELSE deliveries[<<m, d>>].status
  PROVE  Contract!Next
<1>0. c \in Recipients(m)
  BY DEF ReadBy, Recipients
<1>1. Letter(m)' = [Letter(m) EXCEPT !.status[c] = "read"]
  BY <1>0, LetterRaised DEF AttachedTo
<1>2. /\ Letters' = [Letters EXCEPT ![m] = [Letter(m) EXCEPT !.status[c] = "read"]]
      /\ Letters[m] = Letter(m)
  BY <1>1, MailIs
<1>3. c \in Chat /\ c \in Recipients(m)
  BY DEF ReadBy, Recipients
<1>4. Letter(m).status[c] = deliveries[<<m, c>>].status /\ Letter(m).read = ReadBy(m)
  <2>1. LetterShows(m)
    BY LetterIs
  <2> QED BY <1>3, <2>1 DEF LetterShows
<1>5. Contract!Climb(m, c, "read")
  BY <1>2, <1>4 DEF Contract!Climb, Contract!Raise, Letters
<1> QED BY <1>3, <1>5 DEF Contract!Next, Contract!Change, Contract!Boxes

LEMMA WithdrawsStep ==
  ASSUME NEW m \in Kept, Kept' = Kept, \A x \in Kept \ {m} : Letter(x)' = Letter(x),
         UNCHANGED <<deliveries, blobs, revoked>>, ReadBy(m) = {}, ~messages[m].recalled,
         messages[m] \in Message,
         \/ messages'[m] = [messages[m] EXCEPT !.recalled = TRUE]
         \/ messages'[m] = [messages[m] EXCEPT !.body = "edited"]
  PROVE  Contract!Next
<1>1. /\ messages'[m] = [messages[m] EXCEPT !.recalled = TRUE]
           => Letter(m)' = [Letter(m) EXCEPT !.recalled = TRUE]
      /\ messages'[m] = [messages[m] EXCEPT !.body = "edited"]
           => Letter(m)' = [Letter(m) EXCEPT !.body = "edited"]
  <2>1. StatusOf(m)' = StatusOf(m) /\ ReadBy(m)' = ReadBy(m) /\ AttachedTo(m)' = AttachedTo(m)
    BY DEF StatusOf, Recipients, ReadBy, AttachedTo
  <2>2. /\ Letter(m) = LetterOf(messages[m], ReadBy(m), StatusOf(m), AttachedTo(m))
        /\ Letter(m)' = LetterOf(messages'[m], ReadBy(m), StatusOf(m), AttachedTo(m))
    BY <2>1, LetterMade
  <2>3. ASSUME NEW old, old = Letter(m), NEW new, new = Letter(m)',
               NEW status, status = StatusOf(m), NEW attached, attached = AttachedTo(m),
               NEW row \in Message, row = messages[m], NEW read, read = ReadBy(m),
               NEW next, next = messages'[m]
        PROVE  /\ next = [row EXCEPT !.recalled = TRUE] => new = [old EXCEPT !.recalled = TRUE]
               /\ next = [row EXCEPT !.body = "edited"] => new = [old EXCEPT !.body = "edited"]
    <3>1. /\ old = LetterOf(row, read, status, attached)
          /\ new = LetterOf(next, read, status, attached)
      BY <2>2, <2>3
    <3>2. ASSUME NEW recalled, recalled = TRUE, next = [row EXCEPT !.recalled = recalled]
          PROVE  new = [old EXCEPT !.recalled = recalled]
      BY ONLY <3>1, next = [row EXCEPT !.recalled = recalled], row \in Message
         DEF LetterOf, Message
    <3>3. ASSUME next = [row EXCEPT !.body = "edited"]
          PROVE  new = [old EXCEPT !.body = "edited"]
      BY ONLY <3>1, <3>3, row \in Message DEF LetterOf, Message
    <3> QED BY <3>2, <3>3
  <2> QED BY <2>3
<1>2. PICK new \in {[Letter(m) EXCEPT !.recalled = TRUE],
                    [Letter(m) EXCEPT !.body = "edited"]} : Letter(m)' = new
  BY <1>1
<1>3. Letters' = [Letters EXCEPT ![m] = new] /\ Letters[m] = Letter(m)
  BY <1>2, MailIs
<1>4. Letter(m).read = {} /\ ~Letter(m).recalled
  BY LetterIs DEF LetterShows
<1>5. Contract!Withdraw(m)
  BY <1>2, <1>3, <1>4 DEF Contract!Withdraw, Letters
<1> QED BY <1>5 DEF Contract!Next, Contract!Change, Contract!Boxes

LEMMA VacateStep ==
  ASSUME Kept' = Kept, UNCHANGED <<messages, blobs, revoked>>,
         DOMAIN deliveries' = DOMAIN deliveries \ InRevokedBoxes,
         \A k \in DOMAIN deliveries' : deliveries'[k] = deliveries[k]
  PROVE  Contract!Next
<1>1. ASSUME NEW m \in Kept
      PROVE  Letter(m)' = [Letter(m) EXCEPT !.read = @ \ revoked,
                             !.status = Contract!Restrict(@, DOMAIN @ \ revoked)]
  <2>1. Recipients(m)' = Recipients(m) \ revoked
    BY DEF Recipients, InRevokedBoxes
  <2>2. ReadBy(m)' = ReadBy(m) \ revoked
    BY <2>1 DEF ReadBy, Recipients
  <2>3. StatusOf(m)' = Contract!Restrict(StatusOf(m), DOMAIN StatusOf(m) \ revoked)
    <3>1. StatusOf(m)' = [c \in Recipients(m)' |-> deliveries'[<<m, c>>].status]
      BY DEF StatusOf, Recipients
    <3>2. \A c \in Recipients(m)' : deliveries'[<<m, c>>] = deliveries[<<m, c>>]
      BY DEF Recipients
    <3>3. StatusOf(m)' = [c \in Recipients(m) \ revoked |-> deliveries[<<m, c>>].status]
      BY <2>1, <3>1, <3>2
    <3>4. /\ DOMAIN StatusOf(m) = Recipients(m)
          /\ \A c \in Recipients(m) \ revoked :
               StatusOf(m)[c] = deliveries[<<m, c>>].status
      BY DEF StatusOf
    <3> QED BY <3>3, <3>4 DEF Contract!Restrict
  <2>4. AttachedTo(m)' = AttachedTo(m)
    BY DEF AttachedTo
  <2>5. /\ Letter(m) = LetterOf(messages[m], ReadBy(m), StatusOf(m), AttachedTo(m))
        /\ Letter(m)' = LetterOf(messages[m], ReadBy(m) \ revoked,
             Contract!Restrict(StatusOf(m), DOMAIN StatusOf(m) \ revoked), AttachedTo(m))
    BY <2>2, <2>3, <2>4, LetterMade
  <2>6. ASSUME NEW old, old = Letter(m), NEW new, new = Letter(m)',
               NEW status, status = StatusOf(m), NEW attached, attached = AttachedTo(m),
               NEW row, row = messages[m], NEW was, was = ReadBy(m),
               NEW read, read = was \ revoked,
               NEW left, left = Contract!Restrict(status, DOMAIN status \ revoked)
        PROVE  new = [old EXCEPT !.read = @ \ revoked,
                        !.status = Contract!Restrict(@, DOMAIN @ \ revoked)]
    <3>1. /\ old = LetterOf(row, was, status, attached)
          /\ new = LetterOf(row, read, left, attached)
      BY <2>5, <2>6
    <3>2. new = [old EXCEPT !.read = read, !.status = left]
      <4>1. [old EXCEPT !.read = read] = LetterOf(row, read, status, attached)
        BY ONLY <3>1 DEF LetterOf
      <4>2. ASSUME NEW mid, mid = LetterOf(row, read, status, attached)
            PROVE  new = [mid EXCEPT !.status = left]
        BY ONLY <3>1, <4>2 DEF LetterOf
      <4>3. new = [[old EXCEPT !.read = read] EXCEPT !.status = left]
        BY <4>1, <4>2
      <4> QED BY ONLY <4>3
    <3>3. old.read = was /\ old.status = status
      BY ONLY <3>1 DEF LetterOf
    <3> QED BY <2>6, <3>2, <3>3
  <2> QED BY <2>6
<1>2. Letters' = [m \in Kept |-> [Letter(m) EXCEPT !.read = @ \ revoked,
                                    !.status = Contract!Restrict(@, DOMAIN @ \ revoked)]]
  BY <1>1 DEF Letters
<1>3. \A m \in Kept : Letters[m] = Letter(m)
  BY DEF Letters
<1>4. Contract!Vacate
  BY <1>2, <1>3 DEF Contract!Vacate, Contract!Boxes, Letters
<1> QED BY <1>4 DEF Contract!Next, Contract!Change

-----------------------------------------------------------------------------
(* What is kept, and the letters a step leaves as they are.                *)

\* The statements that write mail, or take it from a box.
Posts(r) == SendCommit(r) \/ PeerCommit(r) \/ RecordRemote(r)
Alters(r) == ReadMark(r) \/ ReadBump(r) \/ WithdrawUpdate(r) \/ GcDeliveries(r)

LEMMA AskedChanges ==
  ASSUME [Next]_vars, \A r \in Thread : ~Posts(r)
  PROVE  UNCHANGED asked
<1>1. ASSUME NEW r \in Thread, Begin(r) PROVE UNCHANGED asked
  BY <1>1 DEF Begin, SendBegin, ReadBegin, ArchiveBegin, WithdrawBegin, PeerBegin,
              UploadBegin, DownloadBegin, still, SessionBegin, elsewhere, RetainBegin, GcBegin,
              unmoved, RevokeChat
<1>2. ASSUME NEW r \in Thread, SendStep(r) \/ ReadStep(r) \/ WithdrawStep(r)
      PROVE  UNCHANGED asked
  BY <1>2 DEF SendStep, ResolveChat, ResolveLabel, ValidateBlob, SpeakAs, FindParent, Push,
              SendRollback, Posts, ReadStep, ReadLookup, ReadUnread, ReadMark, ReadRank,
              ReadBump, ReadTell, ReadView, Archive, WithdrawStep, WithdrawLookup,
              WithdrawUnread, WithdrawUpdate, WithdrawRecipients, WithdrawTell
<1>3. ASSUME NEW r \in Thread, AttachmentStep(r) \/ SessionStep(r) \/ GcStep(r)
      PROVE  UNCHANGED asked
  BY <1>3 DEF AttachmentStep, UploadExists, UploadReplace, InlineExists, InlineTruncate,
              InlineWrite, InsertBlob, DownloadLookup, DownloadBlob, DownloadOpen,
              DownloadServe, still, SessionStep, OpenSelect, OpenReopen, OpenInsert, Close,
              elsewhere, GcStep, GcDeliveries, GcMessages, GcEvents, unmoved
<1>4. ASSUME NEW j \in Job, RetainStep(j) PROVE UNCHANGED asked
  BY <1>4 DEF RetainStep, Orphans, DropOrphans, StillUsed, FileExists, Unlink, Doomed,
              DoomedShas, DropBlobs, DropDeliveries, DropEvents, DropMessages, unmoved
<1>5. ASSUME \/ \E c \in Chat : Poll(c)
             \/ HoursPass \/ DaysPass \/ Crash \/ UNCHANGED vars
      PROVE  UNCHANGED asked
  BY <1>5 DEF Poll, HoursPass, DaysPass, Crash, vars, store, unmoved
<1> QED BY <1>1, <1>2, <1>3, <1>4, <1>5 DEF Next, Stop, Work, Step, Job

\* A handler is at work, or revokes, only while the instance serves.
LEMMA ServesThreads ==
  ASSUME Inv, Orderly, NEW r \in Thread, Step(r) \/ RevokeChat(r)
  PROVE  Serving /\ ~Crash
<1>0. StoreTypeOK /\ Main \in Job /\ r \in Job /\ r # Main
  BY DEF Inv, TypeOK, Job
<1>1. CASE RevokeChat(r)
  <2>1. Serving /\ req'[Main] = req[Main]
    BY <1>0, <1>1 DEF RevokeChat, Answer, StoreTypeOK
  <2> QED BY <1>0, <2>1 DEF Serving, Crash, Retention, Idle
<1>2. CASE Step(r)
  <2>1. req[r].op # "idle"
    BY <1>2, StepOps DEF Step
  <2>2. req[Main].op = "idle" /\ Serving
    BY <1>0, <2>1, StartIsAlone, FreeIsIdle DEF StoreTypeOK, Serving
  <2>3. req'[Main] = req[Main]
    <3>1. Goes(r)
      BY <1>2 DEF Goes
    <3> QED BY <1>0, <2>2, <3>1, StepMoves DEF Moves, UnlinkMoves
  <2> QED BY <1>0, <2>2, <2>3 DEF Crash, Retention
<1> QED BY <1>1, <1>2

\* A start that is not the first one is to forget what is old.
LEMMA StartForgets ==
  ASSUME Inv, Care, Sound, Resumes, ~Serving
  PROVE  Window /\ req[Main].op = "retain" /\ StartsOver
<1>1. req[Main] \in Request
  BY DEF Inv, TypeOK, StoreTypeOK, Job
<1>2. req[Main].op = "retain"
  BY <1>1, FreeIsIdle DEF Care, Orderly, Serving
<1> QED BY <1>2 DEF Care, Sound, Up, Resumes

\* A start ends when no old message is left.
LEMMA StartEnds ==
  ASSUME StoreTypeOK, StartsOver, Window, req[Main].op = "retain", RetainStep(Main),
         req'[Main].op = "idle", NEW m \in DOMAIN messages, m \in DOMAIN messages'
  PROVE  m \notin aged
<1>0. Main \in Job
  BY DEF Job
<1>1. DropMessages(Main) => m \notin req[Main].ids
  BY DEF DropMessages, Drop, Restrict
<1>2. \/ /\ req[Main].at \in {"orphans", "used", "exists", "unlink"}
         /\ ~req[Main].days
      \/ req[Main].at = "unlink" /\ files[req[Main].now] = "absent"
      \/ req[Main].at = "doomed" /\ DOMAIN messages \cap aged = {}
      \/ req[Main].at = "messages" /\ DropMessages(Main)
  BY <1>0, CleaningGoesOn
<1> QED BY <1>1, <1>2 DEF StartsOver, AboutUploads

\* While it goes on, what it is still to forget is not kept.
LEMMA StartKeeps ==
  ASSUME Inv, Care, Sound, Resumes, [Next]_vars, ~Crash, ~Serving,
         NEW m \in DOMAIN messages, m \in DOMAIN messages',
         req'[Main] = Idle \/ m \notin aged'
  PROVE  m \notin aged
<1>0. StoreTypeOK /\ Orderly /\ Window /\ req[Main].op = "retain" /\ StartsOver
  BY StartForgets DEF Inv, TypeOK, Care
<1>1. CASE UNCHANGED vars
  BY <1>0, <1>1 DEF vars, store, Idle
<1>2. CASE RetainStep(Main)
  <2>1. UNCHANGED aged
    BY <1>2 DEF RetainStep, Orphans, DropOrphans, StillUsed, FileExists, Unlink, Doomed,
       DoomedShas, DropBlobs, DropDeliveries, DropEvents, DropMessages
  <2>2. CASE req'[Main] = Idle
    BY <1>0, <1>2, <2>2, StartEnds DEF Idle
  <2> QED BY <2>1, <2>2
<1> QED BY <1>0, <1>1, <1>2, StartGoesOn

\* What is kept was kept before, or is new.
LEMMA KeptWas ==
  ASSUME Inv, Care, Sound, Resumes, Resumes', [Next]_vars,
         NEW m \in Kept', m \in DOMAIN messages
  PROVE  m \in Kept
<1>0. /\ StoreTypeOK /\ Knowing /\ Orderly /\ m \in DOMAIN messages' /\ ~BeingForgotten(m)'
      /\ Main \in Job
  BY DEF Inv, TypeOK, Care, Kept, Job
<1>1. CASE Crash
  <2>1. Window /\ req'[Main] # Idle /\ UNCHANGED aged
    <3>1. boots' # 1
      BY <1>0, <1>1 DEF Crash, Orderly, StoreTypeOK
    <3> QED BY <1>0, <1>1, <3>1 DEF Resumes, Crash, Retention, Idle
  <2>2. m \notin aged
    BY <2>1 DEF Kept, Serving
  <2>3. ~BeingForgotten(m)
    BY <1>0, <2>2 DEF BeingForgotten, Knowing, Known, RetainKnown
  <2> QED BY <2>2, <2>3 DEF Kept
<1>2. CASE ~Crash /\ Serving
  BY <1>0, <1>2, ForgettingGoesOn DEF Kept
<1>3. CASE ~Crash /\ ~Serving
  <2>1. Window
    BY <1>3, StartForgets
  <2>2. ~BeingForgotten(m)
    BY <1>0, <1>3, ForgettingGoesOn
  <2>3. req'[Main] = Idle \/ m \notin aged'
    BY <2>1 DEF Kept, Serving
  <2>4. m \notin aged
    BY <1>0, <1>3, <2>3, StartKeeps
  <2> QED BY <2>2, <2>4 DEF Kept
<1> QED BY <1>1, <1>2, <1>3

\* A handler that cleans nothing forgets nothing.
LEMMA KeptAs ==
  ASSUME StoreTypeOK, Orderly, NEW r \in Thread, Moves(r), req[r].op # "retain", Serving
  PROVE  Kept' = {m \in DOMAIN messages' : ~BeingForgotten(m)}
<1>1. req'[r].op # "retain" /\ r \in Job /\ r # Main /\ req'[Main] = req[Main]
  BY DEF Moves, Job
<1>2. Serving'
  BY <1>1 DEF Serving
<1>3. ASSUME NEW m PROVE BeingForgotten(m)' <=> BeingForgotten(m)
  BY <1>1 DEF Moves, BeingForgotten
<1> QED BY <1>2, <1>3 DEF Kept

\* A letter that is kept changes with its own rows alone.
LEMMA LetterStays ==
  ASSUME Inv, [Next]_vars, NEW m \in Kept', m \in DOMAIN messages,
         messages'[m] = messages[m],
         DOMAIN deliveries \subseteq DOMAIN deliveries' \/ \A r \in Thread : ~GcDeliveries(r),
         \A k \in DOMAIN deliveries \cap DOMAIN deliveries' : k[1] = m =>
           /\ deliveries'[k].read = deliveries[k].read
           /\ deliveries'[k].status = deliveries[k].status
  PROVE  Letter(m)' = Letter(m)
<1>0. StoreTypeOK /\ m \in DOMAIN asked /\ Frame /\ Turnover /\ ~BeingForgotten(m)'
  BY StepStands, StepTurnover DEF Inv, TypeOK, Rows, MessagesAsked, Kept
<1>1. AttachedTo(m)' = AttachedTo(m)
  BY <1>0, AttachedStays
<1>2. ASSUME NEW c \in Chat
      PROVE  <<m, c>> \in DOMAIN deliveries' <=> <<m, c>> \in DOMAIN deliveries
  <2>0. <<m, c>>[1] = m
    OBVIOUS
  <2>1. <<m, c>> \in DOMAIN deliveries' => <<m, c>> \in DOMAIN deliveries
    BY <1>0, <2>0, MarkWrites, BumpWrites DEF Frame, DeliveriesStand
  <2>2. <<m, c>> \in DOMAIN deliveries => <<m, c>> \in DOMAIN deliveries'
    BY <1>0, <2>0, DroppedIsGoing DEF Turnover
  <2> QED BY <2>1, <2>2
<1>3. ASSUME NEW c \in Chat, <<m, c>> \in DOMAIN deliveries
      PROVE  /\ deliveries'[<<m, c>>].read = deliveries[<<m, c>>].read
             /\ deliveries'[<<m, c>>].status = deliveries[<<m, c>>].status
  <2>1. <<m, c>> \in DOMAIN deliveries \cap DOMAIN deliveries' /\ <<m, c>>[1] = m
    BY <1>2, <1>3
  <2> QED BY <2>1
<1> QED BY <1>1, <1>2, <1>3, SameLetter

\* A step that writes no mail forgets some, or none.
LEMMA QuietStep ==
  ASSUME Inv, Care, Sound, Resumes, Resumes', [Next]_vars, UNCHANGED revoked,
         \A r \in Thread : ~Posts(r) /\ ~Alters(r)
  PROVE  Contract!Next
<1>0. UNCHANGED asked /\ Frame /\ Rows /\ Rows'
  BY AskedChanges, StepStands, StepKeeps DEF Inv
<1>1. ASSUME NEW m \in DOMAIN messages'
      PROVE  m \in DOMAIN messages /\ messages'[m] = messages[m]
  BY <1>0, <1>1 DEF Alters, Frame, MessagesStand, Rows, MessagesAsked
<1>2. \A k \in DOMAIN deliveries \cap DOMAIN deliveries' :
        k[1] \in DOMAIN asked =>
          /\ deliveries'[k].read = deliveries[k].read
          /\ deliveries'[k].status = deliveries[k].status
  BY <1>0 DEF Alters, Posts, Frame, DeliveriesStand
<1>3. \A m \in DOMAIN messages : m \in DOMAIN asked
  BY <1>0 DEF Rows, MessagesAsked
<1>4. ASSUME NEW m \in Kept' PROVE m \in Kept /\ Letter(m)' = Letter(m)
  <2>1. m \in DOMAIN messages' /\ m \in DOMAIN messages /\ messages'[m] = messages[m]
    BY <1>1 DEF Kept
  <2> QED BY <1>2, <1>3, <2>1, KeptWas, LetterStays DEF Alters
<1> QED BY <1>4, ForgetStep

-----------------------------------------------------------------------------
(* The statements that change letters, each a step of Mailbox.             *)

\* The instance serves.
Steady == Inv /\ Care /\ Sound /\ Serving /\ ~Crash /\ [Next]_vars

LEMMA SteadyIs ==
  ASSUME Steady
  PROVE  /\ Inv /\ StoreTypeOK /\ Rows /\ Knowing /\ Orderly /\ Relying
         /\ \A q \in Job : Ready(req[q])
         /\ [Next]_vars /\ Serving /\ ~Crash
         /\ Kept = {m \in DOMAIN messages : ~BeingForgotten(m)}
         /\ \A m \in DOMAIN messages : m \in DOMAIN asked
BY DEF Steady, Inv, TypeOK, Care, Sound, Kept, Rows, MessagesAsked

LEMMA ReadMarkStep ==
  ASSUME Steady, NEW r \in Thread, ReadMark(r)
  PROVE  Contract!Next
<1> SUFFICES ASSUME NEW m, m = req[r].msg, NEW c, c = req[r].by, NEW k, k = <<m, c>>
             PROVE  Contract!Next
  OBVIOUS
<1>0. /\ Inv /\ StoreTypeOK /\ Orderly /\ [Next]_vars /\ Serving
      /\ Kept = {x \in DOMAIN messages : ~BeingForgotten(x)}
  BY SteadyIs
<1>1. /\ ReadStep(r) /\ req[r].op = "read" /\ UNCHANGED <<messages, blobs, revoked>>
      /\ DOMAIN deliveries' = DOMAIN deliveries
  BY DEF ReadStep, ReadMark, At, quiet, Update
<1>2. Kept' = Kept
  BY <1>0, <1>1, ReadMoves, KeptAs
<1>3. ASSUME NEW x \in DOMAIN deliveries
      PROVE  /\ deliveries'[x].status = deliveries[x].status
             /\ deliveries'[x].read = (deliveries[x].read \/ x = k)
  BY <1>0, <1>1, MarkWrites, MarkMarks DEF OwnKey
<1>4. ASSUME NEW x \in Kept, x # m \/ k \notin DOMAIN deliveries \/ deliveries[k].read
      PROVE  Letter(x)' = Letter(x)
  <2>1. x \in Kept' /\ x \in DOMAIN messages /\ messages'[x] = messages[x]
    BY <1>0, <1>1, <1>2
  <2>2. ASSUME NEW y \in DOMAIN deliveries, y[1] = x
        PROVE  /\ deliveries'[y].status = deliveries[y].status
               /\ deliveries'[y].read = deliveries[y].read
    <3>1. y = k => y[1] = m
      OBVIOUS
    <3>2. deliveries[y].read \in BOOLEAN
      BY <1>0 DEF StoreTypeOK, IsTable, Delivery
    <3> QED BY <1>3, <1>4, <2>2, <3>1, <3>2
  <2> QED BY <1>0, <1>1, <2>1, <2>2, LetterStays
<1>5. CASE m \notin Kept \/ k \notin DOMAIN deliveries \/ deliveries[k].read
  <2>1. \A x \in Kept : Letter(x)' = Letter(x)
    BY <1>4, <1>5
  <2> QED BY <1>1, <1>2, <2>1, ForgetStep
<1>6. CASE m \in Kept /\ k \in DOMAIN deliveries /\ ~deliveries[k].read
  <2>0. c \in Chat
    BY <1>0, <1>6 DEF StoreTypeOK, IsTable
  <2>1. c \in Recipients(m) /\ c \notin ReadBy(m)
    BY <1>6, <2>0 DEF Recipients, ReadBy
  <2>2. Recipients(m)' = Recipients(m)
    BY <1>1 DEF Recipients
  <2>3. ReadBy(m)' = ReadBy(m) \cup {c}
    <3>1. \A d \in Recipients(m) : deliveries'[<<m, d>>].read
                                      <=> deliveries[<<m, d>>].read \/ d = c
      BY <1>3 DEF Recipients
    <3> QED BY <2>1, <2>2, <3>1 DEF ReadBy
  <2>4. \A d \in Recipients(m) : deliveries'[<<m, d>>].status = deliveries[<<m, d>>].status
    BY <1>3 DEF Recipients
  <2>5. \A x \in Kept \ {m} : Letter(x)' = Letter(x)
    BY <1>4
  <2> QED BY <1>1, <1>2, <1>6, <2>1, <2>2, <2>3, <2>4, <2>5, ReadStepsOn
<1> QED BY <1>5, <1>6

LEMMA ReadBumpStep ==
  ASSUME Steady, TakeTurns("read", "send"), NEW r \in Thread, ReadBump(r)
  PROVE  Contract!Next
<1> SUFFICES ASSUME NEW m, m = req[r].msg, NEW c, c = req[r].by, NEW k, k = <<m, c>>
             PROVE  Contract!Next
  OBVIOUS
<1>0. /\ Inv /\ StoreTypeOK /\ Orderly /\ [Next]_vars /\ Serving /\ r \in Job
      /\ Kept = {x \in DOMAIN messages : ~BeingForgotten(x)}
      /\ Marked(req[r]) /\ StillLow(req[r])
  BY SteadyIs DEF Job, Ready, Relying, Relies
<1>1. /\ ReadStep(r) /\ req[r].op = "read" /\ UNCHANGED <<messages, blobs, revoked>>
      /\ DOMAIN deliveries' = DOMAIN deliveries /\ req[r].at = "bump"
  BY DEF ReadStep, ReadBump, At, quiet, Update
<1>2. Kept' = Kept
  BY <1>0, <1>1, ReadMoves, KeptAs
<1>3. ASSUME NEW x \in DOMAIN deliveries
      PROVE  /\ deliveries'[x].read = deliveries[x].read
             /\ deliveries'[x].status = IF x = k THEN "read" ELSE deliveries[x].status
  BY <1>0, <1>1, BumpWrites DEF OwnKey
<1>4. k \in DOMAIN deliveries => /\ deliveries[k].read
                                 /\ deliveries[k].status \in {"delivered", "read"}
  BY <1>0, <1>1 DEF Marked, StillLow, OwnKey
<1>5. ASSUME NEW x \in Kept, x # m \/ k \notin DOMAIN deliveries
                                 \/ deliveries[k].status = "read"
      PROVE  Letter(x)' = Letter(x)
  <2>1. x \in Kept' /\ x \in DOMAIN messages /\ messages'[x] = messages[x]
    BY <1>0, <1>1, <1>2
  <2>2. ASSUME NEW y \in DOMAIN deliveries, y[1] = x
        PROVE  /\ deliveries'[y].status = deliveries[y].status
               /\ deliveries'[y].read = deliveries[y].read
    <3>1. y = k => y[1] = m
      OBVIOUS
    <3> QED BY <1>3, <1>5, <2>2, <3>1
  <2> QED BY <1>0, <1>1, <2>1, <2>2, LetterStays
<1>6. CASE m \notin Kept \/ k \notin DOMAIN deliveries \/ deliveries[k].status = "read"
  <2>1. \A x \in Kept : Letter(x)' = Letter(x)
    BY <1>5, <1>6
  <2> QED BY <1>1, <1>2, <2>1, ForgetStep
<1>7. CASE m \in Kept /\ k \in DOMAIN deliveries /\ deliveries[k].status = "delivered"
  <2>0. c \in Chat
    BY <1>0, <1>7 DEF StoreTypeOK, IsTable
  <2>1. c \in ReadBy(m)
    BY <1>4, <1>7, <2>0 DEF Recipients, ReadBy
  <2>2. Recipients(m)' = Recipients(m)
    BY <1>1 DEF Recipients
  <2>3. ReadBy(m)' = ReadBy(m)
    <3>1. \A d \in Recipients(m) : deliveries'[<<m, d>>].read = deliveries[<<m, d>>].read
      BY <1>3 DEF Recipients
    <3> QED BY <2>2, <3>1 DEF ReadBy
  <2>4. ASSUME NEW d \in Recipients(m)
        PROVE  deliveries'[<<m, d>>].status
                 = IF d = c THEN "read" ELSE deliveries[<<m, d>>].status
    <3>1. <<m, d>> \in DOMAIN deliveries /\ (<<m, d>> = k <=> d = c)
      BY DEF Recipients
    <3> QED BY <1>3, <3>1
  <2>5. \A x \in Kept \ {m} : Letter(x)' = Letter(x)
    BY <1>5
  <2>6. STATUS_RANK[deliveries[<<m, c>>].status] < STATUS_RANK["read"]
    BY <1>7 DEF STATUS_RANK, Status
  <2> QED BY <1>1, <1>2, <1>7, <2>1, <2>2, <2>3, <2>4, <2>5, <2>6, ClimbStep
<1> QED BY <1>4, <1>6, <1>7

LEMMA WithdrawUpdateStep ==
  ASSUME Steady, TakeTurns("read", "unsend"), TakeTurns("read", "edit"),
         NEW r \in Thread, WithdrawUpdate(r)
  PROVE  Contract!Next
<1> SUFFICES ASSUME NEW m, m = req[r].msg PROVE Contract!Next
  OBVIOUS
<1>0. /\ Inv /\ StoreTypeOK /\ Orderly /\ [Next]_vars /\ Serving /\ r \in Job
      /\ Kept = {x \in DOMAIN messages : ~BeingForgotten(x)}
      /\ StillOpen(req[r]) /\ StillUnread(req[r])
  BY SteadyIs DEF Job, Ready, Relying, Relies
<1>1. /\ WithdrawStep(r) /\ req[r].op \in {"unsend", "edit"} /\ req[r].at = "update"
      /\ UNCHANGED <<deliveries, blobs, revoked>>
      /\ DOMAIN messages' = DOMAIN messages
  BY DEF WithdrawStep, WithdrawUpdate, Withdrawing, At, quiet, Update
<1>2. Kept' = Kept
  BY <1>0, <1>1, WithdrawMoves, KeptAs
<1>3. ASSUME NEW x \in DOMAIN messages
      PROVE  messages'[x] =
               IF x = m THEN IF req[r].op = "unsend"
                             THEN [messages[x] EXCEPT !.recalled = TRUE]
                             ELSE [messages[x] EXCEPT !.body = "edited"]
               ELSE messages[x]
  BY <1>3 DEF WithdrawUpdate, Update
<1>4. ReadBy(m) = {} /\ (req[r].op = "edit" /\ m \in DOMAIN messages => ~messages[m].recalled)
  BY <1>0, <1>1 DEF StillOpen, StillUnread
<1>5. ASSUME NEW x \in Kept, messages'[x] = messages[x] PROVE Letter(x)' = Letter(x)
  <2>1. x \in Kept' /\ x \in DOMAIN messages
    BY <1>0, <1>2
  <2> QED BY <1>0, <1>1, <1>5, <2>1, LetterStays
<1>6. \A x \in Kept \ {m} : Letter(x)' = Letter(x)
  BY <1>0, <1>3, <1>5
<1>7. CASE m \notin Kept
  BY <1>1, <1>2, <1>6, <1>7, ForgetStep
<1>8. CASE m \in Kept
  <2>1. m \in DOMAIN messages /\ messages[m] \in Message
    BY <1>0, <1>8 DEF StoreTypeOK, IsTable
  <2>2. CASE messages[m].recalled
    <3>1. messages'[m] = [messages[m] EXCEPT !.recalled = TRUE]
      BY <1>1, <1>3, <1>4, <2>1, <2>2
    <3>2. [messages[m] EXCEPT !.recalled = TRUE] = messages[m]
      BY <2>1, <2>2 DEF Message
    <3>3. Letter(m)' = Letter(m)
      BY <1>5, <1>8, <3>1, <3>2
    <3>4. \A x \in Kept : Letter(x)' = Letter(x)
      BY <1>6, <3>3
    <3> QED BY <1>1, <1>2, <3>4, ForgetStep
  <2>3. CASE ~messages[m].recalled
    <3>1. \/ messages'[m] = [messages[m] EXCEPT !.recalled = TRUE]
          \/ messages'[m] = [messages[m] EXCEPT !.body = "edited"]
      BY <1>3, <2>1
    <3> QED BY <1>1, <1>2, <1>4, <1>6, <1>8, <2>1, <2>3, <3>1, WithdrawsStep
  <2> QED BY <2>2, <2>3
<1> QED BY <1>7, <1>8

LEMMA GcDeliveriesStep ==
  ASSUME Steady, NEW r \in Thread, GcDeliveries(r)
  PROVE  Contract!Next
<1>0. /\ StoreTypeOK /\ Orderly /\ Serving
      /\ Kept = {x \in DOMAIN messages : ~BeingForgotten(x)}
  BY SteadyIs
<1>1. GcStep(r) /\ req[r].op = "gc" /\ UNCHANGED <<messages, blobs, revoked>>
  BY DEF GcStep, GcDeliveries, At, unmoved
<1>2. Kept' = Kept
  BY <1>0, <1>1, GcMoves, KeptAs
<1>3. /\ DOMAIN deliveries' = DOMAIN deliveries \ InRevokedBoxes
      /\ \A k \in DOMAIN deliveries' : deliveries'[k] = deliveries[k]
  BY DEF GcDeliveries, Drop, Restrict
<1> QED BY <1>1, <1>2, <1>3, VacateStep

LEMMA RevokeChatStep ==
  ASSUME Steady, NEW r \in Thread, RevokeChat(r)
  PROVE  Contract!Next
<1>1. PICK c \in Chat : revoked' = revoked \cup {c}
  BY DEF RevokeChat
<1>2. UNCHANGED <<messages, deliveries, blobs, req, aged>>
  BY SteadyIs DEF RevokeChat, Answer, elsewhere, tables, StoreTypeOK, Job
<1>3. Letters' = Letters
  BY <1>2 DEF Letters, Kept, Serving, BeingForgotten, Letter, ReadBy, Recipients, AttachedTo
<1>4. Contract!Leave(c)
  BY <1>1, <1>3 DEF Contract!Leave, Letters
<1> QED BY <1>4 DEF Contract!Next

-----------------------------------------------------------------------------
(* The transactions that write a message.                                  *)

LEMMA PostedMail ==
  ASSUME Steady, NEW r \in Thread, Posts(r), NEW m, m = Fresh(MsgId, DOMAIN asked)
  PROVE  /\ m \in MsgId \ Kept /\ Kept' = Kept \cup {m}
         /\ messages'[m].from = req[r].by
         /\ ~messages'[m].recalled /\ messages'[m].body = "first"
         /\ \A x \in Kept : x \in MsgId /\ x \in DOMAIN messages /\ x # m
                            /\ messages'[x] = messages[x] /\ ~BeingForgotten(x)'
         /\ DOMAIN deliveries \subseteq DOMAIN deliveries' /\ UNCHANGED revoked
         /\ \A c \in Chat : <<m, c>> \notin DOMAIN deliveries
<1>0. /\ Inv /\ StoreTypeOK /\ Rows /\ Knowing /\ Orderly /\ Serving /\ [Next]_vars
      /\ Kept = {x \in DOMAIN messages : ~BeingForgotten(x)}
      /\ \A x \in DOMAIN messages : x \in DOMAIN asked
  BY SteadyIs
<1>1. SendStep(r) /\ req[r].op \in {"send", "peer"} /\ UNCHANGED revoked
  BY DEF Posts, SendStep, SendCommit, PeerCommit, RecordRemote, At, quiet
<1>2. m \in MsgId \ DOMAIN asked
  BY <1>0, FreshId DEF Posts, SendCommit, PeerCommit, RecordRemote, StoreTypeOK, IsTable
<1>3. PICK via : messages' = Put(messages, m, Row(req[r].by, via))
  <2>1. CASE RecordRemote(r)
    BY <2>1 DEF RecordRemote
  <2>2. CASE PeerCommit(r)
    BY <2>2 DEF PeerCommit
  <2>3. CASE SendCommit(r)
    BY <2>3 DEF SendCommit
  <2> QED BY <2>1, <2>2, <2>3 DEF Posts
<1>4. /\ DOMAIN messages' = DOMAIN messages \cup {m}
      /\ messages'[m] = Row(req[r].by, via)
      /\ \A x \in DOMAIN messages : x # m /\ messages'[x] = messages[x]
  BY <1>0, <1>2, <1>3 DEF Put
<1>5. Kept' = {x \in DOMAIN messages' : ~BeingForgotten(x)}
  BY <1>0, <1>1, SendMoves, KeptAs
<1>6. ~BeingForgotten(m)
  BY <1>0, <1>2 DEF BeingForgotten, Knowing, Known, RetainKnown
<1>7. DOMAIN deliveries \subseteq DOMAIN deliveries'
  <2>1. CASE RecordRemote(r)
    BY <2>1 DEF RecordRemote
  <2>2. CASE PeerCommit(r)
    BY <2>2 DEF PeerCommit, Put
  <2>3. CASE SendCommit(r)
    BY <1>0, <2>3, SendCommitWrites DEF Delivered
  <2> QED BY <2>1, <2>2, <2>3 DEF Posts
<1>8. ASSUME NEW c \in Chat PROVE <<m, c>> \notin DOMAIN deliveries
  <2>1. <<m, c>>[1] = m
    OBVIOUS
  <2> QED BY <1>0, <1>2, <2>1 DEF Rows, DeliveriesAsked
<1>9. m \notin Kept /\ Kept' = Kept \cup {m}
  BY <1>0, <1>2, <1>4, <1>5, <1>6
<1>10. ASSUME NEW x \in Kept PROVE ~BeingForgotten(x)' /\ x \in MsgId
  BY <1>0, <1>9 DEF Kept, StoreTypeOK, IsTable
<1>11. /\ messages'[m].from = req[r].by
       /\ ~messages'[m].recalled /\ messages'[m].body = "first"
  BY <1>4 DEF Row
<1> QED BY <1>0, <1>1, <1>2, <1>4, <1>7, <1>8, <1>9, <1>10, <1>11

LEMMA RecordRemoteStep ==
  ASSUME Steady, NEW r \in Thread, RecordRemote(r)
  PROVE  Contract!Next
<1> SUFFICES ASSUME NEW m, m = Fresh(MsgId, DOMAIN asked), NEW c, c = req[r].by
             PROVE  Contract!Next
  OBVIOUS
<1>0. Inv /\ [Next]_vars
  BY SteadyIs
<1>1. /\ m \in MsgId \ Kept /\ Kept' = Kept \cup {m}
      /\ messages'[m].from = c /\ ~messages'[m].recalled /\ messages'[m].body = "first"
      /\ \A x \in Kept : x \in MsgId /\ x \in DOMAIN messages /\ messages'[x] = messages[x]
      /\ UNCHANGED revoked /\ \A d \in Chat : <<m, d>> \notin DOMAIN deliveries
  BY PostedMail DEF Posts
<1>2. UNCHANGED deliveries
  BY DEF RecordRemote
<1>3. Recipients(m)' = {}
  BY <1>1, <1>2 DEF Recipients
<1>4. \A x \in Kept : Letter(x)' = Letter(x) /\ x # None
  BY <1>0, <1>1, <1>2, LetterStays
<1>5. None \in MsgId \cup {None}
  OBVIOUS
<1> QED BY <1>1, <1>3, <1>4, <1>5, PostStep

LEMMA PeerCommitStep ==
  ASSUME Steady, NEW r \in Thread, PeerCommit(r)
  PROVE  Contract!Next
<1> SUFFICES ASSUME NEW m, m = Fresh(MsgId, DOMAIN asked), NEW c, c = req[r].by,
                    NEW to, to = req[r].to
             PROVE  Contract!Next
  OBVIOUS
<1>0. Inv /\ [Next]_vars /\ to \notin revoked
  BY SteadyIs DEF Job, Ready, Resolved, PeerCommit, At
<1>1. /\ m \in MsgId \ Kept /\ Kept' = Kept \cup {m}
      /\ messages'[m].from = c /\ ~messages'[m].recalled /\ messages'[m].body = "first"
      /\ \A x \in Kept : x \in MsgId /\ x # m /\ x \in DOMAIN messages
                         /\ messages'[x] = messages[x]
      /\ DOMAIN deliveries \subseteq DOMAIN deliveries'
      /\ UNCHANGED revoked /\ \A d \in Chat : <<m, d>> \notin DOMAIN deliveries
  BY PostedMail DEF Posts
<1>2. deliveries' = Put(deliveries, <<m, to>>, NewDelivery(None))
  BY DEF PeerCommit
<1>3. Recipients(m)' \subseteq {to}
  BY <1>1, <1>2 DEF Recipients, Put
<1>4. \A d \in Recipients(m)' : deliveries'[<<m, d>>] = NewDelivery(None)
  BY <1>2, <1>3 DEF Recipients, Put
<1>5. ASSUME NEW x \in Kept PROVE Letter(x)' = Letter(x) /\ x # None
  <2>1. \A k \in DOMAIN deliveries : k[1] = x => deliveries'[k] = deliveries[k]
    <3>1. <<m, to>>[1] = m
      OBVIOUS
    <3> QED BY <1>1, <1>2, <3>1 DEF Put
  <2> QED BY <1>0, <1>1, <2>1, LetterStays
<1>6. None \in MsgId \cup {None}
  OBVIOUS
<1>7. \A d \in Recipients(m)' : /\ deliveries'[<<m, d>>].status = "delivered"
                                /\ ~deliveries'[<<m, d>>].read
  BY <1>4 DEF NewDelivery
<1> QED BY <1>0, <1>1, <1>3, <1>5, <1>6, <1>7, PostStep

LEMMA SendCommitStep ==
  ASSUME Steady, NEW r \in Thread, SendCommit(r)
  PROVE  Contract!Next
<1> SUFFICES ASSUME NEW m, m = Fresh(MsgId, DOMAIN asked), NEW c, c = req[r].by,
                    NEW parent, parent = req[r].parent, NEW s, s = req[r]
             PROVE  Contract!Next
  OBVIOUS
<1>0. /\ Inv /\ StoreTypeOK /\ Rows /\ Knowing /\ [Next]_vars /\ Resolved(s)
      /\ \A x \in DOMAIN messages : x \in DOMAIN asked
  BY SteadyIs DEF Job, Ready
<1>1. /\ m \in MsgId \ Kept /\ Kept' = Kept \cup {m}
      /\ messages'[m].from = c /\ ~messages'[m].recalled /\ messages'[m].body = "first"
      /\ \A x \in Kept : x # m /\ x \in DOMAIN messages /\ messages'[x] = messages[x]
                         /\ ~BeingForgotten(x)'
      /\ DOMAIN deliveries \subseteq DOMAIN deliveries'
      /\ UNCHANGED revoked /\ \A d \in Chat : <<m, d>> \notin DOMAIN deliveries
  BY PostedMail DEF Posts
<1>2. /\ Delivered(s, m) /\ s \in SendJob /\ Validated(s) /\ s.todo = {}
      /\ m \notin DOMAIN asked
  BY <1>0, SendCommitWrites DEF Written
<1>3. c \in Chat /\ parent \in MsgId \cup {None}
  BY <1>2 DEF SendJob
<1>4. Recipients(m)' \cap revoked = {}
  <2>1. \A a \in s.to : a[1] \notin revoked
    BY <1>0, <1>2 DEF Resolved, Reachable, SendJob
  <2>2. ASSUME NEW d \in Recipients(m)' PROVE d \in Chats(s)
    <3>1. <<m, d>> \in DOMAIN deliveries' \ DOMAIN deliveries /\ <<m, d>>[2] = d
      BY <1>1, <2>2 DEF Recipients
    <3> QED BY <1>2, <3>1 DEF Delivered
  <2> QED BY <2>1, <2>2 DEF Chats
<1>5. /\ DeliveriesStand
      /\ \A k \in DOMAIN deliveries :
           deliveries'[k].status =
             IF k = <<parent, c>> /\ STATUS_RANK[deliveries[k].status] < STATUS_RANK["replied"]
             THEN "replied" ELSE deliveries[k].status
  BY <1>0, SendCommitRaises
<1>6. ASSUME NEW d \in Recipients(m)'
      PROVE  deliveries'[<<m, d>>].status = "delivered" /\ ~deliveries'[<<m, d>>].read
  <2>1. <<m, d>> \in DOMAIN deliveries' \ DOMAIN deliveries
    BY <1>1, <1>6 DEF Recipients
  <2> QED BY <1>5, <2>1 DEF DeliveriesStand
<1>7. ASSUME NEW x \in Kept, NEW d \in Chat, <<x, d>> \in DOMAIN deliveries
      PROVE  /\ <<x, d>> \in DOMAIN deliveries'
             /\ deliveries'[<<x, d>>].read = deliveries[<<x, d>>].read
  <2>1. <<x, d>>[1] = x /\ x \in DOMAIN asked
    BY <1>0, <1>1
  <2> QED BY <1>1, <1>5, <1>7, <2>1 DEF DeliveriesStand
<1>8. ASSUME NEW x \in Kept, x = parent, c \in Recipients(x),
             STATUS_RANK[deliveries[<<x, c>>].status] < STATUS_RANK["replied"]
      PROVE  Letter(x)' = [Letter(x) EXCEPT !.status[c] = "replied"]
  <2>1. Recipients(x)' = Recipients(x)
    <3>1. ASSUME NEW d \in Chat, <<x, d>> \in DOMAIN deliveries'
          PROVE  <<x, d>> \in DOMAIN deliveries
      BY <1>1, <1>2, <3>1 DEF Delivered
    <3> QED BY <1>7, <3>1 DEF Recipients
  <2>2. ReadBy(x)' = ReadBy(x)
    BY <1>7, <2>1 DEF ReadBy, Recipients
  <2>3. ASSUME NEW d \in Recipients(x)
        PROVE  deliveries'[<<x, d>>].status
                 = IF d = c THEN "replied" ELSE deliveries[<<x, d>>].status
    BY <1>5, <1>8, <2>3 DEF Recipients
  <2>4. AttachedTo(x)' = AttachedTo(x)
    BY <1>0, <1>1, AttachedStays
  <2>5. messages'[x] = messages[x] /\ c \in Recipients(x)
    BY <1>1, <1>8
  <2>6. \A d \in Recipients(x) :
          deliveries'[<<x, d>>].status
            = IF d = c THEN "replied" ELSE deliveries[<<x, d>>].status
    BY <2>3
  <2> QED BY ONLY <2>1, <2>2, <2>4, <2>5, <2>6, LetterRaised
<1>9. ASSUME NEW x \in Kept,
             ~(/\ x = parent /\ c \in Recipients(x)
               /\ STATUS_RANK[deliveries[<<x, c>>].status] < STATUS_RANK["replied"])
      PROVE  Letter(x)' = Letter(x)
  <2>1. ASSUME NEW k \in DOMAIN deliveries, k[1] = x
        PROVE  /\ deliveries'[k].read = deliveries[k].read
               /\ deliveries'[k].status = deliveries[k].status
    <3>1. deliveries'[k].read = deliveries[k].read
      BY <1>0, <1>1, <1>5, <2>1 DEF DeliveriesStand
    <3>2. k = <<parent, c>> => /\ x = parent /\ c \in Recipients(x)
                               /\ k = <<x, c>>
      BY <1>3, <2>1 DEF Recipients
    <3> QED BY <1>5, <1>9, <3>1, <3>2
  <2>2. x \in Kept' /\ x \in DOMAIN messages /\ messages'[x] = messages[x]
    BY <1>1
  <2> QED BY <1>0, <1>1, <2>1, <2>2, LetterStays
<1> QED BY <1>1, <1>3, <1>4, <1>6, <1>8, <1>9, PostStep

-----------------------------------------------------------------------------
(* Every step.                                                             *)

LEMMA EveryStep ==
  ASSUME Inv, Care, Sound, Resumes, Resumes', [Next]_vars, Uncrossed
  PROVE  Contract!Next
<1>1. ASSUME NEW r \in Thread, RevokeChat(r) \/ Posts(r) \/ Alters(r)
      PROVE  Steady
  <2>1. RevokeChat(r) \/ Step(r)
    BY <1>1 DEF Posts, Alters, Step, SendStep, ReadStep, WithdrawStep, GcStep
  <2> QED BY <2>1, ServesThreads DEF Steady, Care
<1>2. CASE \E r \in Thread : RevokeChat(r)
  BY <1>1, <1>2, RevokeChatStep
<1>3. CASE \E r \in Thread : Posts(r)
  BY <1>1, <1>3, RecordRemoteStep, PeerCommitStep, SendCommitStep DEF Posts
<1>4. CASE \E r \in Thread : Alters(r)
  BY <1>1, <1>4, ReadMarkStep, ReadBumpStep, WithdrawUpdateStep, GcDeliveriesStep
     DEF Alters, Uncrossed
<1>5. CASE ~\E r \in Thread : RevokeChat(r) \/ Posts(r) \/ Alters(r)
  BY <1>5, RevokedChanges, QuietStep
<1> QED BY <1>2, <1>3, <1>4, <1>5

\* An instance starts without mail.
LEMMA StartsEmpty == Init => Contract!Init
<1> SUFFICES ASSUME Init PROVE Contract!Init
  OBVIOUS
<1>1. Kept = {} /\ revoked = {}
  BY DEF Init, Kept
<1>2. [m \in Kept |-> Letter(m)] = [m \in {} |-> None]
  BY <1>1
<1> QED BY <1>1, <1>2 DEF Contract!Init

\* An instance is a Mailbox: whatever its handlers are made of, each of their
\* statements is one step of Mailbox, or none, and so is each statement of the
\* cleaning that follows a crash, as long as a window is configured or there is
\* no crash.  That holds whichever requests overlap but those Uncrossed keeps
\* apart; one thread is enough.
THEOREM ImplementsMailbox ==
  ASSUME Uncrossed
  PROVE  Spec /\ []Resumes => KeepsContract
<1>1. Inv /\ Care /\ Sound /\ Resumes /\ Resumes' /\ [Next]_vars
        => [Contract!Next]_<<[m \in Kept |-> Letter(m)], revoked>>
  <2> SUFFICES ASSUME Inv, Care, Sound, Resumes, Resumes', [Next]_vars
               PROVE  Contract!Next
    OBVIOUS
  <2> QED BY EveryStep
<1> QED BY <1>1, StartsEmpty, SoundHolds, PTL DEF Spec, KeepsContract, Contract!Spec
=============================================================================
