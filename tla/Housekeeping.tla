---------------------------- MODULE Housekeeping -----------------------------
(***************************************************************************)
(* Forgetting: _apply_retention and _gc of app/main.py, on the owner's     *)
(* demand and at every start of the process (create_app), and the crashes  *)
(* that lead to one.  Every statement commits on its own.                  *)
(***************************************************************************)
EXTENDS Store

CONSTANTS
  Window,     \* is a retention window configured (RETENTION_DAYS > 0)?
  MaxBoots    \* bound: how many times the process is started

ASSUME HousekeepingAssumption == Window \in BOOLEAN /\ MaxBoots \in Nat

\* The local variables of _apply_retention: the ids selected, the digests of
\* their bytes, the digest _drop_blob_files is at, and whether a window asks
\* for old messages to be forgotten too (days > 0) or that part is over.
RetainJob ==
  [op: {"retain"},
   at: {"orphans", "dropOrphans", "doomed", "shas", "blobs", "deliveries",
        "events", "messages", "used", "exists", "unlink"},
   ids: SUBSET (MsgId \cup BlobId), shas: SUBSET Sha, now: Sha \cup {None},
   days: BOOLEAN]

GcJob == [op: {"gc"}, at: {"deliveries", "messages", "events"}]

Retention(days) ==
  [op |-> "retain", at |-> "orphans", ids |-> {}, shas |-> {}, now |-> None,
   days |-> days]

unmoved == <<revoked, sessions, lastSeq, cursor, asked, uploaded>>

-----------------------------------------------------------------------------
(* apply_retention: the owner forgets on demand, with or without a window. *)

RetainBegin(r) ==
  /\ \E days \in BOOLEAN : Accept(r, Retention(days))
  /\ UNCHANGED <<unmoved, messages, deliveries, events, blobs, files, boots, aged>>

\* After the files of one part: on to the old messages, or the end.
NextPart(s) ==
  IF s.days THEN [s EXCEPT !.at = "doomed", !.ids = {}] ELSE Idle

\* SELECT the uploads no message took, old enough.
Orphans(j) ==
  /\ At(j, "retain", "orphans")
  /\ LET old == {b \in DOMAIN blobs \cap aged : blobs[b].attached = None} IN
       req' = [req EXCEPT ![j] =
                 IF old = {} THEN NextPart(@)
                 ELSE [@ EXCEPT !.at = "dropOrphans", !.ids = old,
                                !.shas = {blobs[b].sha : b \in old}]]
  /\ UNCHANGED <<unmoved, messages, deliveries, events, blobs, files, boots, aged>>

\* DELETE them: those a message has taken since are left.
DropOrphans(j) ==
  /\ At(j, "retain", "dropOrphans")
  /\ blobs' = Drop(blobs, {b \in DOMAIN blobs \cap req[j].ids :
                             blobs[b].attached = None})
  /\ Goto(j, "used")
  /\ UNCHANGED <<unmoved, messages, deliveries, events, files, boots, aged>>

\* _drop_blob_files, its SELECT: bytes that a row still needs are kept.
StillUsed(j) ==
  /\ At(j, "retain", "used")
  /\ \E sha \in req[j].shas :
       LET left == req[j].shas \ {sha} IN
       IF sha \notin ReferencedShas
       THEN req' = [req EXCEPT ![j].at = "exists", ![j].now = sha,
                               ![j].shas = left]
       ELSE req' = [req EXCEPT ![j] = IF left = {} THEN NextPart(@)
                                      ELSE [@ EXCEPT !.shas = left]]
  /\ UNCHANGED <<unmoved, messages, deliveries, events, blobs, files, boots, aged>>

\* On to the next digest.
NextFile(s) == IF s.shas = {} THEN NextPart(s) ELSE [s EXCEPT !.at = "used"]

\* path.exists(): a file that is gone is passed over.
FileExists(j) ==
  /\ At(j, "retain", "exists")
  /\ req' = [req EXCEPT ![j] = IF files[@.now] = "absent" THEN NextFile(@)
                               ELSE [@ EXCEPT !.at = "unlink"]]
  /\ UNCHANGED <<unmoved, messages, deliveries, events, blobs, files, boots, aged>>

\* path.unlink(): where another cleaning was faster, the exception ends this
\* one.  An upload that has the file open writes its bytes to a file without a
\* name.
Unlink(j) ==
  /\ At(j, "retain", "unlink")
  /\ LET s == req[j] IN
       /\ files' = [files EXCEPT ![s.now] = "absent"]
       /\ req' = [q \in Job |->
            IF q = j THEN IF files[s.now] = "absent" THEN Idle ELSE NextFile(s)
            ELSE IF At(q, "inline", "write") /\ req[q].sha = s.now
                 THEN [req[q] EXCEPT !.at = "insert"] ELSE req[q]]
  /\ UNCHANGED <<unmoved, messages, deliveries, events, blobs, boots, aged>>

-----------------------------------------------------------------------------
(* The second part, for messages past the window: rows first, in an order  *)
(* the foreign key of deliveries allows, and the files last.               *)

Doomed(j) ==
  /\ At(j, "retain", "doomed")
  /\ LET old == DOMAIN messages \cap aged IN
       req' = [req EXCEPT ![j] =
                 IF old = {} THEN Idle
                 ELSE [@ EXCEPT !.at = "shas", !.ids = old, !.days = FALSE]]
  /\ UNCHANGED <<unmoved, messages, deliveries, events, blobs, files, boots, aged>>

\* Mutant: a row that shares its bytes with another one is spared.
UnsharedAttachmentsOf(ids) ==
  {b \in DOMAIN blobs : /\ blobs[b].attached \in ids
                        /\ \A x \in DOMAIN blobs \ {b} : blobs[x].sha # blobs[b].sha}

AttachmentsOf(ids) == {b \in DOMAIN blobs : blobs[b].attached \in ids}

DoomedShas(j) ==
  /\ At(j, "retain", "shas")
  /\ req' = [req EXCEPT ![j].at = "blobs",
               ![j].shas = {blobs[b].sha : b \in AttachmentsOf(req[j].ids)}]
  /\ UNCHANGED <<unmoved, messages, deliveries, events, blobs, files, boots, aged>>

DropBlobs(j) ==
  /\ At(j, "retain", "blobs")
  /\ blobs' = Drop(blobs, AttachmentsOf(req[j].ids))
  /\ Goto(j, "deliveries")
  /\ UNCHANGED <<unmoved, messages, deliveries, events, files, boots, aged>>

\* Mutant: unread mail is spared.
ReadDeliveriesOf(ids) == {k \in DOMAIN deliveries : k[1] \in ids /\ deliveries[k].read}

DeliveriesOf(ids) == {k \in DOMAIN deliveries : k[1] \in ids}

DropDeliveries(j) ==
  /\ At(j, "retain", "deliveries")
  /\ deliveries' = Drop(deliveries, DeliveriesOf(req[j].ids))
  /\ Goto(j, "events")
  /\ UNCHANGED <<unmoved, messages, events, blobs, files, boots, aged>>

DropEvents(j) ==
  /\ At(j, "retain", "events")
  /\ events' = Drop(events, {i \in DOMAIN events : events[i].msg \in req[j].ids})
  /\ Goto(j, "messages")
  /\ UNCHANGED <<unmoved, messages, deliveries, blobs, files, boots, aged>>

DropMessages(j) ==
  /\ At(j, "retain", "messages")
  /\ messages' = Drop(messages, req[j].ids)
  /\ req' = [req EXCEPT ![j] = IF @.shas = {} THEN Idle
                               ELSE [@ EXCEPT !.at = "used"]]
  /\ UNCHANGED <<unmoved, deliveries, events, blobs, files, boots, aged>>

-----------------------------------------------------------------------------
(* garbage_collect?revoked=true; what it does to OAuth's tables is not in  *)
(* this module.  Each DELETE selects the revoked chats anew.               *)

GcBegin(r) ==
  /\ Accept(r, [op |-> "gc", at |-> "deliveries"])
  /\ UNCHANGED <<unmoved, messages, deliveries, events, blobs, files, boots, aged>>

\* Mutant: what a revoked chat sent, instead of what it received.
SentByRevoked ==
  {k \in DOMAIN deliveries : k[1] \in DOMAIN messages /\ messages[k[1]].from \in revoked}

InRevokedBoxes == {k \in DOMAIN deliveries : k[2] \in revoked}

GcDeliveries(r) ==
  /\ At(r, "gc", "deliveries")
  /\ deliveries' = Drop(deliveries, InRevokedBoxes)
  /\ Goto(r, "messages")
  /\ UNCHANGED <<unmoved, messages, events, blobs, files, boots, aged>>

\* Mutant: whoever still has it.
FromRevoked == {m \in DOMAIN messages : messages[m].from \in revoked}

\* What a revoked chat sent goes too, but only with no recipient left.
Abandoned ==
  {m \in DOMAIN messages : messages[m].from \in revoked /\ Recipients(m) = {}}

GcMessages(r) ==
  /\ At(r, "gc", "messages")
  /\ messages' = Drop(messages, Abandoned)
  /\ Goto(r, "events")
  /\ UNCHANGED <<unmoved, deliveries, events, blobs, files, boots, aged>>

GcEvents(r) ==
  /\ At(r, "gc", "events")
  /\ events' = Drop(events, {i \in DOMAIN events : events[i].chat \in revoked})
  /\ Answer(r)
  /\ UNCHANGED <<unmoved, messages, deliveries, blobs, files, boots, aged>>

-----------------------------------------------------------------------------
(* Time and failure.                                                       *)

\* The windows are hours and days, no request lasts that long: rows age when
\* nothing is in flight.
HoursPass ==
  /\ "retain" \in Workload \/ boots < MaxBoots
  /\ AtRest
  /\ aged' = aged \cup DOMAIN blobs
  /\ UNCHANGED <<unmoved, messages, deliveries, events, blobs, files, req, boots>>

DaysPass ==
  /\ "retain" \in Workload \/ boots < MaxBoots
  /\ AtRest
  /\ aged' = aged \cup DOMAIN blobs \cup DOMAIN messages
  /\ UNCHANGED <<unmoved, messages, deliveries, events, blobs, files, req, boots>>

\* The process dies: committed statements and files stay, every request in
\* flight is gone, and create_app cleans before it serves again.
Crash ==
  /\ boots < MaxBoots
  /\ boots' = boots + 1
  /\ req' = [j \in Job |-> IF j = Main THEN Retention(Window)
                           ELSE Idle]
  /\ UNCHANGED <<unmoved, messages, deliveries, events, blobs, files, aged>>
=============================================================================
