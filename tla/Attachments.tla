----------------------------- MODULE Attachments ------------------------------
(***************************************************************************)
(* Uploading and downloading bytes (the blobs routes of app/main.py).  The *)
(* bytes live in files named by their digest, outside any transaction, so  *)
(* a row of blobs and the file it points to are written by separate steps. *)
(***************************************************************************)
EXTENDS Store

UploadJob ==
  [op: {"upload", "inline"}, at: {"exists", "replace", "truncate", "write", "insert"},
   by: Chat, sha: Sha]

DownloadJob ==
  [op: {"download"}, at: {"lookup", "blob", "open", "serve"}, by: Chat,
   msg: MsgId, blob: BlobId, sha: Sha \cup {None}]

still == <<revoked, sessions, messages, deliveries, events, lastSeq, cursor,
           boots, aged, asked>>

UploadBegin(r, c) ==
  /\ \E op \in {"upload", "inline"}, sha \in Sha :
       AcceptFrom(c, r, [op |-> op, at |-> "exists", by |-> c, sha |-> sha])
  /\ UNCHANGED <<still, blobs, files, uploaded>>

-----------------------------------------------------------------------------
(* The multipart route is a coroutine: from the end of the upload to the   *)
(* row it never awaits, so the event loop runs one of these at a time.     *)
(* The bytes are complete in a temporary file of its own before that.      *)

LoopIsFree(r) == ~\E q \in Thread \ {r} : At(q, "upload", "replace") \/ At(q, "upload", "insert")

UploadExists(r) ==
  /\ At(r, "upload", "exists") /\ LoopIsFree(r)
  /\ Goto(r, IF files[req[r].sha] = "absent" THEN "replace" ELSE "insert")
  /\ UNCHANGED <<still, blobs, files, uploaded>>

\* Mutant: renamed before its bytes are written out.
UploadReplaceEarly(r) ==
  /\ At(r, "upload", "replace")
  /\ files' = [files EXCEPT ![req[r].sha] = "partial"]
  /\ Goto(r, "insert")
  /\ UNCHANGED <<still, blobs, uploaded>>

\* os.replace: the final path holds the whole content from one step.
UploadReplace(r) ==
  /\ At(r, "upload", "replace")
  /\ files' = [files EXCEPT ![req[r].sha] = "whole"]
  /\ Goto(r, "insert")
  /\ UNCHANGED <<still, blobs, uploaded>>

-----------------------------------------------------------------------------
(* The inline route runs on a thread of the pool and writes straight to    *)
(* the final path: write_bytes truncates, then writes.                     *)

InlineExists(r) ==
  /\ At(r, "inline", "exists")
  /\ Goto(r, IF files[req[r].sha] = "absent" THEN "truncate" ELSE "insert")
  /\ UNCHANGED <<still, blobs, files, uploaded>>

InlineTruncate(r) ==
  /\ At(r, "inline", "truncate")
  /\ files' = [files EXCEPT ![req[r].sha] = "partial"]
  /\ Goto(r, "write")
  /\ UNCHANGED <<still, blobs, uploaded>>

\* Once these bytes are written the file is complete, also when another
\* upload of the same content has truncated it in between.
InlineWrite(r) ==
  /\ At(r, "inline", "write")
  /\ files' = [files EXCEPT ![req[r].sha] = "whole"]
  /\ Goto(r, "insert")
  /\ UNCHANGED <<still, blobs, uploaded>>

-----------------------------------------------------------------------------

Uploading(r, at) == At(r, "upload", at) \/ At(r, "inline", at)

\* Both routes end with the row, whatever has become of the file.
InsertBlob(r) ==
  /\ Uploading(r, "insert")
  /\ BlobId # uploaded
  /\ LET b == Fresh(BlobId, uploaded) IN
       /\ blobs' = Put(blobs, b, [sha |-> req[r].sha, by |-> req[r].by,
                                  attached |-> None])
       /\ uploaded' = uploaded \cup {b}
  /\ Answer(r)
  /\ UNCHANGED <<still, files>>
-----------------------------------------------------------------------------
(* download_attachment and read_attachment: the message, then the blob,    *)
(* then its file.                                                          *)

DownloadBegin(r, c) ==
  /\ \E m \in DOMAIN asked : \E b \in asked[m].want :
       AcceptFrom(c, r, [op |-> "download", at |-> "lookup", by |-> c,
                         msg |-> m, blob |-> b, sha |-> None])
  /\ UNCHANGED <<still, blobs, files, uploaded>>

\* A recalled message is gone for everyone but its sender.
DownloadLookup(r) ==
  /\ At(r, "download", "lookup")
  /\ LET s == req[r]
         open == /\ VisibleTo(s.msg, s.by)
                 /\ ~messages[s.msg].recalled \/ messages[s.msg].from = s.by
     IN (open /\ Goto(r, "blob")) \/ (~open /\ Answer(r))
  /\ UNCHANGED <<still, blobs, files, uploaded>>

DownloadBlob(r) ==
  /\ At(r, "download", "blob")
  /\ LET s == req[r]
         found == s.blob \in AttachedTo(s.msg)
     IN \/ /\ found
           /\ req' = [req EXCEPT ![r].at = "open", ![r].sha = blobs[s.blob].sha]
        \/ ~found /\ Answer(r)
  /\ UNCHANGED <<still, blobs, files, uploaded>>

\* "attachment bytes are gone" if the path does not exist.
DownloadOpen(r) ==
  /\ At(r, "download", "open")
  /\ \/ files[req[r].sha] # "absent" /\ Goto(r, "serve")
     \/ files[req[r].sha] = "absent" /\ Answer(r)
  /\ UNCHANGED <<still, blobs, files, uploaded>>

\* The file is read and sent.
DownloadServe(r) ==
  /\ At(r, "download", "serve")
  /\ Answer(r)
  /\ UNCHANGED <<still, blobs, files, uploaded>>
=============================================================================
