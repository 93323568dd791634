-------------------------------- MODULE Backup --------------------------------
(***************************************************************************)
(* Copies of the database: the nightly timer (backup.py, restore.py        *)
(* --drill, maintenance.py, in this order) and the owner's restore.py      *)
(* --live, as processes beside a running instance.                         *)
(*                                                                         *)
(* The database is in WAL mode (db.connect): a commit goes to the -wal     *)
(* file, and into the main file when SQLite checkpoints.  What a dump or a *)
(* safety copy holds is the set of messages in it; messages stand for      *)
(* every row.  Any script can be cut between two of its steps.             *)
(***************************************************************************)
EXTENDS Integers, FiniteSets, Functions

CONSTANTS
  Msg,       \* message ids
  Keep,      \* --keep: how many dumps a backup leaves
  MaxCopies, \* bound: how many copies are begun in a behaviour
  MaxFiles,  \* bound: how many files ever have the database's name
  None

VARIABLES
  held,      \* the database file the running process has open; None when down
  adrift,    \* what that file holds once it is unlinked under the process; else None
  main,      \* the file named hallmoot.sqlite3, without its -wal
  wal,       \* the -wal file beside it: the database as of its last commit
  files,     \* how many files have had the name so far
  copies,    \* stamp -> a dump or a safety copy
  stamp,     \* the last stamp used
  night,     \* the timer's script: where it is, and the stamp of its dump
  owner,     \* restore.py --live: where it is, the backup and the safety copy
  old,       \* the messages older than the retention window
  sent,      \* history: every message the instance committed
  folded,    \* history: those of them that some checkpoint folded into a file
  forgotten, \* history: every message retention deleted
  ranOn,     \* history: has docker compose stop failed to end the process?
  trusted    \* history: has a backup reported success?

instance == <<held, adrift, main, wal, files>>
history == <<sent, folded, forgotten, ranOn>>
vars == <<held, adrift, main, wal, files, copies, stamp, night, owner, old, sent, folded,
          forgotten, ranOn, trusted>>

\* A database file, and a file cut short has whole = FALSE: it does not open.
Database == [gen: Nat, rows: SUBSET Msg, whole: BOOLEAN]
Log == [gen: Nat, rows: SUBSET Msg]
Copy == [kind: {"dump", "safety"}, rows: SUBSET Msg, whole: BOOLEAN]

ASSUME BackupAssumption ==
  /\ Keep \in Nat \ {0}
  /\ MaxCopies \in Nat /\ MaxFiles \in Nat
  /\ None \notin Nat \cup Database \cup Log
  /\ \A rows \in SUBSET Msg : None # rows

Idle == [at |-> "idle"]
Night ==
  {Idle} \cup [at: {"copy"}, stamp: Nat, source: Database]
         \cup [at: {"prune", "drill", "maintain"}, stamp: Nat]
Owner ==
  {Idle} \cup [at: {"stop", "keep", "keeping", "unlink", "unlink_wal", "copy", "write", "start"},
               from: Nat, to: Nat, rows: SUBSET Msg]

Init ==
  /\ held = 1 /\ adrift = None
  /\ main = [gen |-> 1, rows |-> {}, whole |-> TRUE] /\ wal = None /\ files = 1
  /\ copies = [c \in {} |-> None] /\ stamp = 0
  /\ night = Idle /\ owner = Idle
  /\ old = {} /\ sent = {} /\ folded = {} /\ forgotten = {}
  /\ ranOn = FALSE /\ trusted = FALSE

\* What reading a database file finds: the -wal file is read with it.
Found(file) == IF wal # None THEN wal.rows ELSE file.rows

Rows == IF main = None THEN {} ELSE Found(main)

Readable == main # None /\ main.whole

Add(c) == copies' = [x \in DOMAIN copies \cup {stamp + 1} |->
                       IF x = stamp + 1 THEN c ELSE copies[x]]

Dumps == {c \in DOMAIN copies : copies[c].kind = "dump"}

-----------------------------------------------------------------------------
(* The instance.  Its threads have connections of their own: those made     *)
(* before the file was unlinked under the process stay with that one.      *)

Send(m) ==
  /\ held # None
  /\ \/ Readable /\ wal' = [gen |-> main.gen, rows |-> Rows \cup {m}] /\ UNCHANGED adrift
     \/ adrift # None /\ adrift' = adrift \cup {m} /\ UNCHANGED wal
  /\ sent' = sent \cup {m}
  /\ UNCHANGED <<held, main, files, copies, stamp, night, owner, old, folded, forgotten,
                 ranOn, trusted>>

\* SQLite folds the log into the file, when it has grown or the last
\* connection closes.
Fold ==
  /\ main' = [main EXCEPT !.rows = Rows] /\ wal' = None
  /\ folded' = folded \cup Rows

Checkpoint ==
  /\ held # None /\ wal # None /\ Readable
  /\ Fold
  /\ UNCHANGED <<held, adrift, files, copies, stamp, night, owner, old, sent, forgotten,
                 ranOn, trusted>>

\* _apply_retention, with a window.
ForgetNamed ==
  /\ Readable
  /\ wal' = [gen |-> main.gen, rows |-> Rows \ old]
  /\ forgotten' = forgotten \cup (Rows \cap old)

ForgetAdrift ==
  /\ adrift # None
  /\ adrift' = adrift \ old
  /\ forgotten' = forgotten \cup (adrift \cap old)

\* create_app cleans the database it finds before it serves.
Boot ==
  /\ ForgetNamed
  /\ held' = main.gen /\ adrift' = None
  /\ UNCHANGED <<main, files>>

\* Without a database the process makes one, and SQLite drops a log that
\* belongs to none.
Create ==
  /\ main = None
  /\ main' = [gen |-> files + 1, rows |-> {}, whole |-> TRUE]
  /\ held' = files + 1 /\ files' = files + 1 /\ wal' = None /\ adrift' = None
  /\ UNCHANGED forgotten

\* A file that does not open ends the process.
Refuse ==
  /\ main # None /\ ~main.whole
  /\ held' = None /\ adrift' = None
  /\ UNCHANGED <<main, wal, files, forgotten>>

\* The container is restarted, not between the steps of a restore.
Restart ==
  /\ held # None /\ owner.at \in {"idle", "stop"}
  /\ Boot \/ Create \/ Refuse
  /\ UNCHANGED <<copies, stamp, night, owner, old, sent, folded, ranOn, trusted>>

\* The window is days, the timer's scripts are minutes.
DaysPass ==
  /\ night = Idle
  /\ old' = sent
  /\ UNCHANGED <<instance, copies, stamp, night, owner, history, trusted>>

-----------------------------------------------------------------------------
(* The night: backup.py, restore.py --drill, maintenance.py.               *)

\* Mutant: maintenance runs first.
NightBeginCleaning ==
  /\ night = Idle
  /\ night' = [at |-> "maintain", stamp |-> stamp]
  /\ UNCHANGED <<instance, copies, stamp, owner, old, history, trusted>>

\* The database is opened, and the dump created under its final name.
NightBegin ==
  /\ night = Idle /\ main # None
  /\ Add([kind |-> "dump", rows |-> {}, whole |-> FALSE])
  /\ stamp' = stamp + 1
  /\ night' = [at |-> "copy", stamp |-> stamp + 1, source |-> main]
  /\ UNCHANGED <<instance, owner, old, history, trusted>>

\* src.backup(dst), one consistent read of the file opened, and the check of
\* the result.
NightCopy ==
  /\ night.at = "copy"
  /\ LET file == IF main # None /\ main.gen = night.source.gen THEN main ELSE night.source IN
     IF file.whole
     THEN /\ copies' = [copies EXCEPT ![night.stamp] =
                         [kind |-> "dump", rows |-> Found(file), whole |-> TRUE]]
          /\ night' = [at |-> "prune", stamp |-> night.stamp]
     ELSE night' = Idle /\ UNCHANGED copies
  /\ UNCHANGED <<instance, stamp, owner, old, history, trusted>>

\* Mutant: sorted the other way.
Newer(c) == {d \in Dumps : d < c}

\* Dumps are named by their stamp and sorted by name, newest first; only the
\* first --keep of them stay.
NewerThan(c) == {d \in Dumps : d > c}

Stale == {c \in Dumps : Cardinality(NewerThan(c)) >= Keep}

NightPrune ==
  /\ night.at = "prune"
  /\ copies' = Restrict(copies, DOMAIN copies \ Stale)
  /\ night' = [night EXCEPT !.at = "drill"]
  /\ trusted' = TRUE
  /\ UNCHANGED <<instance, stamp, owner, old, history>>

\* The newest dump boots a throwaway instance on a copy of it, or the night
\* ends here.
NightDrill ==
  /\ night.at = "drill"
  /\ \E c \in Dumps : /\ NewerThan(c) = {}
                      /\ night' = IF copies[c].whole THEN [night EXCEPT !.at = "maintain"] ELSE Idle
  /\ UNCHANGED <<instance, copies, stamp, owner, old, history, trusted>>

\* Retention on demand; an instance that is down is unreachable.
NightMaintain ==
  /\ night.at = "maintain"
  /\ \/ held # None /\ ForgetNamed /\ UNCHANGED adrift
     \/ held # None /\ ForgetAdrift /\ UNCHANGED wal
     \/ held = None /\ UNCHANGED <<adrift, wal, forgotten>>
  /\ night' = Idle
  /\ UNCHANGED <<held, main, files, copies, stamp, owner, old, sent, folded, ranOn, trusted>>

NightDies ==
  /\ night # Idle
  /\ night' = Idle
  /\ UNCHANGED <<instance, copies, stamp, owner, old, history, trusted>>

-----------------------------------------------------------------------------
(* restore.py --live.                                                      *)

OwnerGoto(at) == owner' = [owner EXCEPT !.at = at]

\* inspect: a file that is not a whole database is refused.
RestoreBegin ==
  /\ owner = Idle
  /\ \E c \in DOMAIN copies :
       /\ copies[c].whole
       /\ owner' = [at |-> "stop", from |-> c, to |-> 0, rows |-> {}]
  /\ UNCHANGED <<instance, copies, stamp, night, old, history, trusted>>

\* docker compose stop: within its ten seconds of grace the process closes its
\* connections, the last of which folds the log into the file; or it is killed;
\* or the command fails, which nothing looks at, and the process runs on.
RestoreStop ==
  /\ owner.at = "stop"
  /\ \/ /\ held' = None /\ adrift' = None
        /\ (held # None /\ Readable /\ Fold) \/ UNCHANGED <<main, wal, folded>>
        /\ UNCHANGED ranOn
     \/ /\ held # None /\ ranOn' = TRUE
        /\ UNCHANGED <<held, adrift, main, wal, folded>>
  /\ OwnerGoto("keep")
  /\ UNCHANGED <<files, copies, stamp, night, old, sent, forgotten, trusted>>

\* Mutant: the safety copy has one name, and replaces the one before.
RestoreKeepOver ==
  /\ owner.at = "keep"
  /\ IF main # None
     THEN /\ copies' = [x \in Dumps \cup {stamp + 1} |->
                          IF x = stamp + 1
                          THEN [kind |-> "safety", rows |-> {}, whole |-> FALSE]
                          ELSE copies[x]]
          /\ stamp' = stamp + 1
          /\ owner' = [owner EXCEPT !.at = "keeping", !.to = stamp + 1]
     ELSE OwnerGoto("unlink") /\ UNCHANGED <<copies, stamp>>
  /\ UNCHANGED <<instance, night, old, history, trusted>>

\* The current database is copied, its main file that is, under a dated name:
\* shutil.copy2 creates the copy, and then fills it.
RestoreKeep ==
  /\ owner.at = "keep"
  /\ IF main # None
     THEN /\ Add([kind |-> "safety", rows |-> {}, whole |-> FALSE])
          /\ stamp' = stamp + 1
          /\ owner' = [owner EXCEPT !.at = "keeping", !.to = stamp + 1]
     ELSE OwnerGoto("unlink") /\ UNCHANGED <<copies, stamp>>
  /\ UNCHANGED <<instance, night, old, history, trusted>>

\* A process that runs on may write to the file while it is read.
RestoreKept ==
  /\ owner.at = "keeping"
  /\ \E whole \in {main.whole} \cup {x \in {FALSE} : held # None} :
       copies' = [copies EXCEPT ![owner.to] =
                   [kind |-> "safety", rows |-> main.rows, whole |-> whole]]
  /\ OwnerGoto("unlink")
  /\ UNCHANGED <<instance, stamp, night, old, history, trusted>>

\* A process that runs on, and a backup that has opened the file, keep it.
RestoreUnlink ==
  /\ owner.at = "unlink"
  /\ main' = None
  /\ adrift' = IF held # None /\ adrift = None THEN Rows ELSE adrift
  /\ night' = IF night.at = "copy" /\ main # None /\ main.gen = night.source.gen
              THEN [night EXCEPT !.source = main] ELSE night
  /\ OwnerGoto("unlink_wal")
  /\ UNCHANGED <<held, wal, files, copies, stamp, old, history, trusted>>

\* Mutant: only the database itself is removed.
RestoreUnlinkNoWal ==
  /\ owner.at = "unlink_wal"
  /\ OwnerGoto("copy")
  /\ UNCHANGED <<instance, copies, stamp, night, old, history, trusted>>

RestoreUnlinkWal ==
  /\ owner.at = "unlink_wal"
  /\ wal' = None
  /\ OwnerGoto("copy")
  /\ UNCHANGED <<held, adrift, main, files, copies, stamp, night, old, history, trusted>>

\* shutil.copy2 opens the backup, then the new file.  A backup that has been
\* pruned since it was inspected ends the script here.
RestoreCopy ==
  /\ owner.at = "copy"
  /\ IF owner.from \in DOMAIN copies
     THEN /\ main' = [gen |-> files + 1, rows |-> {}, whole |-> FALSE]
          /\ files' = files + 1
          /\ owner' = [owner EXCEPT !.at = "write", !.rows = copies[owner.from].rows]
     ELSE owner' = Idle /\ UNCHANGED <<main, files>>
  /\ UNCHANGED <<held, adrift, wal, copies, stamp, night, old, history, trusted>>

RestoreWrite ==
  /\ owner.at = "write"
  /\ main' = [main EXCEPT !.rows = owner.rows, !.whole = TRUE]
  /\ OwnerGoto("start")
  /\ UNCHANGED <<held, adrift, wal, files, copies, stamp, night, old, history, trusted>>

\* docker compose start, whose result nothing looks at either; it does nothing
\* to a process that runs.
RestoreStart ==
  /\ owner.at = "start"
  /\ (held = None /\ Boot) \/ UNCHANGED <<instance, forgotten>>
  /\ owner' = Idle
  /\ UNCHANGED <<copies, stamp, night, old, sent, folded, ranOn, trusted>>

RestoreDies ==
  /\ owner # Idle
  /\ owner' = Idle
  /\ UNCHANGED <<instance, copies, stamp, night, old, history, trusted>>

\* After a restore that was cut, the owner starts the container.
StartAgain ==
  /\ owner = Idle /\ held = None
  /\ Boot \/ Create
  /\ UNCHANGED <<copies, stamp, night, owner, old, sent, folded, ranOn, trusted>>

-----------------------------------------------------------------------------
Nightly ==
  \/ NightBegin /\ stamp < MaxCopies
  \/ NightCopy \/ NightPrune \/ NightDrill \/ NightMaintain \/ NightDies

Restoring ==
  \/ RestoreBegin /\ files < MaxFiles /\ stamp < MaxCopies
  \/ RestoreStop \/ RestoreKeep \/ RestoreKept \/ RestoreUnlink \/ RestoreUnlinkWal
  \/ RestoreCopy \/ RestoreWrite \/ RestoreStart \/ RestoreDies

Next ==
  \/ \E m \in Msg \ sent : Send(m)
  \/ Checkpoint \/ Restart \/ DaysPass
  \/ Nightly \/ Restoring \/ StartAgain

Spec == Init /\ [][Next]_vars

-----------------------------------------------------------------------------
(* Properties.                                                             *)

TypeOK ==
  /\ held \in Nat \cup {None} /\ adrift \in {None} \cup SUBSET Msg /\ files \in Nat
  /\ main \in Database \cup {None} /\ wal \in Log \cup {None}
  /\ DOMAIN copies \subseteq 1 .. stamp /\ copies \in [DOMAIN copies -> Copy]
  /\ stamp \in Nat /\ night \in Night /\ owner \in Owner
  /\ old \subseteq Msg /\ sent \subseteq Msg /\ folded \subseteq Msg /\ forgotten \subseteq Msg
  /\ ranOn \in BOOLEAN /\ trusted \in BOOLEAN

\* What the owner still has: in the database, or in a file that opens.
Copied == UNION {copies[c].rows : c \in {x \in DOMAIN copies : copies[x].whole}}

\* Restoring deletes nothing, wherever it is cut and whatever the timer prunes
\* meanwhile: a message that was committed and not forgotten by retention is
\* in the database or in a copy that opens, or the process still has it.
NothingDeleted ==
  sent \ forgotten \subseteq Rows \cup Copied \cup (IF adrift # None THEN adrift ELSE {})

\* As far as the code keeps that: where docker compose stop ends the process,
\* it is so for what a checkpoint had folded into the file.  What only a log
\* held can be lost with it, and a process that runs on can leave a safety copy
\* that does not open.
FoldedIsKept == ~ranOn => folded \ forgotten \subseteq Rows \cup Copied

\* The running process, the file under the database's name and the log beside
\* it are of one and the same database, and that file is whole.  Only a process
\* that outlived docker compose stop is on another one, the unlinked one, and
\* only until it is restarted.
OneDatabase ==
  /\ held # None /\ adrift = None => Readable /\ main.gen = held
  /\ adrift # None => held # None /\ ranOn
  /\ wal # None /\ main # None => wal.gen = main.gen

\* Once a backup has reported success there is a dump to restore, whatever
\* later backups leave half done.
LastGoodKept == trusted => \E c \in Dumps : copies[c].whole

\* "We keep a copy of what we are about to delete": the timer's maintenance
\* forgets only what a copy that opens holds, unless the process is on an
\* unlinked database.
CopiedBeforeForgotten ==
  [][night.at = "maintain" /\ night' = Idle /\ adrift = None
       => Rows \cap (forgotten' \ forgotten) \subseteq Copied]_vars
=============================================================================
