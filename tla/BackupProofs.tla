----------------------------- MODULE BackupProofs -----------------------------
(***************************************************************************)
(* Theorems about Backup: what holds wherever a script is cut, for any     *)
(* number of messages, copies, nights and restores.                        *)
(***************************************************************************)
EXTENDS Backup, FiniteSetTheorems, TLAPS

USE BackupAssumption

-----------------------------------------------------------------------------
(* The inductive invariant.                                                *)

\* What a restore has done so far is still so: nobody starts the instance, and
\* a process that runs on is no longer on the file of that name.
Stage ==
  /\ owner.at \notin {"idle", "stop"} => held = None \/ ranOn
  /\ owner.at = "keeping" => /\ main # None
                             /\ owner.to \in DOMAIN copies
                             /\ copies[owner.to].kind = "safety"
                             /\ ~copies[owner.to].whole
  /\ owner.at \in {"unlink_wal", "copy", "write", "start"} => held = None \/ adrift # None
  /\ owner.at \in {"unlink_wal", "copy"} => main = None
  /\ owner.at \in {"copy", "write"} => wal = None
  /\ owner.at \in {"write", "start"} => main # None
  /\ owner.at = "write" => ~main.whole
  /\ owner.at = "start" => main.whole

\* The safety copies, which nothing deletes.
Safe ==
  UNION {copies[c].rows : c \in {x \in DOMAIN copies : copies[x].kind = "safety" /\ copies[x].whole}}

InFile == IF Readable THEN main.rows ELSE {}

\* The log goes on from the file: only retention takes rows away.
LogGoesOn == main # None /\ wal # None => main.rows \ forgotten \subseteq wal.rows

\* What was folded is in the file or in a safety copy; before the file is
\* removed, it is in a safety copy.
FoldedSafe ==
  ~ranOn => /\ folded \ forgotten \subseteq InFile \cup Safe
            /\ owner.at = "unlink" => InFile \subseteq Safe

\* The night's dump is there, and it is the newest.
Newest ==
  night # Idle => /\ night.stamp \in Dumps
                  /\ \A c \in Dumps : c <= night.stamp

\* The process is on the file under the database's name.
OnNamed == held # None /\ adrift = None

\* Once it is made it opens, and has every row that retention may delete.  A
\* night that has opened a file that is gone finds them deleted: the process
\* has started since.
Dumped ==
  /\ night.at \in {"prune", "drill", "maintain"} =>
       /\ copies[night.stamp].whole
       /\ OnNamed => Rows \cap old \subseteq copies[night.stamp].rows
  /\ night.at = "copy" /\ OnNamed /\ main.gen # night.source.gen => Rows \cap old = {}

Inv ==
  /\ TypeOK /\ OneDatabase /\ Stage /\ LogGoesOn /\ FoldedSafe /\ Newest /\ Dumped
  /\ LastGoodKept /\ old \subseteq sent

-----------------------------------------------------------------------------
(* What the copies are for.                                                *)

\* A new copy leaves the others as they are.
LEMMA AddCopy ==
  ASSUME TypeOK, NEW c \in Copy, Add(c), stamp' = stamp + 1
  PROVE  /\ DOMAIN copies' = DOMAIN copies \cup {stamp + 1}
         /\ stamp + 1 \notin DOMAIN copies
         /\ DOMAIN copies' \subseteq 1 .. stamp'
         /\ copies' \in [DOMAIN copies' -> Copy]
         /\ copies'[stamp + 1] = c
         /\ \A x \in DOMAIN copies : copies'[x] = copies[x]
BY DEF TypeOK, Add

\* The newest dump is never stale.
LEMMA NewestStays ==
  ASSUME Newest, TypeOK, night # Idle
  PROVE  night.stamp \notin Stale
<1>1. NewerThan(night.stamp) = {}
  BY DEF Newest, NewerThan, Dumps, TypeOK, Night
<1>2. Cardinality(NewerThan(night.stamp)) = 0
  BY <1>1, FS_EmptySet
<1> QED BY <1>2 DEF Stale

\* Pruning looks at dumps only.
LEMMA StaleAreDumps == Stale \subseteq Dumps
BY DEF Stale

\* A new file is a database, whole or not.
LEMMA NewFile ==
  ASSUME NEW g \in Nat, NEW w \in BOOLEAN
  PROVE  /\ [gen |-> g, rows |-> {}, whole |-> w] \in Database
         /\ [gen |-> g, rows |-> {}, whole |-> w] # None
<1>1. [gen |-> g, rows |-> {}, whole |-> w] \in Database
  BY DEF Database
<1> QED BY <1>1

\* A dump is begun.
LEMMA Begun ==
  ASSUME Inv, NightBegin
  PROVE  /\ DOMAIN copies' \subseteq 1 .. stamp' /\ copies' \in [DOMAIN copies' -> Copy]
         /\ \A x \in DOMAIN copies : x \in DOMAIN copies' /\ copies'[x] = copies[x]
         /\ Dumps' = Dumps \cup {stamp + 1} /\ Safe' = Safe
<1>1. /\ DOMAIN copies' = DOMAIN copies \cup {stamp + 1}
      /\ stamp + 1 \notin DOMAIN copies
      /\ DOMAIN copies' \subseteq 1 .. stamp'
      /\ copies' \in [DOMAIN copies' -> Copy]
      /\ copies'[stamp + 1] = [kind |-> "dump", rows |-> {}, whole |-> FALSE]
      /\ \A x \in DOMAIN copies : copies'[x] = copies[x]
  BY AddCopy DEF NightBegin, Inv, Copy
<1>2. copies'[stamp + 1].kind = "dump"
  BY <1>1
<1>3. Dumps' = Dumps \cup {stamp + 1}
  BY <1>1, <1>2 DEF Dumps
<1>4. Safe' = Safe
  BY <1>1, <1>2 DEF Safe
<1> QED BY <1>1, <1>3, <1>4

\* What the night reads: the file it opened.
Opened == IF main # None /\ main.gen = night.source.gen THEN main ELSE night.source

LEMMA OpenedFile ==
  ASSUME Inv, NightCopy
  PROVE  /\ Opened \in Database /\ night \in [at: {"copy"}, stamp: Nat, source: Database]
         /\ Found(Opened) \subseteq Msg
         /\ OnNamed => Rows \cap old \subseteq Found(Opened)
<1>1. night \in [at: {"copy"}, stamp: Nat, source: Database]
  BY DEF NightCopy, Inv, TypeOK, Night, Idle
<1>2. Opened \in Database
  BY <1>1 DEF Opened, Inv, TypeOK
<1>3. Found(Opened) \subseteq Msg
  BY <1>2 DEF Found, Database, Log, Inv, TypeOK
<1>4. ASSUME OnNamed PROVE Rows \cap old \subseteq Found(Opened)
  <2>1. CASE main.gen = night.source.gen
    BY <2>1, <1>4 DEF Inv, OneDatabase, Readable, OnNamed, Opened, Rows
  <2>2. CASE main.gen # night.source.gen
    BY <2>2, <1>4 DEF Inv, Dumped, NightCopy
  <2> QED BY <2>1, <2>2
<1> QED BY <1>1, <1>2, <1>3, <1>4

\* A dump is made, or was not possible.
LEMMA Made ==
  ASSUME Inv, NightCopy
  PROVE  /\ DOMAIN copies' = DOMAIN copies /\ copies' \in [DOMAIN copies -> Copy]
         /\ Dumps' = Dumps /\ Safe' = Safe
         /\ \A c \in DOMAIN copies : copies[c].whole => copies'[c].whole
         /\ \A c \in DOMAIN copies : copies[c].kind = "safety" => copies'[c] = copies[c]
         /\ \/ night' = Idle
            \/ /\ night' = [at |-> "prune", stamp |-> night.stamp]
               /\ copies'[night.stamp].whole
               /\ copies'[night.stamp].rows = Found(Opened)
<1> DEFINE dump == [kind |-> "dump", rows |-> Found(Opened), whole |-> TRUE]
<1>1. night.stamp \in DOMAIN copies /\ copies[night.stamp].kind = "dump"
  BY DEF Inv, Newest, Dumps, NightCopy, Idle
<1>2. dump \in Copy
  BY OpenedFile DEF Copy
<1>3. CASE Opened.whole
  <2>1. copies' = [copies EXCEPT ![night.stamp] = dump]
    BY <1>3 DEF NightCopy, Opened
  <2>2. /\ DOMAIN copies' = DOMAIN copies /\ copies' \in [DOMAIN copies -> Copy]
        /\ copies'[night.stamp] = dump
        /\ \A c \in DOMAIN copies \ {night.stamp} : copies'[c] = copies[c]
    BY <1>1, <1>2, <2>1 DEF Inv, TypeOK
  <2>3. /\ copies'[night.stamp].kind = "dump" /\ copies'[night.stamp].whole
        /\ copies'[night.stamp].rows = Found(Opened)
    BY <2>2
  <2>4. Dumps' = Dumps
    BY <1>1, <2>2, <2>3 DEF Dumps
  <2>5. Safe' = Safe
    BY <1>1, <2>2, <2>3 DEF Safe
  <2>6. night' = [at |-> "prune", stamp |-> night.stamp]
    BY <1>3 DEF NightCopy, Opened
  <2> HIDE DEF dump
  <2> QED BY <1>1, <2>2, <2>3, <2>4, <2>5, <2>6
<1>4. CASE ~Opened.whole
  BY <1>4 DEF NightCopy, Opened, Inv, TypeOK, Dumps, Safe
<1> QED BY <1>3, <1>4

\* Only dumps are pruned, and not the newest.
LEMMA Pruned ==
  ASSUME Inv, NightPrune
  PROVE  /\ DOMAIN copies' \subseteq DOMAIN copies /\ copies' \in [DOMAIN copies' -> Copy]
         /\ Dumps' \subseteq Dumps /\ Safe' = Safe
         /\ night.stamp \in Dumps' /\ copies'[night.stamp] = copies[night.stamp]
<1>1. DOMAIN copies' = DOMAIN copies \ Stale
  BY DEF NightPrune, Restrict
<1>2. \A x \in DOMAIN copies' : copies'[x] = copies[x]
  BY DEF NightPrune, Restrict
<1>3. copies' = [x \in DOMAIN copies' |-> copies'[x]]
  BY DEF NightPrune, Restrict
<1>4. copies' \in [DOMAIN copies' -> Copy]
  BY <1>1, <1>2, <1>3 DEF Inv, TypeOK
<1>5. night.stamp \in Dumps \ Stale
  BY NewestStays DEF Inv, Newest, NightPrune, Idle
<1>6. Dumps' \subseteq Dumps /\ night.stamp \in Dumps'
  BY <1>1, <1>2, <1>5 DEF Dumps
<1>7. Safe' = Safe
  <2>1. {x \in DOMAIN copies : copies[x].kind = "safety"} \cap Stale = {}
    BY StaleAreDumps DEF Dumps
  <2> QED BY <1>1, <1>2, <2>1 DEF Safe
<1> QED BY <1>1, <1>2, <1>4, <1>5, <1>6, <1>7 DEF Dumps

\* A safety copy is begun, if there is a file.
LEMMA KeepBegun ==
  ASSUME Inv, RestoreKeep
  PROVE  /\ stamp' \in Nat /\ stamp <= stamp'
         /\ DOMAIN copies' \subseteq 1 .. stamp' /\ copies' \in [DOMAIN copies' -> Copy]
         /\ \A x \in DOMAIN copies : x \in DOMAIN copies' /\ copies'[x] = copies[x]
         /\ Dumps' = Dumps /\ Safe' = Safe
         /\ main # None => /\ stamp' \in DOMAIN copies' /\ copies'[stamp'].kind = "safety"
                           /\ ~copies'[stamp'].whole /\ stamp' = stamp + 1
<1>1. CASE main # None
  <2> DEFINE safety == [kind |-> "safety", rows |-> {}, whole |-> FALSE]
  <2>1. safety \in Copy
    BY DEF Copy
  <2>2. Add(safety) /\ stamp' = stamp + 1
    BY <1>1 DEF RestoreKeep
  <2> HIDE DEF safety
  <2>3. /\ DOMAIN copies' = DOMAIN copies \cup {stamp + 1} /\ stamp + 1 \notin DOMAIN copies
        /\ DOMAIN copies' \subseteq 1 .. stamp' /\ copies' \in [DOMAIN copies' -> Copy]
        /\ copies'[stamp + 1] = safety
        /\ \A x \in DOMAIN copies : copies'[x] = copies[x]
    BY <2>1, <2>2, AddCopy DEF Inv
  <2>4. safety.kind = "safety" /\ ~safety.whole
    BY DEF safety
  <2>5. Dumps' = Dumps
    BY <2>3, <2>4 DEF Dumps
  <2>6. Safe' = Safe
    BY <2>3, <2>4 DEF Safe
  <2> QED BY <2>2, <2>3, <2>4, <2>5, <2>6 DEF Inv, TypeOK
<1>2. CASE main = None
  BY <1>2 DEF RestoreKeep, Inv, TypeOK, Dumps, Safe
<1> QED BY <1>1, <1>2

\* It is filled; where the process is gone, with what the file holds.
LEMMA Kept ==
  ASSUME Inv, RestoreKept
  PROVE  /\ DOMAIN copies' = DOMAIN copies /\ copies' \in [DOMAIN copies -> Copy]
         /\ \A x \in Dumps : copies'[x] = copies[x]
         /\ Dumps' = Dumps /\ Safe \subseteq Safe'
         /\ held = None => InFile \subseteq Safe'
<1>1. /\ owner.to \in DOMAIN copies /\ copies[owner.to].kind = "safety"
      /\ ~copies[owner.to].whole /\ main \in Database
  BY DEF RestoreKept, Inv, Stage, TypeOK
<1>2. PICK whole \in {main.whole} \cup {x \in {FALSE} : held # None} :
        copies' = [copies EXCEPT ![owner.to] =
                    [kind |-> "safety", rows |-> main.rows, whole |-> whole]]
  BY DEF RestoreKept
<1> DEFINE safety == [kind |-> "safety", rows |-> main.rows, whole |-> whole]
<1>3. safety \in Copy
  BY <1>1 DEF Copy, Database
<1>4. /\ DOMAIN copies' = DOMAIN copies /\ copies' \in [DOMAIN copies -> Copy]
      /\ copies'[owner.to] = safety
      /\ \A c \in DOMAIN copies \ {owner.to} : copies'[c] = copies[c]
  BY <1>1, <1>2, <1>3 DEF Inv, TypeOK
<1>5. safety.kind = "safety" /\ safety.rows = main.rows /\ safety.whole = whole
  OBVIOUS
<1> HIDE DEF safety
<1>6. Dumps' = Dumps /\ \A x \in Dumps : copies'[x] = copies[x]
  BY <1>1, <1>4, <1>5 DEF Dumps
<1>7. Safe \subseteq Safe'
  BY <1>1, <1>4, <1>5 DEF Safe
<1>8. ASSUME held = None PROVE InFile \subseteq Safe'
  BY <1>1, <1>2, <1>4, <1>5, <1>8 DEF Safe, InFile, Readable
<1> QED BY <1>4, <1>6, <1>7, <1>8

-----------------------------------------------------------------------------
(* The instance.                                                           *)

\* A commit adds a row that is not old.
LEMMA SendKeeps ==
  ASSUME Inv, NEW m \in Msg \ sent, Send(m)
  PROVE  Inv'
<1>1. TypeOK'
  BY DEF Inv, TypeOK, Rows, Found, Database, Log, Copy, Night, Owner, Idle, Dumps, Readable,
      OneDatabase, Stage, Send
<1>2. OneDatabase'
  BY DEF Inv, TypeOK, OneDatabase, Stage, Readable, Rows, Found, Database, Log, Owner, Night,
      Idle,
      Send
<1>3. Stage'
  BY DEF Inv, TypeOK, OneDatabase, Stage, Readable, Database, Log, Owner, Idle, Send
<1>4. LogGoesOn'
  BY DEF Inv, TypeOK, OneDatabase, Stage, LogGoesOn, Readable, Rows, Found, Database, Log,
      Owner,
      Idle, Send
<1>5. FoldedSafe'
  BY DEF Inv, TypeOK, OneDatabase, Stage, LogGoesOn, FoldedSafe, InFile, Safe, Readable, Rows,
      Database, Log, Owner, Idle, Send
<1>6. Newest'
  BY DEF Inv, TypeOK, Newest, Dumps, Night, Idle, Send
<1>7. Dumped'
  BY DEF Inv, TypeOK, OneDatabase, Stage, Newest, Dumped, Dumps, Rows, Found, OnNamed,
      Readable, Night, Owner,
      Idle, Database, Log, Send
<1>8. LastGoodKept'
  BY DEF Inv, TypeOK, LastGoodKept, Dumps, Newest, Dumped, Send
<1>9. (old \subseteq sent)'
  BY DEF Inv, TypeOK, Send
<1> QED BY <1>1, <1>2, <1>3, <1>4, <1>5, <1>6, <1>7, <1>8, <1>9 DEF Inv

\* Folding takes nothing away.
LEMMA Folded ==
  ASSUME Inv, Readable, Fold
  PROVE  /\ main' \in Database /\ main' # None /\ main'.gen = main.gen /\ main'.whole
         /\ main'.rows = Rows /\ InFile' = Rows /\ InFile \ forgotten \subseteq Rows
<1>1. main \in Database /\ Rows \subseteq Msg
  BY DEF Inv, TypeOK, Readable, Rows, Found, Database, Log
<1>2. /\ main' \in Database /\ main'.gen = main.gen /\ main'.whole = main.whole
      /\ main'.rows = Rows
  BY <1>1 DEF Fold, Database
<1>3. main' # None
  BY <1>2
<1>4. InFile' = Rows
  BY <1>2, <1>3 DEF InFile, Readable
<1>5. InFile \ forgotten \subseteq Rows
  BY DEF Inv, LogGoesOn, InFile, Rows, Found, Readable
<1> QED BY <1>2, <1>3, <1>4, <1>5 DEF Readable

\* What was in the log is in the file now.
LEMMA CheckpointKeeps ==
  ASSUME Inv, Checkpoint
  PROVE  Inv'
<1>1. TypeOK'
  BY DEF Inv, TypeOK, Rows, Found, Database, Log, Copy, Night, Owner, Idle, Dumps, Readable,
      OneDatabase, Stage, Checkpoint, Fold
<1>2. OneDatabase'
  BY DEF Inv, TypeOK, OneDatabase, Stage, Readable, Rows, Found, Database, Log, Owner, Night,
      Idle,
      Checkpoint, Fold
<1>3. Stage'
  BY Folded DEF Inv, Stage, Checkpoint, Readable
<1>4. LogGoesOn'
  BY DEF Inv, TypeOK, OneDatabase, Stage, LogGoesOn, Readable, Rows, Found, Database, Log,
      Owner,
      Idle, Checkpoint, Fold
<1>5. FoldedSafe'
  <2>1. /\ folded' = folded \cup Rows /\ Safe' = Safe
        /\ UNCHANGED <<forgotten, ranOn, owner, held>> /\ held # None
    BY DEF Checkpoint, Fold, Safe
  <2>2. owner.at = "unlink" => ranOn
    BY <2>1 DEF Inv, Stage
  <2> QED BY <2>1, <2>2, Folded DEF Inv, FoldedSafe, Checkpoint
<1>6. Newest'
  BY DEF Inv, TypeOK, Newest, Dumps, Night, Idle, Checkpoint, Fold
<1>7. Dumped'
  BY DEF Inv, TypeOK, OneDatabase, Stage, Newest, Dumped, Dumps, Rows, Found, OnNamed,
      Readable, Night, Owner,
      Idle, Database, Log, Checkpoint, Fold
<1>8. LastGoodKept'
  BY DEF Inv, TypeOK, LastGoodKept, Dumps, Newest, Dumped, Checkpoint, Fold
<1>9. (old \subseteq sent)'
  BY DEF Inv, TypeOK, Checkpoint, Fold
<1> QED BY <1>1, <1>2, <1>3, <1>4, <1>5, <1>6, <1>7, <1>8, <1>9 DEF Inv

\* The process opens the file it finds, and forgets what is old.
LEMMA BootKeeps ==
  ASSUME Inv, Boot, UNCHANGED <<copies, stamp, night, old, sent, folded, ranOn, trusted>>,
         owner' = Idle \/ (owner' = owner /\ owner.at \in {"idle", "stop"})
  PROVE  Inv'
<1>1. TypeOK'
  BY DEF Inv, TypeOK, Rows, Found, Database, Log, Copy, Night, Owner, Idle, Dumps, Readable,
      OneDatabase, Stage, Boot, ForgetNamed
<1>2. OneDatabase'
  BY DEF Inv, TypeOK, OneDatabase, Stage, Readable, Rows, Found, Database, Log, Owner, Night,
      Idle, Boot, ForgetNamed
<1>3. Stage'
  <2>1. owner'.at \in {"idle", "stop"}
    BY DEF Idle
  <2> QED BY <2>1 DEF Stage
<1>4. LogGoesOn'
  BY DEF Inv, TypeOK, OneDatabase, Stage, LogGoesOn, Readable, Rows, Found, Database, Log,
      Owner,
      Idle, Boot, ForgetNamed
<1>5. FoldedSafe'
  <2>1. owner'.at # "unlink"
    BY DEF Idle
  <2>2. InFile' = InFile /\ Safe' = Safe /\ forgotten \subseteq forgotten'
    BY DEF InFile, Readable, Safe, Boot, ForgetNamed
  <2> QED BY <2>1, <2>2 DEF Inv, FoldedSafe
<1>6. Newest'
  BY DEF Inv, TypeOK, Newest, Dumps, Night, Idle, Boot, ForgetNamed
<1>7. Dumped'
  BY DEF Inv, TypeOK, OneDatabase, Stage, Newest, Dumped, Dumps, Rows, Found, OnNamed,
      Readable, Night, Owner,
      Idle, Database, Log, Boot, ForgetNamed
<1>8. LastGoodKept'
  BY DEF Inv, TypeOK, LastGoodKept, Dumps, Newest, Dumped, Boot, ForgetNamed
<1>9. (old \subseteq sent)'
  BY DEF Inv, TypeOK, Boot, ForgetNamed
<1> QED BY <1>1, <1>2, <1>3, <1>4, <1>5, <1>6, <1>7, <1>8, <1>9 DEF Inv

\* Where there is none, it makes one.
LEMMA CreateKeeps ==
  ASSUME Inv, Create, UNCHANGED <<copies, stamp, night, owner, old, sent, folded, ranOn, trusted>>,
         owner.at \in {"idle", "stop"}
  PROVE  Inv'
<1>1. /\ main = None
      /\ main' = [gen |-> files + 1, rows |-> {}, whole |-> TRUE]
      /\ held' = files + 1 /\ files' = files + 1 /\ wal' = None /\ adrift' = None
      /\ UNCHANGED <<copies, stamp, night, owner, old, history, trusted>>
  BY DEF Create, history
<1>2. main' \in Database /\ main' # None /\ files' \in Nat /\ held' # None
  <2>1. files + 1 \in Nat
    BY DEF Inv, TypeOK
  <2>2. /\ [gen |-> files + 1, rows |-> {}, whole |-> TRUE] \in Database
        /\ [gen |-> files + 1, rows |-> {}, whole |-> TRUE] # None
    BY <2>1, NewFile, Zenon
  <2> QED BY <1>1, <2>1, <2>2
<1>3. TypeOK'
  BY <1>1, <1>2 DEF Inv, TypeOK, history
<1>4. OneDatabase' /\ Stage' /\ LogGoesOn'
  BY <1>1, <1>2 DEF Inv, OneDatabase, Readable, Stage, LogGoesOn
<1>5. FoldedSafe'
  BY <1>1, <1>2 DEF Inv, FoldedSafe, InFile, Readable, Safe, history
<1>6. Newest' /\ LastGoodKept' /\ (old \subseteq sent)'
  BY <1>1 DEF Inv, Newest, LastGoodKept, Dumps, history
<1>7. Dumped'
  BY <1>1, <1>2 DEF Inv, Dumped, OnNamed, Rows, Found
<1> QED BY <1>3, <1>4, <1>5, <1>6, <1>7 DEF Inv

\* Half a file ends the process.
LEMMA RefuseKeeps ==
  ASSUME Inv, Refuse, UNCHANGED <<copies, stamp, night, owner, old, sent, folded, ranOn, trusted>>
  PROVE  Inv'
<1>1. TypeOK' /\ OneDatabase' /\ Stage' /\ LogGoesOn'
  BY DEF Inv, TypeOK, OneDatabase, Readable, Stage, LogGoesOn, Refuse
<1>2. FoldedSafe' /\ Newest' /\ LastGoodKept' /\ (old \subseteq sent)'
  BY DEF Inv, FoldedSafe, InFile, Readable, Safe, Newest, LastGoodKept, Dumps, Refuse
<1>3. Dumped'
  BY DEF Inv, Dumped, OnNamed, Refuse
<1> QED BY <1>1, <1>2, <1>3 DEF Inv

\* The process is another one, on what it found, or there is none.
LEMMA RestartKeeps ==
  ASSUME Inv, Restart
  PROVE  Inv'
<1>1. CASE Boot
  BY <1>1, BootKeeps DEF Restart
<1>2. CASE Create
  BY <1>2, CreateKeeps DEF Restart
<1>3. CASE Refuse
  BY <1>3, RefuseKeeps DEF Restart
<1> QED BY <1>1, <1>2, <1>3 DEF Restart

\* Rows age between two nights only.
LEMMA DaysPassKeeps ==
  ASSUME Inv, DaysPass
  PROVE  Inv'
<1>1. TypeOK'
  BY DEF Inv, TypeOK, Rows, Found, Database, Log, Copy, Night, Owner, Idle, Dumps, Readable,
      OneDatabase, Stage, DaysPass, instance, history
<1>2. OneDatabase'
  BY DEF Inv, TypeOK, OneDatabase, Stage, Readable, Rows, Found, Database, Log, Owner, Night,
      Idle,
      DaysPass, instance, history
<1>3. Stage'
  BY DEF Inv, TypeOK, OneDatabase, Stage, Readable, Database, Log, Owner, Idle, DaysPass,
      instance, history
<1>4. LogGoesOn'
  BY DEF Inv, TypeOK, OneDatabase, Stage, LogGoesOn, Readable, Rows, Found, Database, Log,
      Owner,
      Idle, DaysPass, instance, history
<1>5. FoldedSafe'
  BY DEF Inv, TypeOK, OneDatabase, Stage, LogGoesOn, FoldedSafe, InFile, Safe, Readable, Rows,
      Database, Log, Owner, Idle, DaysPass, instance, history
<1>6. Newest'
  BY DEF Inv, TypeOK, Newest, Dumps, Night, Idle, DaysPass, instance, history
<1>7. Dumped'
  BY DEF Inv, TypeOK, OneDatabase, Stage, Newest, Dumped, Dumps, Rows, Found, OnNamed,
      Readable, Night, Owner,
      Idle, Database, Log, DaysPass, instance, history
<1>8. LastGoodKept'
  BY DEF Inv, TypeOK, LastGoodKept, Dumps, Newest, Dumped, DaysPass, instance, history
<1>9. (old \subseteq sent)'
  BY DEF Inv, TypeOK, DaysPass, instance, history
<1> QED BY <1>1, <1>2, <1>3, <1>4, <1>5, <1>6, <1>7, <1>8, <1>9 DEF Inv

-----------------------------------------------------------------------------
(* The night.                                                              *)

\* The new dump is the newest.
LEMMA NightBeginKeeps ==
  ASSUME Inv, NightBegin
  PROVE  Inv'
<1>1. TypeOK'
  BY Begun DEF Inv, TypeOK, Night, NightBegin, instance, history
<1>2. OneDatabase'
  BY DEF Inv, TypeOK, OneDatabase, Stage, Readable, Rows, Found, Database, Log, Owner, Night,
      Idle,
      NightBegin, instance, history
<1>3. Stage'
  BY Begun DEF Inv, Stage, NightBegin, instance, history
<1>4. LogGoesOn'
  BY DEF Inv, TypeOK, OneDatabase, Stage, LogGoesOn, Readable, Rows, Found, Database, Log,
      Owner,
      Idle, NightBegin, instance, history
<1>5. FoldedSafe'
  BY Begun DEF Inv, FoldedSafe, InFile, Readable, NightBegin, instance, history
<1>6. Newest'
  BY Begun DEF Inv, TypeOK, Newest, Dumps, NightBegin
<1>7. Dumped'
  BY DEF Inv, TypeOK, OneDatabase, Stage, Newest, Dumped, Dumps, Rows, Found, OnNamed,
      Readable, Night, Owner,
      Idle, Database, Log, NightBegin, instance, history
<1>8. LastGoodKept'
  BY Begun DEF Inv, LastGoodKept, NightBegin, Dumps
<1>9. (old \subseteq sent)'
  BY DEF Inv, TypeOK, NightBegin, instance, history
<1> QED BY <1>1, <1>2, <1>3, <1>4, <1>5, <1>6, <1>7, <1>8, <1>9 DEF Inv

\* It now holds what the database holds.
LEMMA NightCopyKeeps ==
  ASSUME Inv, NightCopy
  PROVE  Inv'
<1>1. TypeOK'
  BY Made DEF Inv, TypeOK, Night, Idle, NightCopy, instance, history
<1>2. OneDatabase'
  BY DEF Inv, TypeOK, OneDatabase, Stage, Readable, Rows, Found, Database, Log, Owner, Night,
      Idle,
      NightCopy, instance, history
<1>3. Stage'
  BY Made DEF Inv, Stage, NightCopy, instance, history
<1>4. LogGoesOn'
  BY DEF Inv, TypeOK, OneDatabase, Stage, LogGoesOn, Readable, Rows, Found, Database, Log,
      Owner,
      Idle, NightCopy, instance, history
<1>5. FoldedSafe'
  BY Made DEF Inv, FoldedSafe, InFile, Readable, NightCopy, instance, history
<1>6. Newest'
  BY Made DEF Inv, TypeOK, Newest, NightCopy, Night, Idle
<1>7. Dumped'
  <2>1. CASE night' = Idle
    BY <2>1 DEF Dumped, Idle
  <2>2. CASE night' # Idle
    <3>1. /\ night'.at = "prune" /\ night'.stamp = night.stamp
          /\ copies'[night.stamp].whole /\ copies'[night.stamp].rows = Found(Opened)
      BY <2>2, Made
    <3>2. Rows' = Rows /\ OnNamed' = OnNamed /\ old' = old
      BY DEF Rows, Found, OnNamed, NightCopy, instance
    <3> QED BY <3>1, <3>2, OpenedFile DEF Dumped
  <2> QED BY <2>1, <2>2
<1>8. LastGoodKept'
  BY Made DEF Inv, LastGoodKept, NightCopy, Dumps
<1>9. (old \subseteq sent)'
  BY DEF Inv, TypeOK, NightCopy, instance, history
<1> QED BY <1>1, <1>2, <1>3, <1>4, <1>5, <1>6, <1>7, <1>8, <1>9 DEF Inv

\* It is the one that pruning cannot take.
LEMMA NightPruneKeeps ==
  ASSUME Inv, NightPrune
  PROVE  Inv'
<1>1. TypeOK'
  <2>1. night' \in Night
    BY DEF Inv, TypeOK, Night, Idle, NightPrune
  <2>2. DOMAIN copies' \subseteq 1 .. stamp /\ copies' \in [DOMAIN copies' -> Copy]
    BY Pruned DEF Inv, TypeOK
  <2> QED BY <2>1, <2>2 DEF Inv, TypeOK, NightPrune, instance, history
<1>2. OneDatabase'
  BY DEF Inv, TypeOK, OneDatabase, Stage, Readable, Rows, Found, Database, Log, Owner, Night,
      Idle,
      NightPrune, instance, history
<1>3. Stage'
  <2>1. \A c \in DOMAIN copies : copies[c].kind = "safety"
                                => c \in DOMAIN copies' /\ copies'[c] = copies[c]
    BY StaleAreDumps DEF NightPrune, Restrict, Dumps
  <2> QED BY <2>1 DEF Inv, Stage, NightPrune, instance, history
<1>4. LogGoesOn'
  BY DEF Inv, TypeOK, OneDatabase, Stage, LogGoesOn, Readable, Rows, Found, Database, Log,
      Owner,
      Idle, NightPrune, instance, history
<1>5. FoldedSafe'
  BY Pruned DEF Inv, FoldedSafe, InFile, Readable, NightPrune, instance, history
<1>6. Newest'
  BY Pruned DEF Inv, TypeOK, Newest, NightPrune, Night, Idle
<1>7. Dumped'
  <2>1. night.at = "prune" /\ night'.stamp = night.stamp /\ night'.at = "drill"
    BY DEF Inv, TypeOK, Night, Idle, NightPrune
  <2>2. Rows' = Rows /\ OnNamed' = OnNamed /\ old' = old
    BY DEF Rows, Found, OnNamed, NightPrune, instance
  <2> QED BY <2>1, <2>2, Pruned DEF Inv, Dumped
<1>8. LastGoodKept'
  BY Pruned DEF Inv, LastGoodKept, NightPrune, Dumped
<1>9. (old \subseteq sent)'
  BY DEF Inv, TypeOK, NightPrune, instance, history
<1> QED BY <1>1, <1>2, <1>3, <1>4, <1>5, <1>6, <1>7, <1>8, <1>9 DEF Inv

\* The drill changes nothing.
LEMMA NightDrillKeeps ==
  ASSUME Inv, NightDrill
  PROVE  Inv'
<1>1. TypeOK'
  BY DEF Inv, TypeOK, Rows, Found, Database, Log, Copy, Night, Owner, Idle, Dumps, Readable,
      OneDatabase, Stage, NightDrill, instance, history
<1>2. OneDatabase'
  BY DEF Inv, TypeOK, OneDatabase, Stage, Readable, Rows, Found, Database, Log, Owner, Night,
      Idle,
      NightDrill, instance, history
<1>3. Stage'
  BY DEF Inv, TypeOK, OneDatabase, Stage, Readable, Database, Log, Owner, Idle, NightDrill,
      instance, history
<1>4. LogGoesOn'
  BY DEF Inv, TypeOK, OneDatabase, Stage, LogGoesOn, Readable, Rows, Found, Database, Log,
      Owner,
      Idle, NightDrill, instance, history
<1>5. FoldedSafe'
  BY DEF Inv, TypeOK, OneDatabase, Stage, LogGoesOn, FoldedSafe, InFile, Safe, Readable, Rows,
      Database, Log, Owner, Idle, NightDrill, instance, history
<1>6. Newest'
  BY DEF Inv, TypeOK, Newest, Dumps, Night, Idle, NightDrill, instance, history
<1>7. Dumped'
  BY DEF Inv, TypeOK, OneDatabase, Stage, Newest, Dumped, Dumps, Rows, Found, OnNamed,
      Readable, Night, Owner,
      Idle, Database, Log, NightDrill, instance, history
<1>8. LastGoodKept'
  BY DEF Inv, TypeOK, LastGoodKept, Dumps, Newest, Dumped, NightDrill, instance, history
<1>9. (old \subseteq sent)'
  BY DEF Inv, TypeOK, NightDrill, instance, history
<1> QED BY <1>1, <1>2, <1>3, <1>4, <1>5, <1>6, <1>7, <1>8, <1>9 DEF Inv

\* Retention again, on demand.
LEMMA NightMaintainKeeps ==
  ASSUME Inv, NightMaintain
  PROVE  Inv'
<1>1. TypeOK'
  BY DEF Inv, TypeOK, Rows, Found, Database, Log, Copy, Night, Owner, Idle, Dumps, Readable,
      OneDatabase, Stage, NightMaintain, ForgetNamed, ForgetAdrift
<1>2. OneDatabase'
  BY DEF Inv, TypeOK, OneDatabase, Stage, Readable, Rows, Found, Database, Log, Owner, Night,
      Idle,
      NightMaintain, ForgetNamed, ForgetAdrift
<1>3. Stage'
  BY DEF Inv, TypeOK, OneDatabase, Stage, Readable, Database, Log, Owner, Idle, NightMaintain,
      ForgetNamed, ForgetAdrift
<1>4. LogGoesOn'
  BY DEF Inv, TypeOK, OneDatabase, Stage, LogGoesOn, Readable, Rows, Found, Database, Log,
      Owner,
      Idle, NightMaintain, ForgetNamed, ForgetAdrift
<1>5. FoldedSafe'
  BY DEF Inv, TypeOK, OneDatabase, Stage, LogGoesOn, FoldedSafe, InFile, Safe, Readable, Rows,
      Database, Log, Owner, Idle, NightMaintain, ForgetNamed, ForgetAdrift
<1>6. Newest'
  BY DEF Inv, TypeOK, Newest, Dumps, Night, Idle, NightMaintain, ForgetNamed, ForgetAdrift
<1>7. Dumped'
  BY DEF Inv, TypeOK, OneDatabase, Stage, Newest, Dumped, Dumps, Rows, Found, OnNamed,
      Readable, Night, Owner,
      Idle, Database, Log, NightMaintain, ForgetNamed, ForgetAdrift
<1>8. LastGoodKept'
  BY DEF Inv, TypeOK, LastGoodKept, Dumps, Newest, Dumped, NightMaintain, ForgetNamed,
      ForgetAdrift
<1>9. (old \subseteq sent)'
  BY DEF Inv, TypeOK, NightMaintain, ForgetNamed, ForgetAdrift
<1> QED BY <1>1, <1>2, <1>3, <1>4, <1>5, <1>6, <1>7, <1>8, <1>9 DEF Inv

\* A night that is cut leaves what it has made.
LEMMA NightDiesKeeps ==
  ASSUME Inv, NightDies
  PROVE  Inv'
<1>1. TypeOK'
  BY DEF Inv, TypeOK, Rows, Found, Database, Log, Copy, Night, Owner, Idle, Dumps, Readable,
      OneDatabase, Stage, NightDies, instance, history
<1>2. OneDatabase'
  BY DEF Inv, TypeOK, OneDatabase, Stage, Readable, Rows, Found, Database, Log, Owner, Night,
      Idle,
      NightDies, instance, history
<1>3. Stage'
  BY DEF Inv, TypeOK, OneDatabase, Stage, Readable, Database, Log, Owner, Idle, NightDies,
      instance, history
<1>4. LogGoesOn'
  BY DEF Inv, TypeOK, OneDatabase, Stage, LogGoesOn, Readable, Rows, Found, Database, Log,
      Owner,
      Idle, NightDies, instance, history
<1>5. FoldedSafe'
  BY DEF Inv, TypeOK, OneDatabase, Stage, LogGoesOn, FoldedSafe, InFile, Safe, Readable, Rows,
      Database, Log, Owner, Idle, NightDies, instance, history
<1>6. Newest'
  BY DEF Inv, TypeOK, Newest, Dumps, Night, Idle, NightDies, instance, history
<1>7. Dumped'
  BY DEF Inv, TypeOK, OneDatabase, Stage, Newest, Dumped, Dumps, Rows, Found, OnNamed,
      Readable, Night, Owner,
      Idle, Database, Log, NightDies, instance, history
<1>8. LastGoodKept'
  BY DEF Inv, TypeOK, LastGoodKept, Dumps, Newest, Dumped, NightDies, instance, history
<1>9. (old \subseteq sent)'
  BY DEF Inv, TypeOK, NightDies, instance, history
<1> QED BY <1>1, <1>2, <1>3, <1>4, <1>5, <1>6, <1>7, <1>8, <1>9 DEF Inv

-----------------------------------------------------------------------------
(* Restoring.                                                              *)

\* Nothing is touched yet.
LEMMA RestoreBeginKeeps ==
  ASSUME Inv, RestoreBegin
  PROVE  Inv'
<1>1. TypeOK'
  BY DEF Inv, TypeOK, Rows, Found, Database, Log, Copy, Night, Owner, Idle, Dumps, Readable,
      OneDatabase, Stage, RestoreBegin, instance, history
<1>2. OneDatabase'
  BY DEF Inv, TypeOK, OneDatabase, Stage, Readable, Rows, Found, Database, Log, Owner, Night,
      Idle,
      RestoreBegin, instance, history
<1>3. Stage'
  BY DEF Inv, TypeOK, OneDatabase, Stage, Readable, Database, Log, Owner, Idle, RestoreBegin,
      instance, history
<1>4. LogGoesOn'
  BY DEF Inv, TypeOK, OneDatabase, Stage, LogGoesOn, Readable, Rows, Found, Database, Log,
      Owner,
      Idle, RestoreBegin, instance, history
<1>5. FoldedSafe'
  BY DEF Inv, TypeOK, OneDatabase, Stage, LogGoesOn, FoldedSafe, InFile, Safe, Readable, Rows,
      Database, Log, Owner, Idle, RestoreBegin, instance, history
<1>6. Newest'
  BY DEF Inv, TypeOK, Newest, Dumps, Night, Idle, RestoreBegin, instance, history
<1>7. Dumped'
  BY DEF Inv, TypeOK, OneDatabase, Stage, Newest, Dumped, Dumps, Rows, Found, OnNamed,
      Readable, Night, Owner,
      Idle, Database, Log, RestoreBegin, instance, history
<1>8. LastGoodKept'
  BY DEF Inv, TypeOK, LastGoodKept, Dumps, Newest, Dumped, RestoreBegin, instance, history
<1>9. (old \subseteq sent)'
  BY DEF Inv, TypeOK, RestoreBegin, instance, history
<1> QED BY <1>1, <1>2, <1>3, <1>4, <1>5, <1>6, <1>7, <1>8, <1>9 DEF Inv

\* The process is gone, its log folded or not.
LEMMA RestoreStopKeeps ==
  ASSUME Inv, RestoreStop
  PROVE  Inv'
<1>0. owner \in Owner \ {Idle} /\ owner' \in Owner /\ owner'.at = "keep"
  BY DEF RestoreStop, OwnerGoto, Inv, TypeOK, Idle, Owner
<1>1. TypeOK'
  <2>1. main' \in Database \cup {None} /\ wal' \in Log \cup {None} /\ folded' \subseteq Msg
    BY DEF Inv, TypeOK, RestoreStop, Fold, Rows, Found, Readable, Database, Log
  <2>2. held' \in Nat \cup {None} /\ adrift' \in {None} \cup SUBSET Msg /\ ranOn' \in BOOLEAN
    BY DEF Inv, TypeOK, RestoreStop
  <2> QED BY <1>0, <2>1, <2>2 DEF Inv, TypeOK, RestoreStop
<1>2. OneDatabase'
  BY DEF Inv, TypeOK, OneDatabase, Stage, Readable, Rows, Found, Database, Log, Owner, Night,
      Idle,
      RestoreStop, Fold, OwnerGoto
<1>3. Stage'
  BY DEF Inv, TypeOK, OneDatabase, Stage, Readable, Database, Log, Owner, Idle, RestoreStop,
      Fold, OwnerGoto
<1>4. LogGoesOn'
  BY DEF Inv, TypeOK, OneDatabase, Stage, LogGoesOn, Readable, Rows, Found, Database, Log,
      Owner,
      Idle, RestoreStop, Fold, OwnerGoto
<1>5. FoldedSafe'
  <2>1. CASE ranOn'
    BY <2>1 DEF FoldedSafe
  <2>2. CASE UNCHANGED <<main, wal, folded>> /\ ~ranOn'
    BY <1>0, <2>2 DEF Inv, TypeOK, FoldedSafe, RestoreStop, InFile, Readable, Safe
  <2>3. CASE Readable /\ Fold /\ ~ranOn'
    <3>1. /\ folded' = folded \cup Rows /\ Safe' = Safe /\ forgotten' = forgotten
          /\ ~ranOn /\ owner'.at = "keep"
      BY <1>0, <2>3 DEF Fold, RestoreStop, Safe, Inv, TypeOK
    <3> QED BY <2>3, <3>1, Folded DEF Inv, FoldedSafe
  <2> QED BY <2>1, <2>2, <2>3 DEF Inv, TypeOK, RestoreStop
<1>6. Newest'
  BY DEF Inv, TypeOK, Newest, Dumps, Night, Idle, RestoreStop, Fold, OwnerGoto
<1>7. Dumped'
  BY DEF Inv, TypeOK, OneDatabase, Stage, Newest, Dumped, Dumps, Rows, Found, OnNamed,
      Readable, Night, Owner,
      Idle, Database, Log, RestoreStop, Fold, OwnerGoto
<1>8. LastGoodKept'
  BY DEF Inv, TypeOK, LastGoodKept, Dumps, Newest, Dumped, RestoreStop, Fold, OwnerGoto
<1>9. (old \subseteq sent)'
  BY DEF Inv, TypeOK, RestoreStop, Fold, OwnerGoto
<1> QED BY <1>1, <1>2, <1>3, <1>4, <1>5, <1>6, <1>7, <1>8, <1>9 DEF Inv

\* The safety copy is no database yet.
LEMMA RestoreKeepKeeps ==
  ASSUME Inv, RestoreKeep
  PROVE  Inv'
<1>0. owner \in Owner \ {Idle}
  BY DEF RestoreKeep, Inv, TypeOK, Idle
<1>1. TypeOK'
  <2>1. owner' \in Owner
    BY <1>0, KeepBegun DEF Owner, RestoreKeep, OwnerGoto, Inv, TypeOK
  <2> QED BY <2>1, KeepBegun DEF Inv, TypeOK, RestoreKeep, instance, history
<1>2. OneDatabase'
  BY DEF Inv, OneDatabase, Readable, RestoreKeep, instance, history
<1>3. Stage'
  <2>1. CASE main # None
    <3>1. owner' = [owner EXCEPT !.at = "keeping", !.to = stamp']
      BY <2>1, KeepBegun DEF RestoreKeep
    <3>2. owner'.at = "keeping" /\ owner'.to = stamp'
      BY <1>0, <3>1 DEF Owner
    <3>3. held' = held /\ ranOn' = ranOn /\ main' = main
      BY DEF RestoreKeep, instance, history
    <3> QED BY <2>1, <3>2, <3>3, KeepBegun DEF Inv, Stage, RestoreKeep
  <2>2. CASE main = None
    <3>1. owner'.at = "unlink"
      BY <1>0, <2>2 DEF RestoreKeep, OwnerGoto, Owner
    <3> QED BY <3>1 DEF Inv, Stage, RestoreKeep, instance, history
  <2> QED BY <2>1, <2>2
<1>4. LogGoesOn'
  BY DEF Inv, LogGoesOn, RestoreKeep, instance, history
<1>5. FoldedSafe'
  <2>1. owner'.at = "unlink" => main = None
    BY <1>0 DEF RestoreKeep, Owner
  <2> QED BY <2>1, KeepBegun DEF Inv, FoldedSafe, InFile, Readable, RestoreKeep, instance,
      history
<1>6. Newest'
  BY KeepBegun DEF Inv, TypeOK, Newest, RestoreKeep
<1>7. Dumped'
  BY KeepBegun DEF Inv, Newest, Dumped, OnNamed, Dumps, Night, Idle, TypeOK, Rows, Found,
      RestoreKeep, instance, history
<1>8. LastGoodKept'
  BY KeepBegun DEF Inv, LastGoodKept, RestoreKeep, Dumps
<1>9. (old \subseteq sent)'
  BY DEF Inv, TypeOK, RestoreKeep, instance, history
<1> QED BY <1>1, <1>2, <1>3, <1>4, <1>5, <1>6, <1>7, <1>8, <1>9 DEF Inv

\* What the file holds is in it, unless a process runs on.
LEMMA RestoreKeptKeeps ==
  ASSUME Inv, RestoreKept
  PROVE  Inv'
<1>0. owner \in Owner \ {Idle} /\ owner' \in Owner /\ owner'.at = "unlink"
  BY DEF RestoreKept, OwnerGoto, Inv, TypeOK, Idle, Owner
<1>1. TypeOK'
  BY <1>0, Kept DEF Inv, TypeOK, RestoreKept, instance, history
<1>2. OneDatabase'
  BY DEF Inv, OneDatabase, Readable, RestoreKept, instance, history
<1>3. Stage'
  BY <1>0 DEF Inv, Stage, RestoreKept, instance, history
<1>4. LogGoesOn'
  BY DEF Inv, LogGoesOn, RestoreKept, instance, history
<1>5. FoldedSafe'
  <2>1. ~ranOn => held = None
    BY DEF RestoreKept, Inv, Stage
  <2> QED BY <2>1, Kept DEF Inv, FoldedSafe, InFile, Readable, RestoreKept, instance, history
<1>6. Newest'
  BY Kept DEF Inv, Newest, RestoreKept
<1>7. Dumped'
  <2>1. Rows' = Rows /\ OnNamed' = OnNamed /\ UNCHANGED <<night, old, main>>
    BY DEF Rows, Found, OnNamed, RestoreKept, instance
  <2>2. night # Idle => night.stamp \in Dumps /\ copies'[night.stamp] = copies[night.stamp]
    BY Kept DEF Inv, Newest
  <2> QED BY <2>1, <2>2 DEF Inv, Dumped, Idle
<1>8. LastGoodKept'
  BY Kept DEF Inv, LastGoodKept, RestoreKept
<1>9. (old \subseteq sent)'
  BY DEF Inv, TypeOK, RestoreKept, instance, history
<1> QED BY <1>1, <1>2, <1>3, <1>4, <1>5, <1>6, <1>7, <1>8, <1>9 DEF Inv

\* So the file can go,
LEMMA RestoreUnlinkKeeps ==
  ASSUME Inv, RestoreUnlink
  PROVE  Inv'
<1>0. owner \in Owner \ {Idle} /\ owner' \in Owner /\ owner'.at = "unlink_wal"
  BY DEF RestoreUnlink, OwnerGoto, Inv, TypeOK, Idle, Owner
<1>a. Rows \subseteq Msg
  BY DEF Inv, TypeOK, Rows, Found, Database, Log
<1>b. night' \in Night /\ night'.at = night.at /\ (night # Idle => night' # Idle /\ night'.stamp = night.stamp)
  <2>1. CASE night.at = "copy"
    <3>1. night \in [at: {"copy"}, stamp: Nat, source: Database]
      BY <2>1 DEF Inv, TypeOK, Night, Idle
    <3> QED BY <2>1, <3>1 DEF RestoreUnlink, Inv, TypeOK, Night, Idle
  <2>2. CASE night.at # "copy"
    BY <2>2 DEF RestoreUnlink, Inv, TypeOK
  <2> QED BY <2>1, <2>2
<1>c. held' = None \/ adrift' # None
  BY <1>a DEF RestoreUnlink
<1>1. TypeOK'
  BY <1>0, <1>a, <1>b DEF Inv, TypeOK, RestoreUnlink, history
<1>2. OneDatabase'
  BY DEF Inv, TypeOK, OneDatabase, Stage, Readable, Rows, Found, Database, Log, Owner, Night,
      Idle,
      RestoreUnlink, OwnerGoto, history
<1>3. Stage'
  BY <1>0, <1>c DEF Inv, Stage, RestoreUnlink, history
<1>4. LogGoesOn'
  BY DEF Inv, TypeOK, OneDatabase, Stage, LogGoesOn, Readable, Rows, Found, Database, Log,
      Owner,
      Idle, RestoreUnlink, OwnerGoto, history
<1>5. FoldedSafe'
  BY DEF Inv, TypeOK, OneDatabase, Stage, LogGoesOn, FoldedSafe, InFile, Safe, Readable, Rows,
      Database, Log, Owner, Idle, RestoreUnlink, OwnerGoto, history
<1>6. Newest'
  BY <1>b DEF Inv, Newest, Dumps, RestoreUnlink, Idle
<1>7. Dumped'
  BY <1>b, <1>c DEF Inv, Dumped, OnNamed, RestoreUnlink, Idle
<1>8. LastGoodKept'
  BY DEF Inv, TypeOK, LastGoodKept, Dumps, Newest, Dumped, RestoreUnlink, OwnerGoto, history
<1>9. (old \subseteq sent)'
  BY DEF Inv, TypeOK, RestoreUnlink, OwnerGoto, history
<1> QED BY <1>1, <1>2, <1>3, <1>4, <1>5, <1>6, <1>7, <1>8, <1>9 DEF Inv

\* and its log, which no file is left for.
LEMMA RestoreUnlinkWalKeeps ==
  ASSUME Inv, RestoreUnlinkWal
  PROVE  Inv'
<1>0. owner \in Owner \ {Idle} /\ owner' \in Owner /\ owner'.at = "copy"
  BY DEF RestoreUnlinkWal, OwnerGoto, Inv, TypeOK, Idle, Owner
<1>1. TypeOK'
  BY <1>0 DEF Inv, TypeOK, RestoreUnlinkWal, history
<1>2. OneDatabase'
  BY DEF Inv, TypeOK, OneDatabase, Stage, Readable, Rows, Found, Database, Log, Owner, Night,
      Idle,
      RestoreUnlinkWal, OwnerGoto, history
<1>3. Stage'
  BY <1>0 DEF Inv, Stage, RestoreUnlinkWal, history
<1>4. LogGoesOn'
  BY DEF Inv, TypeOK, OneDatabase, Stage, LogGoesOn, Readable, Rows, Found, Database, Log,
      Owner,
      Idle, RestoreUnlinkWal, OwnerGoto, history
<1>5. FoldedSafe'
  BY DEF Inv, TypeOK, OneDatabase, Stage, LogGoesOn, FoldedSafe, InFile, Safe, Readable, Rows,
      Database, Log, Owner, Idle, RestoreUnlinkWal, OwnerGoto, history
<1>6. Newest'
  BY DEF Inv, TypeOK, Newest, Dumps, Night, Idle, RestoreUnlinkWal, OwnerGoto, history
<1>7. Dumped'
  <2>1. ~OnNamed
    BY DEF RestoreUnlinkWal, OnNamed, Inv, Stage
  <2> QED BY <2>1 DEF Inv, Dumped, OnNamed, RestoreUnlinkWal
<1>8. LastGoodKept'
  BY DEF Inv, TypeOK, LastGoodKept, Dumps, Newest, Dumped, RestoreUnlinkWal, OwnerGoto, history
<1>9. (old \subseteq sent)'
  BY DEF Inv, TypeOK, RestoreUnlinkWal, OwnerGoto, history
<1> QED BY <1>1, <1>2, <1>3, <1>4, <1>5, <1>6, <1>7, <1>8, <1>9 DEF Inv

\* The new file is nobody's yet, or the backup is gone.
LEMMA RestoreCopyKeeps ==
  ASSUME Inv, RestoreCopy
  PROVE  Inv'
<1>1. CASE owner.from \in DOMAIN copies
  <2>1. copies[owner.from].rows \subseteq Msg
    BY <1>1 DEF Inv, TypeOK, Copy
  <2>2. /\ main' = [gen |-> files + 1, rows |-> {}, whole |-> FALSE] /\ main' # None
        /\ files' = files + 1
    <3>1. files + 1 \in Nat
      BY DEF Inv, TypeOK
    <3>2. [gen |-> files + 1, rows |-> {}, whole |-> FALSE] # None
      BY <3>1, NewFile, Zenon
    <3> QED BY <1>1, <3>2 DEF RestoreCopy
  <2>0. owner \in Owner \ {Idle}
    BY DEF RestoreCopy, Inv, TypeOK, Idle
  <2>3. owner' \in Owner /\ owner'.at = "write"
    BY <1>1, <2>0, <2>1 DEF RestoreCopy, Owner
  <2>4. /\ main = None /\ wal = None /\ (held = None \/ adrift # None)
        /\ (held = None \/ ranOn)
    BY DEF RestoreCopy, Inv, Stage
  <2>5. TypeOK'
    BY <2>2, <2>3 DEF RestoreCopy, Inv, TypeOK, Database, history
  <2>6. OneDatabase' /\ Stage' /\ LogGoesOn'
    BY <2>2, <2>3, <2>4 DEF RestoreCopy, Inv, OneDatabase, Stage, LogGoesOn, history
  <2>7. FoldedSafe'
    BY <2>2, <2>3, <2>4 DEF RestoreCopy, Inv, FoldedSafe, InFile, Safe, Readable, history
  <2>8. Newest' /\ Dumped' /\ LastGoodKept' /\ (old \subseteq sent)'
    BY <2>4 DEF RestoreCopy, Inv, Newest, Dumped, OnNamed, LastGoodKept, Dumps, history
  <2> QED BY <2>5, <2>6, <2>7, <2>8 DEF Inv
<1>2. CASE owner.from \notin DOMAIN copies
  <2>1. owner' = Idle /\ UNCHANGED <<instance, copies, stamp, night, old, history, trusted>>
    BY <1>2 DEF RestoreCopy, instance
  <2>2. TypeOK' /\ OneDatabase' /\ Stage' /\ LogGoesOn'
    BY <2>1 DEF Inv, TypeOK, Owner, OneDatabase, Readable, Stage, LogGoesOn, Idle, instance,
        history
  <2>3. FoldedSafe'
    BY <2>1 DEF Inv, FoldedSafe, InFile, Readable, Safe, Idle, instance, history
  <2>4. Newest' /\ Dumped' /\ LastGoodKept' /\ (old \subseteq sent)'
    BY <2>1 DEF Inv, Newest, Dumped, OnNamed, Rows, Found, LastGoodKept, Dumps, instance,
        history
  <2> QED BY <2>2, <2>3, <2>4 DEF Inv
<1> QED BY <1>1, <1>2

\* The new file is whole; there is no log beside it.
LEMMA RestoreWriteKeeps ==
  ASSUME Inv, RestoreWrite
  PROVE  Inv'
<1>1. /\ owner # Idle /\ main \in Database /\ wal = None /\ (held = None \/ adrift # None)
      /\ (held = None \/ ranOn)
  BY DEF RestoreWrite, Inv, TypeOK, Stage, Idle
<1>2. owner \in Owner /\ owner.rows \subseteq Msg
  BY <1>1 DEF Inv, TypeOK, Owner
<1>3. main' \in Database /\ main' # None /\ main'.whole
  BY <1>1, <1>2 DEF RestoreWrite, Database
<1>4. owner' \in Owner /\ owner'.at = "start"
  BY <1>1, <1>2 DEF RestoreWrite, OwnerGoto, Owner, Idle
<1>5. TypeOK'
  BY <1>3, <1>4 DEF RestoreWrite, Inv, TypeOK, history
<1>6. OneDatabase' /\ Stage' /\ LogGoesOn'
  BY <1>1, <1>3, <1>4 DEF RestoreWrite, Inv, OneDatabase, Stage, LogGoesOn, history
<1>7. FoldedSafe'
  <2>1. InFile \subseteq InFile'
    BY DEF InFile, Readable, RestoreWrite, Inv, Stage
  <2> QED BY <2>1, <1>4 DEF RestoreWrite, Inv, FoldedSafe, Safe, history
<1>8. Newest' /\ Dumped' /\ LastGoodKept' /\ (old \subseteq sent)'
  BY <1>1 DEF RestoreWrite, Inv, Newest, Dumped, OnNamed, LastGoodKept, Dumps, history
<1> QED BY <1>5, <1>6, <1>7, <1>8 DEF Inv

\* A restore that is cut leaves what it has done.
LEMMA RestoreDiesKeeps ==
  ASSUME Inv, RestoreDies
  PROVE  Inv'
<1>1. TypeOK'
  BY DEF Inv, TypeOK, Rows, Found, Database, Log, Copy, Night, Owner, Idle, Dumps, Readable,
      OneDatabase, Stage, RestoreDies, instance, history
<1>2. OneDatabase'
  BY DEF Inv, TypeOK, OneDatabase, Stage, Readable, Rows, Found, Database, Log, Owner, Night,
      Idle,
      RestoreDies, instance, history
<1>3. Stage'
  BY DEF Inv, TypeOK, OneDatabase, Stage, Readable, Database, Log, Owner, Idle, RestoreDies,
      instance, history
<1>4. LogGoesOn'
  BY DEF Inv, TypeOK, OneDatabase, Stage, LogGoesOn, Readable, Rows, Found, Database, Log,
      Owner,
      Idle, RestoreDies, instance, history
<1>5. FoldedSafe'
  BY DEF Inv, TypeOK, OneDatabase, Stage, LogGoesOn, FoldedSafe, InFile, Safe, Readable, Rows,
      Database, Log, Owner, Idle, RestoreDies, instance, history
<1>6. Newest'
  BY DEF Inv, TypeOK, Newest, Dumps, Night, Idle, RestoreDies, instance, history
<1>7. Dumped'
  BY DEF Inv, TypeOK, OneDatabase, Stage, Newest, Dumped, Dumps, Rows, Found, OnNamed,
      Readable, Night, Owner,
      Idle, Database, Log, RestoreDies, instance, history
<1>8. LastGoodKept'
  BY DEF Inv, TypeOK, LastGoodKept, Dumps, Newest, Dumped, RestoreDies, instance, history
<1>9. (old \subseteq sent)'
  BY DEF Inv, TypeOK, RestoreDies, instance, history
<1> QED BY <1>1, <1>2, <1>3, <1>4, <1>5, <1>6, <1>7, <1>8, <1>9 DEF Inv

\* The command does nothing, or starts the process.
LEMMA RestoreStartKeeps ==
  ASSUME Inv, RestoreStart
  PROVE  Inv'
<1>1. CASE Boot
  BY <1>1, BootKeeps DEF RestoreStart
<1>2. CASE UNCHANGED <<instance, forgotten>>
  <2>1. /\ owner' = Idle
        /\ UNCHANGED <<instance, copies, stamp, night, old, history, trusted>>
    BY <1>2 DEF RestoreStart, history
  <2>2. TypeOK' /\ OneDatabase' /\ Stage' /\ LogGoesOn'
    BY <2>1 DEF Inv, TypeOK, Owner, OneDatabase, Readable, Stage, LogGoesOn, Idle, instance,
        history
  <2>3. FoldedSafe'
    BY <2>1 DEF Inv, FoldedSafe, InFile, Readable, Safe, Idle, instance, history
  <2>4. Newest' /\ Dumped' /\ LastGoodKept' /\ (old \subseteq sent)'
    BY <2>1 DEF Inv, Newest, Dumped, OnNamed, Rows, Found, LastGoodKept, Dumps, instance,
        history
  <2> QED BY <2>2, <2>3, <2>4 DEF Inv
<1> QED BY <1>1, <1>2 DEF RestoreStart

\* The owner starts what there is, or an empty database.
LEMMA StartAgainKeeps ==
  ASSUME Inv, StartAgain
  PROVE  Inv'
<1>1. CASE Boot
  BY <1>1, BootKeeps DEF StartAgain, Idle
<1>2. CASE Create
  BY <1>2, CreateKeeps DEF StartAgain, Idle
<1> QED BY <1>1, <1>2 DEF StartAgain

-----------------------------------------------------------------------------
(* The theorems.                                                           *)

\* A fresh instance.
LEMMA BackupInit == Init => Inv
<1> SUFFICES ASSUME Init PROVE Inv
  OBVIOUS
<1>1. main \in Database /\ main # None /\ main.gen = 1 /\ main.rows = {} /\ main.whole
  <2>1. main = [gen |-> 1, rows |-> {}, whole |-> TRUE]
    BY DEF Init
  <2>2. /\ [gen |-> 1, rows |-> {}, whole |-> TRUE] \in Database
        /\ [gen |-> 1, rows |-> {}, whole |-> TRUE] # None
    BY NewFile, Zenon, 1 \in Nat
  <2> QED BY <2>1, <2>2
<1>2. DOMAIN copies = {} /\ copies \in [DOMAIN copies -> Copy]
  BY DEF Init
<1>3. TypeOK
  BY <1>1, <1>2 DEF Init, TypeOK, Night, Owner
<1>4. OneDatabase /\ Stage /\ LogGoesOn
  BY <1>1 DEF Init, OneDatabase, Readable, Stage, LogGoesOn, Idle
<1>5. FoldedSafe /\ Newest /\ Dumped /\ LastGoodKept /\ old \subseteq sent
  BY DEF Init, FoldedSafe, Newest, Dumped, LastGoodKept, Idle
<1> QED BY <1>3, <1>4, <1>5 DEF Inv

\* The invariant holds wherever a script is cut.
THEOREM BackupInvariant == Spec => []Inv
<1>1. Inv /\ [Next]_vars => Inv'
  <2> SUFFICES ASSUME Inv, [Next]_vars PROVE Inv'
    OBVIOUS
  <2>1. CASE \E m \in Msg \ sent : Send(m)
    BY <2>1, SendKeeps
  <2>2. CASE Checkpoint \/ Restart \/ DaysPass
    BY <2>2, CheckpointKeeps, RestartKeeps, DaysPassKeeps
  <2>3. CASE Nightly
    BY <2>3, NightBeginKeeps, NightCopyKeeps, NightPruneKeeps, NightDrillKeeps,
       NightMaintainKeeps, NightDiesKeeps DEF Nightly
  <2>4. CASE RestoreStart
    BY <2>4, RestoreStartKeeps
  <2>5. CASE Restoring /\ ~RestoreStart
    BY <2>5, RestoreBeginKeeps, RestoreStopKeeps, RestoreKeepKeeps, RestoreKeptKeeps,
       RestoreUnlinkKeeps, RestoreUnlinkWalKeeps, RestoreCopyKeeps, RestoreWriteKeeps,
       RestoreDiesKeeps
       DEF Restoring
  <2>6. CASE StartAgain
    BY <2>6, StartAgainKeeps
  <2>7. CASE UNCHANGED vars
    <3>1. UNCHANGED <<instance, copies, stamp, night, owner, old, history, trusted>>
      BY <2>7 DEF vars, instance, history
    <3>2. TypeOK' /\ OneDatabase' /\ Stage' /\ LogGoesOn'
      BY <3>1 DEF Inv, TypeOK, OneDatabase, Readable, Stage, LogGoesOn, instance, history
    <3>3. FoldedSafe' /\ Newest' /\ Dumped' /\ LastGoodKept' /\ (old \subseteq sent)'
      BY <3>1 DEF Inv, FoldedSafe, InFile, Safe, Readable, Newest, Dumps, Dumped, Rows,
                  Found, OnNamed, LastGoodKept, instance, history
    <3> QED BY <3>2, <3>3 DEF Inv
  <2> QED BY <2>1, <2>2, <2>3, <2>4, <2>5, <2>6, <2>7 DEF Next
<1> QED BY BackupInit, <1>1, PTL DEF Spec

\* What a checkpoint has folded into the database's file is never lost to a
\* restore, cut or not, and beside the timer.
THEOREM RestoreKeepsWhatIsFolded == Spec => []FoldedIsKept
<1>1. Inv => FoldedIsKept
  <2> SUFFICES ASSUME Inv, ~ranOn PROVE folded \ forgotten \subseteq Rows \cup Copied
    BY DEF FoldedIsKept
  <2>1. InFile \ forgotten \subseteq Rows
    BY DEF Inv, LogGoesOn, InFile, Readable, Rows, Found
  <2>2. Safe \subseteq Copied
    BY DEF Safe, Copied
  <2> QED BY <2>1, <2>2 DEF Inv, FoldedSafe
<1> QED BY <1>1, BackupInvariant, PTL

\* The process, the file and the log beside it are of one database, and the
\* process never runs on half a file.
THEOREM NeverTwoDatabases == Spec => []OneDatabase
<1>1. Inv => OneDatabase
  BY DEF Inv
<1> QED BY <1>1, BackupInvariant, PTL

\* A backup that has succeeded is there until another one has.
THEOREM ADumpIsKept == Spec => []LastGoodKept
<1>1. Inv => LastGoodKept
  BY DEF Inv
<1> QED BY <1>1, BackupInvariant, PTL

\* The timer's maintenance deletes nothing that the night's dump has not.
THEOREM MaintenanceFollowsTheCopy == Spec => CopiedBeforeForgotten
<1>1. Inv /\ [Next]_vars
        => [night.at = "maintain" /\ night' = Idle /\ adrift = None
              => Rows \cap (forgotten' \ forgotten) \subseteq Copied]_vars
  <2> SUFFICES ASSUME Inv, [Next]_vars, night.at = "maintain", night' = Idle, adrift = None
               PROVE  Rows \cap (forgotten' \ forgotten) \subseteq Copied
    OBVIOUS
  <2>1. night # Idle
    BY DEF Idle
  <2>2. CASE NightMaintain /\ held # None
    <3>1. forgotten' = forgotten \cup (Rows \cap old)
      BY <2>2 DEF NightMaintain, ForgetNamed, ForgetAdrift
    <3>2. Rows \cap old \subseteq copies[night.stamp].rows
      BY <2>2 DEF Inv, Dumped, OnNamed
    <3>3. night.stamp \in DOMAIN copies /\ copies[night.stamp].whole
      BY <2>1 DEF Inv, Newest, Dumped, Dumps
    <3> QED BY <3>1, <3>2, <3>3 DEF Copied
  <2>3. CASE forgotten' = forgotten
    BY <2>3
  <2>4. night' # night
    BY <2>1
  <2>5. (NightMaintain /\ held # None) \/ forgotten' = forgotten
    <3>1. ~RestoreUnlink
      BY <2>4 DEF RestoreUnlink, Idle
    <3> QED
      BY <2>4, <3>1 DEF Next, Send, Checkpoint, Restart, DaysPass, Nightly, NightBegin,
          NightCopy, NightPrune, NightDrill, NightMaintain, NightDies, Restoring, RestoreBegin,
          RestoreStop, RestoreKeep, RestoreKept, RestoreUnlinkWal, RestoreCopy, RestoreWrite,
          RestoreStart, RestoreDies, StartAgain, history, vars
  <2> QED BY <2>2, <2>3, <2>5
<1> QED BY <1>1, BackupInvariant, PTL DEF Spec, CopiedBeforeForgotten
=============================================================================
