-------------------------------- MODULE Views ---------------------------------
(***************************************************************************)
(* What one chat sees of its mail: the boxes of list_messages, a page at a *)
(* time, and read_message.                                                 *)
(*                                                                         *)
(* The routes that change the mail are single steps here: Instance takes   *)
(* them apart.  The `session` filter, and what an item of a page says      *)
(* besides its id, are left out.                                           *)
(***************************************************************************)
EXTENDS Integers, FiniteSets, Functions

CONSTANTS
  Id,        \* message ids (db.uuid7), ordered as list_messages orders them
  Mine,      \* the messages this chat sends
  ToMe,      \* the messages with a delivery to this chat
  Limit,     \* the `limit` of a page
  None

ASSUME ViewsAssumption ==
  /\ Id \subseteq Nat /\ IsFiniteSet(Id)
  /\ Mine \subseteq Id /\ ToMe \subseteq Id
  /\ Limit \in Nat \ {0}
  /\ None \notin Id

VARIABLES
  mail,      \* message id -> what its row and its delivery say, if there is one
  events,    \* seq -> the message it announces to this chat (message.received)
  lastSeq,   \* the AUTOINCREMENT counter of events.seq
  dropped    \* history: the messages that have been forgotten

views == <<mail, events, lastSeq, dropped>>

Letter == [read: BOOLEAN, archived: BOOLEAN, recalled: BOOLEAN]

There == DOMAIN mail

ViewsInit ==
  /\ mail = [m \in {} |-> None]
  /\ events = [i \in {} |-> None] /\ lastSeq = 0
  /\ dropped = {}

-----------------------------------------------------------------------------
(* What the routes do to the mail.                                         *)

\* A send commits.  An id is drawn before the transaction, at random within
\* its millisecond, from a clock that may be set back: ids come in any order.
Deliver(m) ==
  /\ m \notin There \cup dropped
  /\ mail' = [x \in There \cup {m} |->
                IF x = m THEN [read |-> FALSE, archived |-> FALSE, recalled |-> FALSE]
                         ELSE mail[x]]
  /\ IF m \in ToMe
     THEN /\ lastSeq' = lastSeq + 1
          /\ events' = [i \in DOMAIN events \cup {lastSeq + 1} |->
                          IF i = lastSeq + 1 THEN m ELSE events[i]]
     ELSE UNCHANGED <<events, lastSeq>>
  /\ UNCHANGED dropped

\* Its sender takes it back while nobody has read it.
Recall(m) ==
  /\ m \in There /\ ~mail[m].read /\ ~mail[m].recalled
  /\ mail' = [mail EXCEPT ![m].recalled = TRUE]
  /\ UNCHANGED <<events, lastSeq, dropped>>

\* Cleaning deletes a message and its events.
Forget(m) ==
  /\ m \in There
  /\ mail' = Restrict(mail, There \ {m})
  /\ events' = Restrict(events, {i \in DOMAIN events : events[i] # m})
  /\ dropped' = dropped \cup {m}
  /\ UNCHANGED lastSeq

\* read_message serves a message to its sender and its recipients: 404 to the
\* others, and 410 to a recipient once its sender took it back.
Readable(m) ==
  /\ m \in There /\ m \in Mine \cup ToMe
  /\ mail[m].recalled => m \in Mine

\* read_message, without peek.
ReadIt(m) ==
  mail' = IF Readable(m) /\ m \in ToMe THEN [mail EXCEPT ![m].read = TRUE] ELSE mail

\* archive: a delivery that is archived already is a 404.
ArchiveIt(m) ==
  mail' = IF m \in There \cap ToMe THEN [mail EXCEPT ![m].archived = TRUE] ELSE mail

-----------------------------------------------------------------------------
(* The views.                                                              *)

\* Mutant: the inbox lists what is still unread.
BoxUnread(b) ==
  IF b = "sent" THEN There \cap Mine
  ELSE {m \in There \cap ToMe : /\ mail[m].archived = (b = "archive") /\ ~mail[m].recalled
                                /\ b = "inbox" => ~mail[m].read}

Box(b) ==
  IF b = "sent" THEN There \cap Mine
  ELSE {m \in There \cap ToMe : mail[m].archived = (b = "archive") /\ ~mail[m].recalled}

\* Mutant: the place of the cursor is looked up in the table.
OlderThanRow(m, before) == before = None \/ (before \in There /\ m < before)

\* m.id < before, when there is a cursor.
Older(m, before) == before = None \/ m < before

\* ORDER BY id DESC LIMIT: the newest of those before the cursor.
Page(b, before) ==
  LET rest == {m \in Box(b) : Older(m, before)} IN
    {m \in rest : Cardinality({x \in rest : x > m}) < Limit}

\* A full page comes with the cursor of the next one: the id of its last item.
NextBefore(page) ==
  IF Cardinality(page) = Limit THEN CHOOSE b \in page : \A m \in page : b <= m ELSE None
=============================================================================
