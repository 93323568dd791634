------------------------------- MODULE Clients --------------------------------
(***************************************************************************)
(* Clients of one chat's mail, each a loop of calls that can fail:         *)
(*   - a walker lists its mail page by page, following next_before;        *)
(*   - an assistant behind the MCP stdio adapter lists the first page      *)
(*     (inbox_list has no cursor), reads what it finds and archives it;    *)
(*   - scripts/watch.py follows the events and reads what they announce;   *)
(*   - another conversation of the chat reads and archives meanwhile.      *)
(***************************************************************************)
EXTENDS Views

CONSTANTS
  Together,  \* the sets of clients that run in one behaviour
  PageSize,  \* LIMIT 100 of the events
  MaxLost,   \* bound: how many calls of the adapter fail on the way
  MaxDies    \* bound: how often watch.py dies of the network

Client == {"walker", "other", "assistant", "watcher"}

ASSUME ClientsAssumption ==
  /\ Together \subseteq SUBSET Client
  /\ PageSize \in Nat \ {0}
  /\ MaxLost \in Nat /\ MaxDies \in Nat

VARIABLES
  using,     \* the clients of this behaviour
  walk,      \* the walker: what it lists, the box it is in, and its cursor
  listed,    \* what it has been given: <<box, message id>> pairs
  twice,     \* history: what it was given twice for one box
  stay,      \* history: what has been in the boxes it lists since it began
  call,      \* the assistant's tool call in the adapter, or none
  todo,      \* the messages of its last page it has not handled yet
  shown,     \* history: the messages it has been given the body of
  late,      \* calls the adapter gave up on that may still reach a handler
  lost,      \* how many it gave up on
  watch,     \* watch.py: is it running, its cursor, what is left of its page
  logged,    \* the messages in its log
  died       \* how often the network killed it

walker == <<walk, listed, twice>>
assistant == <<call, todo, shown, late, lost>>
watcher == <<watch, logged, died>>
vars == <<views, using, walker, stay, assistant, watcher>>

NoCall == [tool |-> "none", msg |-> None]
List == [tool |-> "inbox_list", msg |-> None]
Call == [tool: {"message_read", "archive"}, msg: Id]

Started == [alive |-> TRUE, cursor |-> 0, page |-> {}]

Init ==
  /\ ViewsInit
  /\ using \in Together
  /\ walk = [kind |-> "none", box |-> "inbox", before |-> None]
  /\ listed = {} /\ twice = {} /\ stay = {}
  /\ call = NoCall /\ todo = {} /\ shown = {} /\ late = {} /\ lost = 0
  /\ watch = Started /\ logged = {} /\ died = 0

-----------------------------------------------------------------------------
(* The walker: all the mail it was sent, the inbox first, or all it sent.  *)

Covered(kind) == IF kind = "sent" THEN Box("sent") ELSE Box("inbox") \cup Box("archive")

BoxAfter(b) == IF b = "inbox" THEN "archive" ELSE "end"

WalkBegin ==
  /\ walk.kind = "none"
  /\ \/ walk' = [walk EXCEPT !.kind = "mail", !.box = "inbox"]
     \/ walk' = [walk EXCEPT !.kind = "sent", !.box = "sent"]
  /\ UNCHANGED <<listed, twice>>

\* One GET, and the next one starts from its next_before.
WalkPage ==
  /\ walk.kind # "none" /\ walk.box # "end"
  /\ LET page == Page(walk.box, walk.before)
         next == NextBefore(page)
     IN /\ listed' = listed \cup ({walk.box} \X page)
        /\ twice' = twice \cup {m \in page : <<walk.box, m>> \in listed}
        /\ walk' = IF next # None THEN [walk EXCEPT !.before = next]
                   ELSE [walk EXCEPT !.box = BoxAfter(@), !.before = None]

\* What was in the boxes when the walk began, and has been ever since.
KeepStay ==
  stay' = CASE walk'.kind = "none" -> {}
            [] walk.kind = "none" /\ walk'.kind # "none" -> Covered(walk.kind)'
            [] OTHER -> stay \cap Covered(walk.kind)'

-----------------------------------------------------------------------------
(* The assistant and its adapter (mcp_stdio.py): one line in, one request, *)
(* one line out, in this order.                                            *)

Ask ==
  /\ call = NoCall
  /\ \/ todo = {} /\ call' = List
     \/ \E m \in todo : call' = [tool |-> "message_read", msg |-> m]
  /\ UNCHANGED <<mail, todo, shown, late, lost>>

\* inbox_list asks for no cursor: the first page is all there is.
ServeList ==
  /\ call = List
  /\ todo' = Page("inbox", None) /\ call' = NoCall
  /\ UNCHANGED <<mail, shown, late, lost>>

\* What it has read it archives; what answers 404 or 410 it leaves.
ServeRead ==
  /\ call.tool = "message_read"
  /\ ReadIt(call.msg)
  /\ IF Readable(call.msg)
     THEN /\ shown' = shown \cup {call.msg}
          /\ call' = [call EXCEPT !.tool = "archive"]
          /\ UNCHANGED todo
     ELSE /\ todo' = todo \ {call.msg} /\ call' = NoCall
          /\ UNCHANGED shown
  /\ UNCHANGED <<late, lost>>

ServeArchive ==
  /\ call.tool = "archive"
  /\ ArchiveIt(call.msg)
  /\ todo' = todo \ {call.msg} /\ call' = NoCall
  /\ UNCHANGED <<shown, late, lost>>

\* The instance is unreachable, or MOOT_TIMEOUT is over: the assistant is
\* told of an error, whatever has become of the request.
GiveUp ==
  /\ call # NoCall /\ lost < MaxLost
  /\ lost' = lost + 1
  /\ late' \in {late, late \cup ({call} \cap Call)}
  /\ todo' = todo \ {call.msg} /\ call' = NoCall
  /\ UNCHANGED <<mail, shown>>

\* A request it gave up on is served all the same.
Arrive ==
  /\ \E q \in late : /\ late' = late \ {q}
                     /\ IF q.tool = "archive" THEN ArchiveIt(q.msg) ELSE ReadIt(q.msg)
  /\ UNCHANGED <<call, todo, shown, lost>>

Calling == Ask \/ ServeList \/ ServeRead \/ ServeArchive

-----------------------------------------------------------------------------
(* watch.py.                                                               *)

\* Mutant: the answer's cursor is the newest event, not the last of its page.
PollToTheEnd ==
  /\ watch.alive /\ watch.page = {}
  /\ LET new == {i \in DOMAIN events : i > watch.cursor}
         page == {i \in new : Cardinality({k \in new : k <= i}) <= PageSize}
     IN /\ page # {}
        /\ watch' = [watch EXCEPT !.cursor = lastSeq,
                                  !.page = {<<i, events[i]>> : i \in page}]
  /\ UNCHANGED <<mail, logged, died>>

\* The cursor moves on before the events of the page are handled.
WatchPoll ==
  /\ watch.alive /\ watch.page = {}
  /\ LET new == {i \in DOMAIN events : i > watch.cursor}
         page == {i \in new : Cardinality({k \in new : k <= i}) <= PageSize}
     IN \E last \in page :
          /\ \A i \in page : i <= last
          /\ watch' = [watch EXCEPT !.cursor = last,
                                    !.page = {<<i, events[i]>> : i \in page}]
  /\ UNCHANGED <<mail, logged, died>>

\* The oldest of the page: a message it cannot read any more ends the loop.
WatchRead ==
  /\ watch.alive
  /\ \E e \in watch.page :
       /\ \A f \in watch.page : e[1] <= f[1]
       /\ ReadIt(e[2])
       /\ IF Readable(e[2])
          THEN /\ logged' = logged \cup {e[2]}
               /\ watch' = [watch EXCEPT !.page = @ \ {e}]
          ELSE watch' = [watch EXCEPT !.alive = FALSE] /\ UNCHANGED logged
  /\ UNCHANGED died

\* Only what urlopen wraps in URLError is caught, and only while it polls.
WatchDies ==
  /\ watch.alive /\ died < MaxDies
  /\ watch' = [watch EXCEPT !.alive = FALSE] /\ died' = died + 1
  /\ UNCHANGED <<mail, logged>>

\* Its owner starts it again, and it begins at the first event there is.
WatchStart ==
  /\ ~watch.alive
  /\ watch' = Started
  /\ UNCHANGED <<mail, logged, died>>

Following == WatchPoll \/ WatchRead \/ WatchStart

-----------------------------------------------------------------------------
Other ==
  /\ \E m \in Id : Deliver(m) \/ Recall(m) \/ Forget(m)
  /\ UNCHANGED <<walker, assistant, watcher>>

Walk ==
  /\ "walker" \in using
  /\ WalkBegin \/ WalkPage
  /\ UNCHANGED <<views, assistant, watcher>>

\* Another conversation, with the same token.
Handle ==
  /\ "other" \in using
  /\ \E m \in Id : (ReadIt(m) \/ ArchiveIt(m)) /\ mail' # mail
  /\ UNCHANGED <<events, lastSeq, dropped, walker, assistant, watcher>>

Assist(Action) ==
  /\ "assistant" \in using
  /\ Action
  /\ UNCHANGED <<events, lastSeq, dropped, walker, watcher>>

Watch(Action) ==
  /\ "watcher" \in using
  /\ Action
  /\ UNCHANGED <<events, lastSeq, dropped, walker, assistant>>

Rest == KeepStay /\ UNCHANGED using

Next ==
  \/ Other /\ Rest
  \/ Walk /\ Rest
  \/ Handle /\ Rest
  \/ Assist(Calling \/ GiveUp \/ Arrive) /\ Rest
  \/ Watch(Following \/ WatchDies) /\ Rest

Spec == Init /\ [][Next]_vars

\* A call is answered or given up, and the loops go on; what the owner does
\* when watch.py is dead is to start it again.
Fairness ==
  /\ WF_vars(Assist(Calling) /\ Rest)
  /\ WF_vars(Watch(Following) /\ Rest)

FairSpec == Spec /\ Fairness

-----------------------------------------------------------------------------
(* Properties.                                                             *)

TypeOK ==
  /\ mail \in [There -> Letter] /\ There \subseteq Id
  /\ events \in [DOMAIN events -> Id] /\ DOMAIN events \subseteq 1 .. lastSeq
  /\ lastSeq \in Nat /\ dropped \subseteq Id /\ using \in Together
  /\ walk \in [kind: {"none", "mail", "sent"}, box: {"inbox", "archive", "sent", "end"},
                before: Id \cup {None}]
  /\ listed \subseteq {"inbox", "archive", "sent"} \X Id
  /\ twice \subseteq Id /\ stay \subseteq Id
  /\ call \in {NoCall, List} \cup Call /\ todo \subseteq Id /\ shown \subseteq Id
  /\ late \subseteq Call /\ lost \in Nat
  /\ watch \in [alive: BOOLEAN, cursor: Nat, page: SUBSET (Nat \X Id)]
  /\ logged \subseteq Id /\ died \in Nat

\* Whatever is delivered, read, archived, recalled and forgotten between two
\* pages, a walk to the end has listed every message that was there all along,
\* also one that moved to the archive meanwhile, and none twice in a box.
WalkComplete ==
  /\ twice = {}
  /\ walk.box = "end" => \A m \in stay : \E b \in {"inbox", "archive", "sent"} : <<b, m>> \in listed

Withdrawn(m) == m \notin There \/ mail[m].recalled

\* An assistant that only ever sees the first page, and is the only one to
\* handle its mail, is shown every message it was sent, or that message is
\* taken back or forgotten first: calls that are lost, answers that are lost,
\* and calls that arrive late, keep none from it.
EventuallyShown ==
  \A m \in ToMe : using = {"assistant"} /\ m \in There ~> m \in shown \/ Withdrawn(m)

\* Started again whenever it dies, watch.py logs every message, as long as no
\* message it was told of is taken back or forgotten before it reads it.
EveryMessageLogged ==
  \A m \in ToMe :
    "watcher" \in using /\ m \in There ~>
      m \in logged \/ \E x \in ToMe : x \in dropped \/ (x \in There /\ mail[x].recalled)
=============================================================================
