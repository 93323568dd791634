------------------------------- MODULE Events --------------------------------
(***************************************************************************)
(* The long poll of app/main.py: a client asks for its events after the    *)
(* cursor it holds, and keeps the cursor of the answer.                    *)
(***************************************************************************)
EXTENDS Store

CONSTANTS PageSize   \* LIMIT 100

ASSUME EventsAssumption == PageSize \in Nat \ {0}

\* Mutant: off by one.
NewAfterNext(c) == {i \in DOMAIN events : events[i].chat = c /\ i > cursor[c] + 1}

\* Its events after the cursor, oldest first.
NewFor(c) == {i \in DOMAIN events : events[i].chat = c /\ i > cursor[c]}

\* Mutant: the newest ones first.
NewestPage(c) == {i \in NewFor(c) : Cardinality({k \in NewFor(c) : k >= i}) <= PageSize}

Page(c) == {i \in NewFor(c) : Cardinality({k \in NewFor(c) : k <= i}) <= PageSize}

\* One SELECT.  An empty answer leaves the cursor where it is.  The caller was
\* authenticated when the request began, up to a minute ago: its chat may have
\* been revoked since.
Poll(c) ==
  /\ "poll" \in Workload
  /\ Serving
  /\ \E last \in Page(c) :
       /\ \A i \in Page(c) : i <= last
       /\ cursor' = [cursor EXCEPT ![c] = last]
  /\ UNCHANGED <<revoked, sessions, tables, files, req, boots, aged, asked, uploaded>>
=============================================================================
