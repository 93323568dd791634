------------------------------- MODULE Mailbox -------------------------------
(***************************************************************************)
(* What an instance promises about a message: it appears whole, in the box *)
(* of each of its recipients and with all of its attachments; it belongs   *)
(* to its recipients once one of them has read it; the status of a         *)
(* delivery only climbs; it is forgotten whole; and a chat that is revoked *)
(* gets no more of it.                                                     *)
(***************************************************************************)
EXTENDS Integers, Functions

CONSTANTS Chat, MsgId, None, Rank   \* Rank: status -> its place on the ladder

VARIABLES
  mail,   \* message id -> the message, for those an instance keeps
  gone    \* the chats that were revoked

Init == mail = [m \in {} |-> None] /\ gone = {}

Boxes == DOMAIN mail

Raise(m, c, s) == [mail[m] EXCEPT !.status[c] = s]

\* A message is posted to a set of chats.  If it answers another one, its
\* sender's delivery of that one is marked as replied in the same step.
Post(m, new, parent) ==
  /\ m \notin Boxes
  /\ ~new.recalled /\ new.body = "first" /\ new.read = {}
  /\ DOMAIN new.status \cap gone = {}
  /\ new.status = [c \in DOMAIN new.status |-> "delivered"]
  /\ mail' = [x \in Boxes \cup {m} |->
       IF x = m THEN new
       ELSE IF x = parent /\ new.from \in DOMAIN mail[x].status
               /\ Rank[mail[x].status[new.from]] < Rank["replied"]
            THEN Raise(x, new.from, "replied") ELSE mail[x]]

\* A recipient reads it.
Read(m, c) ==
  /\ c \in DOMAIN mail[m].status /\ c \notin mail[m].read
  /\ mail' = [mail EXCEPT ![m].read = @ \cup {c}]

Climb(m, c, s) ==
  /\ c \in mail[m].read /\ Rank[mail[m].status[c]] < Rank[s]
  /\ mail' = [mail EXCEPT ![m] = Raise(m, c, s)]

\* Its sender takes it back or rewrites it, while nobody has read it.
Withdraw(m) ==
  /\ mail[m].read = {} /\ ~mail[m].recalled
  /\ \/ mail' = [mail EXCEPT ![m].recalled = TRUE]
     \/ mail' = [mail EXCEPT ![m].body = "edited"]

\* The boxes of the chats that are gone, and no others, are emptied.
Vacate ==
  mail' = [m \in Boxes |->
    [mail[m] EXCEPT !.read = @ \ gone,
                    !.status = Restrict(@, DOMAIN @ \ gone)]]

\* Messages are forgotten, each with its deliveries and attachments.
Forget(old) == mail' = Restrict(mail, Boxes \ old)

Change ==
  \/ \E old \in SUBSET Boxes : Forget(old)
  \/ \E m \in MsgId \ Boxes, parent \in MsgId \cup {None} :
       m \in DOMAIN mail' /\ Post(m, mail'[m], parent)
  \/ \E m \in Boxes : \/ Withdraw(m)
                      \/ \E c \in Chat : Read(m, c) \/ Climb(m, c, "read")
  \/ Vacate

\* A chat is revoked; its mail stays until its box is emptied.
Leave(c) == gone' = gone \cup {c} /\ UNCHANGED mail

Next == (Change /\ UNCHANGED gone) \/ \E c \in Chat : Leave(c)

Spec == Init /\ [][Next]_<<mail, gone>>
=============================================================================
