------------------------------- MODULE Pairing -------------------------------
(***************************************************************************)
(* Pairing (app/peering.py): instances that agree to exchange mail.  One   *)
(* owner mints an invitation, the other presents it in a handshake, and    *)
(* each side ends with a row in `peers`, the token the other presents to   *)
(* it, and the token it presents to the other.  Instances share nothing    *)
(* but HTTP calls, which can be lost, late, or answered to nobody.         *)
(*                                                                         *)
(* As in Store, one autocommitted statement is one step.  A row of `peers` *)
(* is named by the token the other side was given (inbound), which is      *)
(* fresh for each row, as its id is.                                       *)
(***************************************************************************)
EXTENDS Integers, FiniteSets, Functions

CONSTANTS
  Host,       \* the instances
  Chat,       \* the chats each of them has
  Alias,      \* the nicknames owners give to peers
  Thread,     \* threads, each serving one request of one instance at a time
  None,
  MaxCalls,   \* bound: how many times owners and chats call
  MaxBoots    \* bound: how many times an instance is started again

ASSUME PairingAssumption ==
  IsFiniteSet(Host) /\ None \notin Nat /\ MaxCalls \in Nat /\ MaxBoots \in Nat

VARIABLES
  invites,    \* host -> peer_invites: code -> [alias, state]
  peers,      \* host -> peers: inbound token -> row
  exposures,  \* host -> peer_exposures
  tokens,     \* host -> app.state.peer_tokens: inbound -> outbound token
  file,       \* host -> peer-tokens.json
  req,        \* thread -> where its handler is, and its local variables
  posts,      \* the HTTP calls no handler has taken up yet
  answers,    \* the answers sent: id of the call -> what it says
  messages,   \* host -> the mail recorded as sent to a peer
  inbox,      \* host -> the mail received: id -> [peer, chat]
  minted,     \* how many codes, tokens and message ids have been drawn
  calls,      \* how many times an owner or a chat has called
  boots,      \* how many times an instance was started again
  opened      \* history: host -> every <<peer, chat>> its owner ever exposed

tables == <<invites, peers, exposures, messages, inbox>>
process == <<tokens, file>>
net == <<posts, answers>>
vars == <<tables, process, req, net, minted, calls, boots, opened>>

-----------------------------------------------------------------------------

Invite == [alias: Alias, state: {"open", "used", "expired"}]

\* `invite` is history: the invitation the row was made with, if it was.
PeerRow == [alias: Alias, url: Host, outbound: Nat \cup {None},
            state: {"active", "revoked"}, invite: Nat \cup {None}]

empty == [x \in {} |-> None]

Put(t, k, row) == [x \in DOMAIN t \cup {k} |-> IF x = k THEN row ELSE t[x]]

\* What peer-tokens.json holds: its size, in entries, and what it says if it
\* is JSON; `says` is None for the tail of one text after another.
EmptyFile == [size |-> 0, says |-> empty]

Written(f, table) ==
  LET n == Cardinality(DOMAIN table) IN
  IF n >= f.size THEN [size |-> n, says |-> table] ELSE [f EXCEPT !.says = None]

\* _load_peer_tokens: a file that cannot be parsed is an empty one.
Loaded(f) == IF f.says = None THEN empty ELSE f.says

\* A local variable that holds a number drawn later is 0 until then.
Idle == [op |-> "idle"]

At(t, op, at) == req[t].op = op /\ req[t].at = at

Continue(t, s) == req' = [req EXCEPT ![t] = s]

Goto(t, at) == Continue(t, [req[t] EXCEPT !.at = at])

Answer(t) == Continue(t, Idle)

Active(h) == {p \in DOMAIN peers[h] : peers[h][p].state = "active"}

\* An owner, or a chat, calls.
Call(t) ==
  /\ req[t] = Idle
  /\ calls < MaxCalls /\ calls' = calls + 1

\* What every handler after its first step leaves alone.
served == <<calls, boots, opened>>

-----------------------------------------------------------------------------
(* The tokens file.  Every pairing and every revocation changes the table  *)
(* in memory, then dumps it and writes the file in place; no lock is held. *)

\* `token` is None for a peer that is forgotten; `answers` is the call to
\* answer afterwards.
Save(h, peer, token, id) ==
  [op |-> "save", on |-> h, at |-> "remember", peer |-> peer, token |-> token,
   says |-> empty, answers |-> id]

Remember(t) ==
  /\ At(t, "save", "remember")
  /\ LET s == req[t]
         now == IF s.token # None THEN Put(tokens[s.on], s.peer, s.token)
                ELSE Restrict(tokens[s.on], DOMAIN tokens[s.on] \ {s.peer})
     IN /\ tokens' = [tokens EXCEPT ![s.on] = now]
        /\ Continue(t, [s EXCEPT !.at = "dump", !.says = now])
  /\ UNCHANGED <<tables, file, net, minted, served>>

\* json.dumps of the table; it raises if the table changes size under it.
Dump(t) ==
  /\ At(t, "save", "dump")
  /\ LET s == req[t]
         now == tokens[s.on]
     IN \/ Continue(t, [s EXCEPT !.at = "truncate", !.says = now])
        \/ /\ Cardinality(DOMAIN now) # Cardinality(DOMAIN s.says)
           /\ Answer(t)
  /\ UNCHANGED <<tables, process, net, minted, served>>

\* write_text opens the file for writing, and writes it.
Truncate(t) ==
  /\ At(t, "save", "truncate")
  /\ file' = [file EXCEPT ![req[t].on] = EmptyFile]
  /\ Goto(t, "write")
  /\ UNCHANGED <<tables, tokens, net, minted, served>>

\* A handshake answers now, with the token it minted.
Write(t) ==
  /\ At(t, "save", "write")
  /\ LET s == req[t] IN
       /\ file' = [file EXCEPT ![s.on] = Written(@, s.says)]
       /\ answers' = IF s.answers = None THEN answers
                     ELSE Put(answers, s.answers, s.peer)
  /\ Answer(t)
  /\ UNCHANGED <<tables, tokens, posts, minted, served>>

-----------------------------------------------------------------------------
(* The owner's side.                                                       *)

InvitePeer(t, h) ==
  /\ Call(t)
  /\ \E alias \in Alias :
       invites' = [invites EXCEPT ![h] = Put(@, minted + 1,
                                     [alias |-> alias, state |-> "open"])]
  /\ minted' = minted + 1
  /\ UNCHANGED <<req, peers, exposures, messages, inbox, process, net, boots, opened>>

\* The code comes from the other owner, out of band; it can be an old one.
AcceptBegin(t, h) ==
  /\ Call(t)
  /\ \E url \in Host \ {h}, alias \in Alias : \E code \in DOMAIN invites[url] :
       Continue(t, [op |-> "accept", on |-> h, at |-> "alias", alias |-> alias,
                    url |-> url, code |-> code, inbound |-> 0,
                    outbound |-> 0])
  /\ UNCHANGED <<tables, process, net, minted, boots, opened>>

AliasInUse(h, alias) == \E p \in Active(h) : peers[h][p].alias = alias

\* Refused if the alias is in use; otherwise a token is minted and presented,
\* with the invitation, to the other side.
AcceptCalls(t) ==
  /\ At(t, "accept", "alias")
  /\ LET s == req[t]
         inbound == minted + 1
     IN \/ /\ AliasInUse(s.on, s.alias)
           /\ Answer(t)
           /\ UNCHANGED <<posts, minted>>
        \/ /\ ~AliasInUse(s.on, s.alias)
           /\ posts' = posts \cup {[op |-> "handshake", id |-> inbound,
                 to |-> s.url, from |-> s.on, code |-> s.code]}
           /\ minted' = inbound
           /\ Continue(t, [s EXCEPT !.at = "wait", !.inbound = inbound])
  /\ UNCHANGED <<tables, process, answers, served>>

\* Mutant: an answer to another call will do.
AnyAnswer(id) == {answers[x] : x \in DOMAIN answers}

AnswerTo(id) == {answers[x] : x \in DOMAIN answers \cap {id}}

AcceptAnswered(t) ==
  /\ At(t, "accept", "wait")
  /\ \E token \in AnswerTo(req[t].inbound) :
       Continue(t, [req[t] EXCEPT !.at = "insert", !.outbound = token])
  /\ UNCHANGED <<tables, process, net, minted, served>>

\* The UNIQUE of peers.alias counts revoked peers too.
AliasTaken(h, alias) == \E p \in DOMAIN peers[h] : peers[h][p].alias = alias

NewPeer(alias, url, outbound, code) ==
  [alias |-> alias, url |-> url, outbound |-> outbound, state |-> "active",
   invite |-> code]

AcceptInsert(t) ==
  /\ At(t, "accept", "insert")
  /\ LET s == req[t] IN
       \/ /\ AliasTaken(s.on, s.alias)
          /\ Answer(t) /\ UNCHANGED peers
       \/ /\ ~AliasTaken(s.on, s.alias)
          /\ peers' = [peers EXCEPT ![s.on] =
               Put(@, s.inbound, NewPeer(s.alias, s.url, s.outbound, None))]
          /\ Continue(t, Save(s.on, s.inbound, s.outbound, None))
  /\ UNCHANGED <<invites, exposures, messages, inbox, process, net, minted, served>>

\* expose_chat, unexpose_chat and revoke_peer look the active peer up first.
AdminBegin(t, h) ==
  /\ Call(t)
  /\ \E op \in {"expose", "hide", "revoke"}, p \in Active(h), c \in Chat :
       Continue(t, [op |-> op, on |-> h, at |-> "write", peer |-> p, chat |-> c])
  /\ UNCHANGED <<tables, process, net, minted, boots, opened>>

Expose(t) ==
  /\ At(t, "expose", "write")
  /\ LET pair == {<<req[t].peer, req[t].chat>>} IN
       /\ exposures' = [exposures EXCEPT ![req[t].on] = @ \cup pair]
       /\ opened' = [opened EXCEPT ![req[t].on] = @ \cup pair]
  /\ Answer(t)
  /\ UNCHANGED <<invites, peers, messages, inbox, process, net, minted, calls, boots>>

Hide(t) ==
  /\ At(t, "hide", "write")
  /\ exposures' = [exposures EXCEPT ![req[t].on] = @ \ {<<req[t].peer, req[t].chat>>}]
  /\ Answer(t)
  /\ UNCHANGED <<invites, peers, messages, inbox, process, net, minted, served>>

\* Both hashes are cleared: no token will be recognised as this peer's again.
Revoke(t) ==
  /\ At(t, "revoke", "write")
  /\ peers' = [peers EXCEPT ![req[t].on][req[t].peer] =
                 [@ EXCEPT !.state = "revoked", !.outbound = None]]
  /\ Goto(t, "exposures")
  /\ UNCHANGED <<invites, exposures, messages, inbox, process, net, minted, served>>

RevokeExposures(t) ==
  /\ At(t, "revoke", "exposures")
  /\ LET s == req[t] IN
       /\ exposures' = [exposures EXCEPT ![s.on] = {e \in @ : e[1] # s.peer}]
       /\ Continue(t, Save(s.on, s.peer, None, None))
  /\ UNCHANGED <<invites, peers, messages, inbox, process, net, minted, served>>

-----------------------------------------------------------------------------
(* The other side of the handshake: three statements, not a transaction,   *)
(* under the lock of the process.                                          *)

Unlocked(h) ==
  \A t \in Thread : req[t].op = "handshake" /\ req[t].on = h => req[t].at = "select"

TakeHandshake(t) ==
  /\ req[t] = Idle
  /\ \E c \in posts :
       /\ c.op = "handshake"
       /\ posts' = posts \ {c}
       /\ Continue(t, [op |-> "handshake", on |-> c.to, at |-> "select",
                       call |-> c, inbound |-> 0])
  /\ UNCHANGED <<tables, process, answers, minted, served>>

Usable(h, code) == code \in DOMAIN invites[h] /\ invites[h][code].state = "open"

HandshakeSelect(t) ==
  /\ At(t, "handshake", "select") /\ Unlocked(req[t].on)
  /\ LET s == req[t] IN
       \/ Usable(s.on, s.call.code) /\ Goto(t, "insert")
       \/ ~Usable(s.on, s.call.code) /\ Answer(t)
  /\ UNCHANGED <<tables, process, net, minted, served>>

HandshakeInsert(t) ==
  /\ At(t, "handshake", "insert")
  /\ LET s == req[t]
         alias == invites[s.on][s.call.code].alias
         inbound == minted + 1
     IN \/ /\ AliasTaken(s.on, alias)
           /\ Answer(t) /\ UNCHANGED <<peers, minted>>
        \/ /\ ~AliasTaken(s.on, alias)
           /\ peers' = [peers EXCEPT ![s.on] =
                Put(@, inbound, NewPeer(alias, s.call.from, s.call.id, s.call.code))]
           /\ minted' = inbound
           /\ Continue(t, [s EXCEPT !.at = "use", !.inbound = inbound])
  /\ UNCHANGED <<invites, exposures, messages, inbox, process, net, served>>

HandshakeUse(t) ==
  /\ At(t, "handshake", "use")
  /\ LET s == req[t] IN
       /\ invites' = [invites EXCEPT ![s.on][s.call.code].state = "used"]
       /\ Continue(t, Save(s.on, s.inbound, s.call.id, s.call.id))
  /\ UNCHANGED <<peers, exposures, messages, inbox, process, net, minted, served>>

-----------------------------------------------------------------------------
(* Mail: pushed once, then recorded.                                       *)

\* A chat writes to somebody at a peer, whose row is kept.
SendBegin(t, h) ==
  /\ Call(t)
  /\ \E p \in Active(h), c \in Chat :
       Continue(t, [op |-> "send", on |-> h, at |-> "push", peer |-> p,
                    url |-> peers[h][p].url, chat |-> c, mail |-> 0])
  /\ UNCHANGED <<tables, process, net, minted, boots, opened>>

\* Without the token in memory the pairing is of no use.
Push(t) ==
  /\ At(t, "send", "push")
  /\ LET s == req[t]
         mail == minted + 1
     IN \/ /\ s.peer \notin DOMAIN tokens[s.on]
           /\ Answer(t) /\ UNCHANGED <<posts, minted>>
        \/ /\ s.peer \in DOMAIN tokens[s.on]
           /\ posts' = posts \cup {[op |-> "inbox", id |-> mail, to |-> s.url,
                                    token |-> tokens[s.on][s.peer], chat |-> s.chat]}
           /\ minted' = mail
           /\ Continue(t, [s EXCEPT !.at = "wait", !.mail = mail])
  /\ UNCHANGED <<tables, process, answers, served>>

SendAnswered(t) ==
  /\ At(t, "send", "wait")
  /\ AnswerTo(req[t].mail) # {}
  /\ Goto(t, "record")
  /\ UNCHANGED <<tables, process, net, minted, served>>

\* Mutant: a message that may have left is recorded as sent.
GiveUpRecording(t) ==
  /\ \/ At(t, "accept", "wait") /\ Answer(t)
     \/ At(t, "send", "wait") /\ Goto(t, "record")
  /\ UNCHANGED <<tables, process, net, minted, served>>

\* PeerUnreachable: refused, not reached, or its answer was lost or late.  The
\* caller reports it and records nothing.
GiveUp(t) ==
  /\ At(t, "accept", "wait") \/ At(t, "send", "wait")
  /\ Answer(t)
  /\ UNCHANGED <<tables, process, net, minted, served>>

Record(t) ==
  /\ At(t, "send", "record")
  /\ messages' = [messages EXCEPT ![req[t].on] = @ \cup {req[t].mail}]
  /\ Answer(t)
  /\ UNCHANGED <<invites, peers, exposures, inbox, process, net, minted, served>>

TakeMail(t) ==
  /\ req[t] = Idle
  /\ \E c \in posts :
       /\ c.op = "inbox"
       /\ posts' = posts \ {c}
       /\ Continue(t, [op |-> "inbox", on |-> c.to, at |-> "peer", call |-> c])
  /\ UNCHANGED <<tables, process, answers, minted, served>>

\* authenticate_peer: the token is the one an active peer was given.
AuthenticatePeer(t) ==
  /\ At(t, "inbox", "peer")
  /\ \/ req[t].call.token \in Active(req[t].on) /\ Goto(t, "chat")
     \/ req[t].call.token \notin Active(req[t].on) /\ Answer(t)
  /\ UNCHANGED <<tables, process, net, minted, served>>

\* Mutant: every chat is exposed.
IsChat(h, p, c) == c \in Chat

IsExposed(h, p, c) == <<p, c>> \in exposures[h]

FindChat(t) ==
  /\ At(t, "inbox", "chat")
  /\ LET s == req[t] IN
       \/ IsExposed(s.on, s.call.token, s.call.chat) /\ Goto(t, "commit")
       \/ ~IsExposed(s.on, s.call.token, s.call.chat) /\ Answer(t)
  /\ UNCHANGED <<tables, process, net, minted, served>>

\* The transaction, and the answer.
Receive(t) ==
  /\ At(t, "inbox", "commit") /\ Unlocked(req[t].on)
  /\ LET s == req[t] IN
       /\ inbox' = [inbox EXCEPT ![s.on] =
            Put(@, s.call.id, [peer |-> s.call.token, chat |-> s.call.chat])]
       /\ answers' = Put(answers, s.call.id, s.call.id)
  /\ Answer(t)
  /\ UNCHANGED <<invites, peers, exposures, messages, process, posts, minted, served>>

-----------------------------------------------------------------------------

\* An invitation is good for a day.
Expire(h) ==
  /\ \E code \in DOMAIN invites[h] :
       /\ invites[h][code].state = "open"
       /\ invites' = [invites EXCEPT ![h][code].state = "expired"]
  /\ UNCHANGED <<peers, exposures, messages, inbox, process, req, net, minted, served>>

\* An instance dies with its handlers and starts again: the table of tokens is
\* what the file says.
Crash(h) ==
  /\ boots < MaxBoots /\ boots' = boots + 1
  /\ tokens' = [tokens EXCEPT ![h] = Loaded(file[h])]
  /\ req' = [t \in Thread |-> IF req[t] # Idle /\ req[t].on = h THEN Idle ELSE req[t]]
  /\ UNCHANGED <<tables, file, net, minted, calls, opened>>

Init ==
  /\ invites = [h \in Host |-> empty]
  /\ peers = [h \in Host |-> empty]
  /\ exposures = [h \in Host |-> {}]
  /\ tokens = [h \in Host |-> empty]
  /\ file = [h \in Host |-> EmptyFile]
  /\ req = [t \in Thread |-> Idle]
  /\ posts = {}
  /\ answers = empty
  /\ messages = [h \in Host |-> {}]
  /\ inbox = [h \in Host |-> empty]
  /\ opened = [h \in Host |-> {}]
  /\ minted = 0 /\ calls = 0 /\ boots = 0

Begin(t) ==
  \E h \in Host : \/ InvitePeer(t, h) \/ AcceptBegin(t, h) \/ AdminBegin(t, h)
                  \/ SendBegin(t, h)

PairStep(t) ==
  \/ AcceptCalls(t) \/ AcceptAnswered(t) \/ AcceptInsert(t) \/ GiveUp(t)
  \/ TakeHandshake(t) \/ HandshakeSelect(t) \/ HandshakeInsert(t) \/ HandshakeUse(t)

SaveStep(t) == Remember(t) \/ Dump(t) \/ Truncate(t) \/ Write(t)

AdminStep(t) == Expose(t) \/ Hide(t) \/ Revoke(t) \/ RevokeExposures(t)

MailStep(t) ==
  \/ Push(t) \/ SendAnswered(t) \/ Record(t) \/ TakeMail(t) \/ AuthenticatePeer(t)
  \/ FindChat(t) \/ Receive(t)

\* Every handler has answered and nobody calls.
Stop == (\A t \in Thread : req[t] = Idle) /\ UNCHANGED vars

Next ==
  \/ \E t \in Thread : \/ Begin(t) \/ PairStep(t) \/ SaveStep(t) \/ AdminStep(t)
                       \/ MailStep(t)
  \/ \E h \in Host : Expire(h) \/ Crash(h)
  \/ Stop

Spec == Init /\ [][Next]_vars

-----------------------------------------------------------------------------
(* Properties.                                                             *)

IsTable(t, rows) == DOMAIN t \subseteq Nat /\ t \in [DOMAIN t -> rows]

PairCall == [op: {"handshake"}, id: Nat, to: Host, from: Host, code: Nat]
MailCall == [op: {"inbox"}, id: Nat, to: Host, token: Nat, chat: Chat]

AcceptJob == [op: {"accept"}, on: Host, at: {"alias", "wait", "insert"},
              alias: Alias, url: Host, code: Nat, inbound: Nat, outbound: Nat]
AdminJob == [op: {"expose", "hide", "revoke"}, on: Host, at: {"write", "exposures"},
             peer: Nat, chat: Chat]
HandshakeJob == [op: {"handshake"}, on: Host, at: {"select", "insert", "use"},
                 call: PairCall, inbound: Nat]
SendJob == [op: {"send"}, on: Host, at: {"push", "wait", "record"}, peer: Nat,
            url: Host, chat: Chat, mail: Nat]
InboxJob == [op: {"inbox"}, on: Host, at: {"peer", "chat", "commit"}, call: MailCall]

\* What a SaveJob dumps is a table; the rest of it is a record of this kind.
SaveJob(says) == [op: {"save"}, on: Host, at: {"remember", "dump", "truncate", "write"},
                  peer: Nat, token: Nat \cup {None}, says: {says},
                  answers: Nat \cup {None}]

IsRequest(s) ==
  \/ s \in {Idle} \cup AcceptJob \cup AdminJob \cup HandshakeJob \cup SendJob \cup InboxJob
  \/ s.op = "save" /\ s \in SaveJob(s.says) /\ IsTable(s.says, Nat)

\* Every table holds rows of its schema, every handler is at a statement of its
\* own, and no call goes out without the token it needs.
TypeOK ==
  /\ DOMAIN invites = Host /\ \A h \in Host : IsTable(invites[h], Invite)
  /\ DOMAIN peers = Host /\ \A h \in Host : IsTable(peers[h], PeerRow)
  /\ exposures \in [Host -> SUBSET (Nat \X Chat)]
  /\ opened \in [Host -> SUBSET (Nat \X Chat)]
  /\ DOMAIN tokens = Host /\ \A h \in Host : IsTable(tokens[h], Nat)
  /\ DOMAIN file = Host
  /\ \A h \in Host : file[h].says # None => IsTable(file[h].says, Nat)
  /\ DOMAIN req = Thread /\ \A t \in Thread : IsRequest(req[t])
  /\ posts \subseteq PairCall \cup MailCall
  /\ IsTable(answers, Nat)
  /\ messages \in [Host -> SUBSET Nat]
  /\ DOMAIN inbox = Host
  /\ \A h \in Host : IsTable(inbox[h], [peer: Nat, chat: Chat])
  /\ minted \in Nat /\ calls \in Nat /\ boots \in Nat

\* Single use: an invitation pairs at most once, also when the process dies
\* after the row and before the invitation is marked as used, and the call is
\* repeated after that.
PairsOnce ==
  \A h \in Host : \A p, q \in DOMAIN peers[h] :
    peers[h][p].invite # None /\ peers[h][p].invite = peers[h][q].invite => p = q

\* The side that accepted is known to the other: the token it presents is the
\* one the other side gave it, in a row that holds the token it gave in return.
Crossed ==
  \A h \in Host : \A p \in Active(h) :
    LET r == peers[h][p] IN
    r.invite = None =>
      /\ r.outbound \in DOMAIN peers[r.url]
      /\ r.outbound \in Active(r.url) => /\ peers[r.url][r.outbound].outbound = p
                                         /\ peers[r.url][r.outbound].url = h

\* A message recorded as sent was received by the other instance.
RecordedWasReceived ==
  \A h \in Host : messages[h] \subseteq UNION {DOMAIN inbox[g] : g \in Host}

\* Nothing is exposed by default: mail from a peer only reaches chats that the
\* owner has exposed to this very pairing, not to an earlier one.
NothingByDefault ==
  \A h \in Host : \A m \in DOMAIN inbox[h] :
    <<inbox[h][m].peer, inbox[h][m].chat>> \in opened[h]

\* The tokens file is what a restart goes by: once the handlers of an instance
\* are done, it holds the token of every active peer.
TokensSaved ==
  \A h \in Host :
    (\A t \in Thread : req[t] = Idle) => Active(h) \subseteq DOMAIN Loaded(file[h])
=============================================================================
