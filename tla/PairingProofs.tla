---------------------------- MODULE PairingProofs ----------------------------
(***************************************************************************)
(* Theorems about Pairing, for any number of instances and threads,        *)
(* whatever calls are lost, late or answered to nobody: first what one     *)
(* instance keeps, then what the two sides of a pairing hold of each other *)
(* and of mail that is recorded as sent.                                   *)
(***************************************************************************)
EXTENDS Pairing, FiniteSetTheorems, TLAPS

USE PairingAssumption

RequestsOK == DOMAIN req = Thread /\ \A t \in Thread : IsRequest(req[t])

-----------------------------------------------------------------------------
(* Type correctness.                                                       *)

\* An INSERT keeps the schema.
LEMMA PutType ==
  ASSUME NEW rows, NEW t, IsTable(t, rows), NEW k \in Nat, NEW row \in rows
  PROVE  IsTable(Put(t, k, row), rows)
BY DEF IsTable, Put

\* So does an UPDATE of an invitation's state, whether or not there is one.
LEMMA StateType ==
  ASSUME NEW t, IsTable(t, Invite), NEW code, NEW state \in {"used", "expired"}
  PROVE  /\ IsTable([t EXCEPT ![code].state = state], Invite)
         /\ DOMAIN [t EXCEPT ![code].state = state] = DOMAIN t
<1> DEFINE now == [t EXCEPT ![code].state = state]
<1>1. DOMAIN now = DOMAIN t
  OBVIOUS
<1>2. \A x \in DOMAIN t : now[x] \in Invite
  <2> SUFFICES ASSUME NEW x \in DOMAIN t PROVE now[x] \in Invite
    OBVIOUS
  <2>1. t[x] \in Invite
    BY DEF IsTable
  <2>2. CASE x = code
    <3>1. now[x] = [t[x] EXCEPT !.state = state]
      BY <2>2
    <3> QED BY <2>1, <3>1 DEF Invite
  <2>3. CASE x # code
    BY <2>1, <2>3
  <2> QED BY <2>2, <2>3
<1>3. now = [x \in DOMAIN t |-> now[x]]
  OBVIOUS
<1> HIDE DEF now
<1>4. DOMAIN now \subseteq Nat /\ now \in [DOMAIN now -> Invite]
  BY <1>1, <1>2, <1>3 DEF IsTable
<1> QED BY <1>1, <1>4 DEF IsTable, now

\* And a revocation.
LEMMA RevokedType ==
  ASSUME NEW t, IsTable(t, PeerRow), NEW p
  PROVE  IsTable([t EXCEPT ![p] = [@ EXCEPT !.state = "revoked", !.outbound = None]], PeerRow)
<1> DEFINE now == [t EXCEPT ![p] = [@ EXCEPT !.state = "revoked", !.outbound = None]]
<1>1. DOMAIN now = DOMAIN t
  OBVIOUS
<1>2. \A x \in DOMAIN t : now[x] \in PeerRow
  <2> SUFFICES ASSUME NEW x \in DOMAIN t PROVE now[x] \in PeerRow
    OBVIOUS
  <2>1. t[x] \in PeerRow
    BY DEF IsTable
  <2>2. CASE x = p
    <3>1. now[x] = [t[x] EXCEPT !.state = "revoked", !.outbound = None]
      BY <2>2
    <3> QED BY <2>1, <3>1 DEF PeerRow
  <2>3. CASE x # p
    BY <2>1, <2>3
  <2> QED BY <2>2, <2>3
<1>3. now = [x \in DOMAIN t |-> now[x]]
  OBVIOUS
<1> HIDE DEF now
<1>4. DOMAIN now \subseteq Nat /\ now \in [DOMAIN now -> PeerRow]
  BY <1>1, <1>2, <1>3 DEF IsTable
<1> QED BY <1>4 DEF IsTable, now

\* The operation of a handler tells which local variables it has.
LEMMA RequestKinds ==
  ASSUME NEW s, IsRequest(s)
  PROVE  /\ s.op = "accept" => s \in AcceptJob
         /\ s.op \in {"expose", "hide", "revoke"} => s \in AdminJob
         /\ s.op = "handshake" => s \in HandshakeJob
         /\ s.op = "send" => s \in SendJob
         /\ s.op = "inbox" => s \in InboxJob
         /\ s.op = "save" => s \in SaveJob(s.says) /\ IsTable(s.says, Nat)
BY DEF IsRequest, Idle, AcceptJob, AdminJob, HandshakeJob, SendJob, InboxJob, SaveJob

\* A handler that goes on to one of its statements leaves the others alone.
LEMMA ContinueStep ==
  ASSUME RequestsOK, NEW t \in Thread, NEW s, IsRequest(s), Continue(t, s)
  PROVE  RequestsOK'
BY DEF RequestsOK, Continue

LEMMA AnswerStep ==
  ASSUME RequestsOK, NEW t \in Thread, Answer(t)
  PROVE  RequestsOK'
<1>1. IsRequest(Idle)
  BY DEF IsRequest
<1> QED BY <1>1, ContinueStep DEF Answer

\* A pairing that is written or forgotten is saved.
LEMMA SaveType ==
  ASSUME NEW h \in Host, NEW peer \in Nat, NEW token \in Nat \cup {None},
         NEW id \in Nat \cup {None}
  PROVE  IsRequest(Save(h, peer, token, id))
BY DEF Save, IsRequest, SaveJob, IsTable, empty

LEMMA TypeParts == TypeOK => RequestsOK
BY DEF TypeOK, RequestsOK

LEMMA InviteType ==
  ASSUME TypeOK, NEW t \in Thread, NEW h \in Host, InvitePeer(t, h)
  PROVE  TypeOK'
<1>1. PICK alias \in Alias :
        invites' = [invites EXCEPT ![h] = Put(@, minted + 1,
                                     [alias |-> alias, state |-> "open"])]
  BY DEF InvitePeer
<1>2. IsTable(Put(invites[h], minted + 1, [alias |-> alias, state |-> "open"]), Invite)
  <2>1. [alias |-> alias, state |-> "open"] \in Invite
    BY DEF Invite
  <2> QED BY <2>1, PutType DEF TypeOK
<1>3. DOMAIN invites' = Host /\ \A g \in Host : IsTable(invites'[g], Invite)
  BY <1>1, <1>2 DEF TypeOK
<1>4. calls' \in Nat /\ minted' \in Nat
  BY DEF TypeOK, InvitePeer, Call
<1> QED BY <1>3, <1>4 DEF TypeOK, InvitePeer, process, net

\* The other calls only start a handler.
LEMMA BeginType ==
  ASSUME TypeOK, NEW t \in Thread, NEW h \in Host,
         AcceptBegin(t, h) \/ AdminBegin(t, h) \/ SendBegin(t, h)
  PROVE  TypeOK'
<1> USE TypeParts
<1>0. calls' \in Nat
  BY DEF TypeOK, AcceptBegin, AdminBegin, SendBegin, Call
<1>1. CASE AcceptBegin(t, h)
  <2>1. PICK url \in Host \ {h}, alias \in Alias : \E code \in DOMAIN invites[url] :
          Continue(t, [op |-> "accept", on |-> h, at |-> "alias", alias |-> alias,
                       url |-> url, code |-> code, inbound |-> 0,
                       outbound |-> 0])
    BY <1>1 DEF AcceptBegin
  <2>2. PICK code \in DOMAIN invites[url] :
          Continue(t, [op |-> "accept", on |-> h, at |-> "alias", alias |-> alias,
                       url |-> url, code |-> code, inbound |-> 0,
                       outbound |-> 0])
    BY <2>1
  <2>3. code \in Nat
    BY DEF TypeOK, IsTable
  <2>4. IsRequest([op |-> "accept", on |-> h, at |-> "alias", alias |-> alias,
                   url |-> url, code |-> code, inbound |-> 0, outbound |-> 0])
    BY <2>3 DEF IsRequest, AcceptJob
  <2>5. RequestsOK'
    BY <2>2, <2>4, ContinueStep
  <2> QED BY <1>0, <1>1, <2>5 DEF AcceptBegin, TypeOK, RequestsOK, tables, process, net
<1>2. CASE AdminBegin(t, h)
  <2>1. PICK op \in {"expose", "hide", "revoke"}, p \in Active(h), c \in Chat :
          Continue(t, [op |-> op, on |-> h, at |-> "write", peer |-> p, chat |-> c])
    BY <1>2 DEF AdminBegin
  <2>2. p \in Nat
    BY DEF TypeOK, IsTable, Active
  <2>3. IsRequest([op |-> op, on |-> h, at |-> "write", peer |-> p, chat |-> c])
    BY <2>2 DEF IsRequest, AdminJob
  <2>4. RequestsOK'
    BY <2>1, <2>3, ContinueStep
  <2> QED BY <1>0, <1>2, <2>4 DEF AdminBegin, TypeOK, RequestsOK, tables, process, net
<1>3. CASE SendBegin(t, h)
  <2>1. PICK p \in Active(h), c \in Chat :
          Continue(t, [op |-> "send", on |-> h, at |-> "push", peer |-> p,
                       url |-> peers[h][p].url, chat |-> c, mail |-> 0])
    BY <1>3 DEF SendBegin
  <2>2. p \in Nat /\ peers[h][p].url \in Host
    BY DEF TypeOK, IsTable, Active, PeerRow
  <2>3. IsRequest([op |-> "send", on |-> h, at |-> "push", peer |-> p,
                   url |-> peers[h][p].url, chat |-> c, mail |-> 0])
    BY <2>2 DEF IsRequest, SendJob
  <2>4. RequestsOK'
    BY <2>1, <2>3, ContinueStep
  <2> QED BY <1>0, <1>3, <2>4 DEF SendBegin, TypeOK, RequestsOK, tables, process, net
<1> QED BY <1>1, <1>2, <1>3

-----------------------------------------------------------------------------
(* The handlers' own steps.                                                *)

\* Steps that only move a handler on.
LEMMA QuietType ==
  ASSUME TypeOK, NEW t \in Thread,
         \/ AcceptAnswered(t) \/ GiveUp(t) \/ HandshakeSelect(t) \/ SendAnswered(t)
         \/ AuthenticatePeer(t) \/ FindChat(t) \/ Dump(t)
  PROVE  TypeOK'
<1> USE TypeParts
<1>1. IsRequest(req[t])
  BY DEF TypeOK
<1>2. ASSUME RequestsOK', UNCHANGED <<tables, process, net, minted, served>> PROVE TypeOK'
  BY <1>2 DEF TypeOK, RequestsOK, tables, process, net, served
<1>3. CASE AcceptAnswered(t)
  <2>1. PICK token \in AnswerTo(req[t].inbound) :
          Continue(t, [req[t] EXCEPT !.at = "insert", !.outbound = token])
    BY <1>3 DEF AcceptAnswered
  <2>2. token \in Nat
    BY DEF TypeOK, IsTable, AnswerTo
  <2>3. req[t] \in AcceptJob
    BY <1>1, <1>3, RequestKinds DEF AcceptAnswered, At
  <2>4. IsRequest([req[t] EXCEPT !.at = "insert", !.outbound = token])
    BY <2>2, <2>3 DEF IsRequest, AcceptJob
  <2> QED BY <1>2, <1>3, <2>1, <2>4, ContinueStep DEF AcceptAnswered
<1>4. CASE GiveUp(t)
  BY <1>2, <1>4, AnswerStep DEF GiveUp
<1>5. CASE HandshakeSelect(t)
  <2>1. req[t] \in HandshakeJob
    BY <1>1, <1>5, RequestKinds DEF HandshakeSelect, At
  <2>2. IsRequest([req[t] EXCEPT !.at = "insert"])
    BY <2>1 DEF IsRequest, HandshakeJob
  <2> QED BY <1>2, <1>5, <2>2, ContinueStep, AnswerStep DEF HandshakeSelect, Goto
<1>6. CASE SendAnswered(t)
  <2>1. req[t] \in SendJob
    BY <1>1, <1>6, RequestKinds DEF SendAnswered, At
  <2>2. IsRequest([req[t] EXCEPT !.at = "record"])
    BY <2>1 DEF IsRequest, SendJob
  <2> QED BY <1>2, <1>6, <2>2, ContinueStep DEF SendAnswered, Goto
<1>7. CASE AuthenticatePeer(t) \/ FindChat(t)
  <2>1. req[t] \in InboxJob
    BY <1>1, <1>7, RequestKinds DEF AuthenticatePeer, FindChat, At
  <2>2. \A at \in {"chat", "commit"} : IsRequest([req[t] EXCEPT !.at = at])
    BY <2>1 DEF IsRequest, InboxJob
  <2>3. RequestsOK'
    BY <1>7, <2>2, ContinueStep, AnswerStep DEF AuthenticatePeer, FindChat, Goto
  <2> QED BY <1>2, <1>7, <2>3 DEF AuthenticatePeer, FindChat
<1>8. CASE Dump(t)
  <2>1. req[t] \in SaveJob(req[t].says)
    BY <1>1, <1>8, RequestKinds DEF Dump, At
  <2>2. IsTable(tokens[req[t].on], Nat)
    BY <2>1 DEF SaveJob, TypeOK
  <2>3. IsRequest([req[t] EXCEPT !.at = "truncate", !.says = tokens[req[t].on]])
    BY <2>1, <2>2 DEF IsRequest, SaveJob
  <2> QED BY <1>2, <1>8, <2>3, ContinueStep, AnswerStep DEF Dump
<1> QED BY <1>3, <1>4, <1>5, <1>6, <1>7, <1>8

LEMMA SaveStepType ==
  ASSUME TypeOK, NEW t \in Thread, Remember(t) \/ Truncate(t) \/ Write(t)
  PROVE  TypeOK'
<1> USE TypeParts
<1> DEFINE s == req[t]
<1>1. s \in SaveJob(s.says) /\ IsTable(s.says, Nat)
  <2>1. IsRequest(s)
    BY DEF TypeOK
  <2> QED BY <2>1, RequestKinds DEF Remember, Truncate, Write, At
<1>2. s.on \in Host /\ s.peer \in Nat /\ s.token \in Nat \cup {None}
        /\ s.answers \in Nat \cup {None}
  BY <1>1 DEF SaveJob
<1>3. CASE Remember(t)
  <2> DEFINE now == IF s.token # None THEN Put(tokens[s.on], s.peer, s.token)
                    ELSE Restrict(tokens[s.on], DOMAIN tokens[s.on] \ {s.peer})
  <2>1. IsTable(tokens[s.on], Nat)
    BY <1>2 DEF TypeOK
  <2>2. IsTable(now, Nat)
    <3>1. CASE s.token # None
      BY <1>2, <2>1, <3>1, PutType
    <3>2. CASE s.token = None
      BY <2>1, <3>2 DEF IsTable, Restrict
    <3> QED BY <3>1, <3>2
  <2>3. /\ tokens' = [tokens EXCEPT ![s.on] = now]
        /\ Continue(t, [s EXCEPT !.at = "dump", !.says = now])
        /\ UNCHANGED <<tables, file, net, minted, served>>
    BY <1>3 DEF Remember
  <2> HIDE DEF now
  <2>4. IsRequest([s EXCEPT !.at = "dump", !.says = now])
    BY <1>1, <2>2 DEF IsRequest, SaveJob
  <2>5. RequestsOK'
    BY <2>3, <2>4, ContinueStep
  <2>6. DOMAIN tokens' = Host /\ \A h \in Host : IsTable(tokens'[h], Nat)
    BY <2>2, <2>3 DEF TypeOK
  <2> QED BY <2>3, <2>5, <2>6 DEF TypeOK, RequestsOK, tables, net, served
<1>4. CASE Truncate(t)
  <2>1. IsRequest([s EXCEPT !.at = "write"])
    BY <1>1 DEF IsRequest, SaveJob
  <2>2. RequestsOK'
    BY <1>4, <2>1, ContinueStep DEF Truncate, Goto
  <2>3. /\ DOMAIN file' = Host
        /\ \A h \in Host : file'[h].says # None => IsTable(file'[h].says, Nat)
    <3>1. IsTable(empty, Nat)
      BY DEF IsTable, empty
    <3> QED BY <1>4, <3>1 DEF Truncate, TypeOK, EmptyFile
  <2> QED BY <1>4, <2>2, <2>3 DEF Truncate, TypeOK, RequestsOK, tables, net, served
<1>5. CASE Write(t)
  <2>1. RequestsOK'
    BY <1>5, AnswerStep DEF Write
  <2>2. \A h \in Host : Written(file[h], s.says).says # None =>
                          IsTable(Written(file[h], s.says).says, Nat)
    <3> SUFFICES ASSUME NEW h \in Host, Written(file[h], s.says).says # None
                 PROVE  IsTable(Written(file[h], s.says).says, Nat)
      OBVIOUS
    <3>1. CASE Cardinality(DOMAIN s.says) >= file[h].size
      BY <1>1, <3>1 DEF Written
    <3>2. CASE ~(Cardinality(DOMAIN s.says) >= file[h].size)
      <4>1. Written(file[h], s.says) = [file[h] EXCEPT !.says = None]
        BY <3>2 DEF Written
      <4> QED BY <4>1 DEF TypeOK
    <3> QED BY <3>1, <3>2
  <2>3. /\ DOMAIN file' = Host
        /\ \A h \in Host : file'[h].says # None => IsTable(file'[h].says, Nat)
    <3>1. file' = [file EXCEPT ![s.on] = Written(file[s.on], s.says)]
      BY <1>5 DEF Write
    <3> QED BY <1>2, <2>2, <3>1 DEF TypeOK
  <2>4. IsTable(answers', Nat)
    BY <1>2, <1>5, PutType DEF Write, TypeOK
  <2> QED BY <1>5, <2>1, <2>3, <2>4 DEF Write, TypeOK, RequestsOK, tables, net, served
<1> QED BY <1>3, <1>4, <1>5

LEMMA AcceptType ==
  ASSUME TypeOK, NEW t \in Thread, AcceptCalls(t) \/ AcceptInsert(t)
  PROVE  TypeOK'
<1> USE TypeParts
<1> DEFINE s == req[t]
<1>1. s \in AcceptJob
  <2>1. IsRequest(s)
    BY DEF TypeOK
  <2> QED BY <2>1, RequestKinds DEF AcceptCalls, AcceptInsert, At
<1>2. minted \in Nat /\ minted + 1 \in Nat
  BY DEF TypeOK
<1>3. CASE AcceptCalls(t)
  <2>1. minted' \in Nat
    BY <1>2, <1>3 DEF AcceptCalls
  <2>2. posts' \subseteq PairCall \cup MailCall
    <3>1. [op |-> "handshake", id |-> minted + 1, to |-> s.url, from |-> s.on,
           code |-> s.code] \in PairCall
      BY <1>1, <1>2 DEF AcceptJob, PairCall
    <3> QED BY <1>3, <3>1 DEF AcceptCalls, TypeOK
  <2>3. RequestsOK'
    <3>1. IsRequest([s EXCEPT !.at = "wait", !.inbound = minted + 1])
      BY <1>1, <1>2 DEF IsRequest, AcceptJob
    <3> QED BY <1>3, <3>1, ContinueStep, AnswerStep DEF AcceptCalls
  <2> QED BY <1>3, <2>1, <2>2, <2>3 DEF AcceptCalls, TypeOK, RequestsOK, tables, process, served
<1>4. CASE AcceptInsert(t)
  <2>1. CASE AliasTaken(s.on, s.alias)
    <3>1. RequestsOK'
      BY <1>4, <2>1, AnswerStep DEF AcceptInsert
    <3> QED BY <1>4, <2>1, <3>1 DEF AcceptInsert, TypeOK, RequestsOK, process, net, served
  <2>2. CASE ~AliasTaken(s.on, s.alias)
    <3>1. NewPeer(s.alias, s.url, s.outbound, None) \in PeerRow
      BY <1>1 DEF NewPeer, PeerRow, AcceptJob
    <3>2. s.on \in Host /\ s.inbound \in Nat /\ s.outbound \in Nat
      BY <1>1 DEF AcceptJob
    <3>3. DOMAIN peers' = Host /\ \A h \in Host : IsTable(peers'[h], PeerRow)
      <4>1. IsTable(Put(peers[s.on], s.inbound, NewPeer(s.alias, s.url, s.outbound, None)),
                    PeerRow)
        BY <3>1, <3>2, PutType DEF TypeOK
      <4> QED BY <1>4, <2>2, <4>1 DEF AcceptInsert, TypeOK
    <3>4. RequestsOK'
      <4>1. IsRequest(Save(s.on, s.inbound, s.outbound, None))
        BY <3>2, SaveType
      <4> QED BY <1>4, <2>2, <4>1, ContinueStep DEF AcceptInsert
    <3> QED BY <1>4, <2>2, <3>3, <3>4 DEF AcceptInsert, TypeOK, RequestsOK, process, net, served
  <2> QED BY <2>1, <2>2
<1> QED BY <1>3, <1>4

\* A handshake that is past the SELECT presented an invitation of this owner's.
KnownCodes ==
  \A t \in Thread : At(t, "handshake", "insert") =>
                      req[t].call.code \in DOMAIN invites[req[t].on]

LEMMA HandshakeType ==
  ASSUME TypeOK, KnownCodes, NEW t \in Thread,
         TakeHandshake(t) \/ HandshakeInsert(t) \/ HandshakeUse(t)
  PROVE  TypeOK'
<1> USE TypeParts
<1> DEFINE s == req[t]
<1>1. minted \in Nat /\ minted + 1 \in Nat
  BY DEF TypeOK
<1>2. IsRequest(s)
  BY DEF TypeOK
<1>3. CASE TakeHandshake(t)
  <2>1. PICK c \in posts : /\ c.op = "handshake"
                           /\ posts' = posts \ {c}
                           /\ Continue(t, [op |-> "handshake", on |-> c.to, at |-> "select",
                                           call |-> c, inbound |-> 0])
    BY <1>3 DEF TakeHandshake
  <2>2. c \in PairCall /\ c.to \in Host
    BY <2>1 DEF TypeOK, PairCall, MailCall
  <2>3. IsRequest([op |-> "handshake", on |-> c.to, at |-> "select", call |-> c,
                   inbound |-> 0])
    BY <2>2 DEF IsRequest, HandshakeJob
  <2>4. RequestsOK'
    BY <2>1, <2>3, ContinueStep
  <2> QED BY <1>3, <2>1, <2>4 DEF TakeHandshake, TypeOK, RequestsOK, tables, process, served
<1>4. CASE HandshakeInsert(t)
  <2>1. s \in HandshakeJob /\ s.at = "insert"
    BY <1>2, <1>4, RequestKinds DEF HandshakeInsert, At
  <2>2. s.on \in Host /\ s.call \in PairCall
    BY <2>1 DEF HandshakeJob
  <2> DEFINE alias == invites[s.on][s.call.code].alias
  <2>3. alias \in Alias
    <3>1. s.call.code \in DOMAIN invites[s.on]
      BY <1>4 DEF KnownCodes, HandshakeInsert
    <3> QED BY <2>2, <3>1 DEF TypeOK, IsTable, Invite
  <2>4. CASE AliasTaken(s.on, alias)
    <3>1. Answer(t) /\ UNCHANGED <<peers, minted>>
      BY <1>4, <2>4 DEF HandshakeInsert
    <3>2. RequestsOK'
      BY <3>1, AnswerStep
    <3> QED BY <1>4, <3>1, <3>2 DEF HandshakeInsert, TypeOK, RequestsOK, process, net, served
  <2>5. CASE ~AliasTaken(s.on, alias)
    <3> DEFINE row == NewPeer(alias, s.call.from, s.call.id, s.call.code)
    <3>1. /\ peers' = [peers EXCEPT ![s.on] = Put(@, minted + 1, row)]
          /\ minted' = minted + 1
          /\ Continue(t, [s EXCEPT !.at = "use", !.inbound = minted + 1])
      BY <1>4, <2>5 DEF HandshakeInsert
    <3>2. IsRequest([s EXCEPT !.at = "use", !.inbound = minted + 1])
      BY <1>1, <2>1 DEF IsRequest, HandshakeJob
    <3>3. RequestsOK'
      BY <3>1, <3>2, ContinueStep
    <3>4. DOMAIN peers' = Host /\ \A h \in Host : IsTable(peers'[h], PeerRow)
      <4>1. row \in PeerRow
        <5>1. s.call.from \in Host /\ s.call.id \in Nat /\ s.call.code \in Nat
          BY <2>2 DEF PairCall
        <5> QED BY <2>3, <5>1 DEF NewPeer, PeerRow
      <4> HIDE DEF row
      <4>2. IsTable(Put(peers[s.on], minted + 1, row), PeerRow)
        BY <1>1, <2>2, <4>1, PutType DEF TypeOK
      <4> QED BY <2>2, <3>1, <4>2 DEF TypeOK
    <3>5. minted' \in Nat
      BY <1>1, <3>1
    <3> QED BY <1>4, <3>3, <3>4, <3>5 DEF HandshakeInsert, TypeOK, RequestsOK, process, net, served
  <2> QED BY <2>4, <2>5
<1>5. CASE HandshakeUse(t)
  <2>1. s \in HandshakeJob
    BY <1>2, <1>5, RequestKinds DEF HandshakeUse, At
  <2>2. s.on \in Host /\ s.inbound \in Nat /\ s.call.id \in Nat
    BY <2>1 DEF HandshakeJob, PairCall
  <2>3. RequestsOK'
    <3>1. IsRequest(Save(s.on, s.inbound, s.call.id, s.call.id))
      BY <2>2, SaveType
    <3> QED BY <1>5, <3>1, ContinueStep DEF HandshakeUse
  <2>4. DOMAIN invites' = Host /\ \A h \in Host : IsTable(invites'[h], Invite)
    <3>1. invites' = [invites EXCEPT ![s.on][s.call.code].state = "used"]
      BY <1>5 DEF HandshakeUse
    <3> DEFINE now == [invites[s.on] EXCEPT ![s.call.code].state = "used"]
    <3>2. IsTable(invites[s.on], Invite)
      BY <2>2 DEF TypeOK
    <3>3. IsTable(now, Invite)
      BY <3>2, StateType
    <3>4. invites' = [invites EXCEPT ![s.on] = now]
      BY <3>1
    <3> HIDE DEF now
    <3> QED BY <2>2, <3>3, <3>4 DEF TypeOK
  <2> QED BY <1>5, <2>3, <2>4 DEF HandshakeUse, TypeOK, RequestsOK, process, net, served
<1> QED BY <1>3, <1>4, <1>5

LEMMA MailType ==
  ASSUME TypeOK, NEW t \in Thread, Push(t) \/ Record(t) \/ TakeMail(t) \/ Receive(t)
  PROVE  TypeOK'
<1> USE TypeParts
<1> DEFINE s == req[t]
<1>1. minted \in Nat /\ minted + 1 \in Nat
  BY DEF TypeOK
<1>2. IsRequest(s)
  BY DEF TypeOK
<1>3. CASE Push(t)
  <2>1. s \in SendJob
    BY <1>2, <1>3, RequestKinds DEF Push, At
  <2>2. s.on \in Host /\ s.url \in Host /\ s.chat \in Chat
    BY <2>1 DEF SendJob
  <2>3. CASE s.peer \notin DOMAIN tokens[s.on]
    <3>1. RequestsOK'
      BY <1>3, <2>3, AnswerStep DEF Push
    <3> QED BY <1>3, <2>3, <3>1 DEF Push, TypeOK, RequestsOK, tables, process, net, served
  <2>4. CASE s.peer \in DOMAIN tokens[s.on]
    <3> DEFINE c == [op |-> "inbox", id |-> minted + 1, to |-> s.url,
                     token |-> tokens[s.on][s.peer], chat |-> s.chat]
    <3>1. /\ posts' = posts \cup {c}
          /\ minted' = minted + 1
          /\ Continue(t, [s EXCEPT !.at = "wait", !.mail = minted + 1])
      BY <1>3, <2>4 DEF Push
    <3>2. posts' \subseteq PairCall \cup MailCall
      <4>1. tokens[s.on][s.peer] \in Nat
        BY <2>2, <2>4 DEF TypeOK, IsTable
      <4>2. c \in MailCall
        BY <1>1, <2>2, <4>1 DEF MailCall
      <4> QED BY <3>1, <4>2 DEF TypeOK
    <3>3. RequestsOK'
      <4>1. IsRequest([s EXCEPT !.at = "wait", !.mail = minted + 1])
        BY <1>1, <2>1 DEF IsRequest, SendJob
      <4> QED BY <3>1, <4>1, ContinueStep
    <3>4. minted' \in Nat
      BY <1>1, <3>1
    <3> QED BY <1>3, <3>2, <3>3, <3>4 DEF Push, TypeOK, RequestsOK, tables, process, served
  <2> QED BY <2>3, <2>4
<1>4. CASE Record(t)
  <2>1. s \in SendJob
    BY <1>2, <1>4, RequestKinds DEF Record, At
  <2>2. RequestsOK'
    BY <1>4, AnswerStep DEF Record
  <2>3. messages' \in [Host -> SUBSET Nat]
    BY <1>4, <2>1 DEF Record, TypeOK, SendJob
  <2> QED BY <1>4, <2>2, <2>3 DEF Record, TypeOK, RequestsOK, process, net, served
<1>5. CASE TakeMail(t)
  <2>1. PICK c \in posts : /\ c.op = "inbox"
                           /\ posts' = posts \ {c}
                           /\ Continue(t, [op |-> "inbox", on |-> c.to, at |-> "peer",
                                           call |-> c])
    BY <1>5 DEF TakeMail
  <2>2. c \in MailCall /\ c.to \in Host
    BY <2>1 DEF TypeOK, PairCall, MailCall
  <2>3. IsRequest([op |-> "inbox", on |-> c.to, at |-> "peer", call |-> c])
    BY <2>2 DEF IsRequest, InboxJob
  <2>4. RequestsOK'
    BY <2>1, <2>3, ContinueStep
  <2> QED BY <1>5, <2>1, <2>4 DEF TakeMail, TypeOK, RequestsOK, tables, process, served
<1>6. CASE Receive(t)
  <2>1. s \in InboxJob
    BY <1>2, <1>6, RequestKinds DEF Receive, At
  <2>2. s.on \in Host /\ s.call \in MailCall /\ s.call.id \in Nat
    BY <2>1 DEF InboxJob, MailCall
  <2>3. RequestsOK'
    BY <1>6, AnswerStep DEF Receive
  <2>4. IsTable(answers', Nat)
    BY <1>6, <2>2, PutType DEF Receive, TypeOK
  <2>5. DOMAIN inbox' = Host /\ \A h \in Host : IsTable(inbox'[h], [peer: Nat, chat: Chat])
    <3> DEFINE row == [peer |-> s.call.token, chat |-> s.call.chat]
    <3>1. row \in [peer: Nat, chat: Chat]
      BY <2>2 DEF MailCall
    <3>2. inbox' = [inbox EXCEPT ![s.on] = Put(@, s.call.id, row)]
      BY <1>6 DEF Receive
    <3> HIDE DEF row
    <3>3. IsTable(Put(inbox[s.on], s.call.id, row), [peer: Nat, chat: Chat])
      BY <2>2, <3>1, PutType DEF TypeOK
    <3> QED BY <2>2, <3>2, <3>3 DEF TypeOK
  <2> QED BY <1>6, <2>3, <2>4, <2>5 DEF Receive, TypeOK, RequestsOK, process, served
<1> QED BY <1>3, <1>4, <1>5, <1>6

LEMMA AdminType ==
  ASSUME TypeOK, NEW t \in Thread,
         Expose(t) \/ Hide(t) \/ Revoke(t) \/ RevokeExposures(t)
  PROVE  TypeOK'
<1> USE TypeParts
<1> DEFINE s == req[t]
<1>1. s \in AdminJob
  <2>1. IsRequest(s)
    BY DEF TypeOK
  <2> QED BY <2>1, RequestKinds DEF Expose, Hide, Revoke, RevokeExposures, At
<1>2. s.on \in Host /\ s.peer \in Nat /\ s.chat \in Chat
  BY <1>1 DEF AdminJob
<1>3. CASE Expose(t)
  <2>1. RequestsOK'
    BY <1>3, AnswerStep DEF Expose
  <2>2. exposures' \in [Host -> SUBSET (Nat \X Chat)] /\ opened' \in [Host -> SUBSET (Nat \X Chat)]
    <3> DEFINE pair == {<<s.peer, s.chat>>}
    <3>1. /\ exposures' = [exposures EXCEPT ![s.on] = @ \cup pair]
          /\ opened' = [opened EXCEPT ![s.on] = @ \cup pair]
      BY <1>3 DEF Expose
    <3>2. pair \in SUBSET (Nat \X Chat)
      BY <1>2
    <3> HIDE DEF pair
    <3> QED BY <3>1, <3>2 DEF TypeOK
  <2> QED BY <1>3, <2>1, <2>2 DEF Expose, TypeOK, RequestsOK, process, net
<1>4. CASE Hide(t)
  <2>1. RequestsOK'
    BY <1>4, AnswerStep DEF Hide
  <2>2. exposures' \in [Host -> SUBSET (Nat \X Chat)]
    BY <1>4 DEF Hide, TypeOK
  <2> QED BY <1>4, <2>1, <2>2 DEF Hide, TypeOK, RequestsOK, process, net, served
<1>5. CASE Revoke(t)
  <2>1. RequestsOK'
    <3>1. IsRequest([s EXCEPT !.at = "exposures"])
      BY <1>1 DEF IsRequest, AdminJob
    <3> QED BY <1>5, <3>1, ContinueStep DEF Revoke, Goto
  <2>2. DOMAIN peers' = Host /\ \A h \in Host : IsTable(peers'[h], PeerRow)
    <3> DEFINE now == [peers[s.on] EXCEPT ![s.peer] =
                         [@ EXCEPT !.state = "revoked", !.outbound = None]]
    <3>1. peers' = [peers EXCEPT ![s.on] = now]
      BY <1>5 DEF Revoke
    <3>2. IsTable(peers[s.on], PeerRow)
      BY <1>2 DEF TypeOK
    <3>3. IsTable(now, PeerRow)
      BY <3>2, RevokedType
    <3> HIDE DEF now
    <3> QED BY <1>2, <3>1, <3>3 DEF TypeOK
  <2> QED BY <1>5, <2>1, <2>2 DEF Revoke, TypeOK, RequestsOK, process, net, served
<1>6. CASE RevokeExposures(t)
  <2>1. RequestsOK'
    <3>1. IsRequest(Save(s.on, s.peer, None, None))
      BY <1>2, SaveType
    <3> QED BY <1>6, <3>1, ContinueStep DEF RevokeExposures
  <2>2. exposures' \in [Host -> SUBSET (Nat \X Chat)]
    BY <1>6 DEF RevokeExposures, TypeOK
  <2> QED BY <1>6, <2>1, <2>2 DEF RevokeExposures, TypeOK, RequestsOK, process, net, served
<1> QED BY <1>3, <1>4, <1>5, <1>6

\* The clock and a restart.
LEMMA HostType ==
  ASSUME TypeOK, NEW h \in Host, Expire(h) \/ Crash(h)
  PROVE  TypeOK'
<1>1. CASE Expire(h)
  <2>1. PICK code \in DOMAIN invites[h] :
          invites' = [invites EXCEPT ![h][code].state = "expired"]
    BY <1>1 DEF Expire
  <2> DEFINE now == [invites[h] EXCEPT ![code].state = "expired"]
  <2>2. IsTable(now, Invite)
    BY StateType DEF TypeOK
  <2>3. invites' = [invites EXCEPT ![h] = now]
    BY <2>1
  <2> HIDE DEF now
  <2>4. DOMAIN invites' = Host /\ \A g \in Host : IsTable(invites'[g], Invite)
    BY <2>2, <2>3 DEF TypeOK
  <2> QED BY <1>1, <2>4 DEF Expire, TypeOK, process, net, served
<1>2. CASE Crash(h)
  <2>1. DOMAIN tokens' = Host /\ \A g \in Host : IsTable(tokens'[g], Nat)
    <3>1. IsTable(Loaded(file[h]), Nat)
      BY DEF TypeOK, Loaded, IsTable, empty
    <3> QED BY <1>2, <3>1 DEF Crash, TypeOK
  <2>2. DOMAIN req' = Thread /\ \A t \in Thread : IsRequest(req'[t])
    BY <1>2 DEF Crash, TypeOK, IsRequest
  <2>3. boots' \in Nat
    BY <1>2 DEF Crash, TypeOK
  <2> QED BY <1>2, <2>1, <2>2, <2>3 DEF Crash, TypeOK, tables, net
<1> QED BY <1>1, <1>2

-----------------------------------------------------------------------------
(* An invitation pairs once.  It is the UNIQUE nickname that makes it so,  *)
(* not the invitation's state: the row keeps the nickname the invitation   *)
(* gave it, revoked or not, so a second row of the same invitation would   *)
(* need a nickname that is taken.                                          *)

AliasesUnique ==
  \A h \in Host : \A p, q \in DOMAIN peers[h] :
    peers[h][p].alias = peers[h][q].alias => p = q

MadeFrom ==
  \A h \in Host : \A p \in DOMAIN peers[h] :
    peers[h][p].invite # None =>
      /\ peers[h][p].invite \in DOMAIN invites[h]
      /\ peers[h][p].alias = invites[h][peers[h][p].invite].alias

CodesMinted == \A h \in Host : \A code \in DOMAIN invites[h] : code <= minted

PairInv == TypeOK /\ KnownCodes /\ AliasesUnique /\ MadeFrom /\ CodesMinted

\* A handler that goes on to anything but the INSERT of a handshake.
LEMMA KnownKept ==
  ASSUME RequestsOK, KnownCodes, NEW t \in Thread, ~At(t, "handshake", "insert")',
         \A u \in Thread \ {t} : req'[u] = req[u],
         \A h \in Host : DOMAIN invites[h] \subseteq DOMAIN invites'[h]
  PROVE  KnownCodes'
<1> SUFFICES ASSUME NEW u \in Thread, At(u, "handshake", "insert")'
             PROVE  (req[u].call.code \in DOMAIN invites[req[u].on])'
  BY DEF KnownCodes
<1>1. u # t /\ req'[u] = req[u]
  BY DEF At
<1>2. At(u, "handshake", "insert")
  BY <1>1 DEF At
<1>3. req[u].on \in Host
  <2>1. req[u] \in HandshakeJob
    BY <1>2, RequestKinds DEF RequestsOK, At
  <2> QED BY <2>1 DEF HandshakeJob
<1> QED BY <1>1, <1>2, <1>3 DEF KnownCodes

\* What a handler that continues looks like, and the one that answers.
LEMMA ContinueIs ==
  ASSUME RequestsOK, NEW t \in Thread, NEW s, Continue(t, s)
  PROVE  req'[t] = s /\ \A u \in Thread \ {t} : req'[u] = req[u]
BY DEF RequestsOK, Continue

LEMMA AnswerIs ==
  ASSUME RequestsOK, NEW t \in Thread, Answer(t)
  PROVE  req'[t].op = "idle" /\ \A u \in Thread \ {t} : req'[u] = req[u]
BY ContinueIs DEF Answer, Idle

\* A handler that goes to its next statement is the same handler.
LEMMA GotoIs ==
  ASSUME RequestsOK, NEW t \in Thread, NEW at, Goto(t, at),
         req[t].op \in {"accept", "expose", "hide", "revoke", "handshake", "send", "inbox", "save"}
  PROVE  /\ req'[t].op = req[t].op /\ req'[t].at = at
         /\ \A u \in Thread \ {t} : req'[u] = req[u]
<1>1. IsRequest(req[t])
  BY DEF RequestsOK
<1>2. [req[t] EXCEPT !.at = at].op = req[t].op /\ [req[t] EXCEPT !.at = at].at = at
  BY <1>1, RequestKinds DEF AcceptJob, AdminJob, HandshakeJob, SendJob, InboxJob, SaveJob
<1> QED BY <1>2, ContinueIs DEF Goto

\* Whatever does not write the two tables.
LEMMA RowsKept ==
  ASSUME PairInv, UNCHANGED <<invites, peers>>, minted' \in Nat, minted <= minted'
  PROVE  AliasesUnique' /\ MadeFrom' /\ CodesMinted'
<1>1. minted \in Nat /\ \A h \in Host : DOMAIN invites[h] \subseteq Nat
  BY DEF PairInv, TypeOK, IsTable
<1>2. AliasesUnique' /\ MadeFrom'
  BY DEF PairInv, AliasesUnique, MadeFrom
<1>3. CodesMinted'
  BY <1>1 DEF PairInv, CodesMinted
<1> QED BY <1>2, <1>3

\* An UPDATE of an invitation's state.
LEMMA StateKept ==
  ASSUME PairInv, NEW h \in Host, NEW code, NEW state \in {"used", "expired"},
         invites' = [invites EXCEPT ![h][code].state = state],
         UNCHANGED <<peers, minted>>
  PROVE  /\ AliasesUnique' /\ MadeFrom' /\ CodesMinted'
         /\ \A g \in Host : DOMAIN invites[g] \subseteq DOMAIN invites'[g]
<1>1. ASSUME NEW g \in Host
      PROVE  /\ DOMAIN invites'[g] = DOMAIN invites[g]
             /\ \A c \in DOMAIN invites[g] : invites'[g][c].alias = invites[g][c].alias
  <2>1. DOMAIN invites'[g] = DOMAIN invites[g]
    BY DEF PairInv, TypeOK
  <2>2. ASSUME NEW c \in DOMAIN invites[g]
        PROVE  invites'[g][c].alias = invites[g][c].alias
    <3>1. invites[g][c] \in Invite
      BY DEF PairInv, TypeOK, IsTable
    <3>2. CASE g = h /\ c = code
      <4>1. invites'[g][c] = [invites[g][c] EXCEPT !.state = state]
        BY <3>2 DEF PairInv, TypeOK
      <4> QED BY <3>1, <4>1 DEF Invite
    <3>3. CASE ~(g = h /\ c = code)
      BY <3>3 DEF PairInv, TypeOK
    <3> QED BY <3>2, <3>3
  <2> QED BY <2>1, <2>2
<1>2. AliasesUnique'
  BY DEF PairInv, AliasesUnique
<1>3. MadeFrom'
  BY <1>1 DEF PairInv, MadeFrom
<1>4. CodesMinted'
  BY <1>1 DEF PairInv, CodesMinted
<1> QED BY <1>1, <1>2, <1>3, <1>4

\* An INSERT into peers with a nickname that is free.
LEMMA InsertKept ==
  ASSUME PairInv, NEW h \in Host, NEW p \in Nat, NEW row,
         ~AliasTaken(h, row.alias),
         row.invite # None => /\ row.invite \in DOMAIN invites[h]
                              /\ row.alias = invites[h][row.invite].alias,
         peers' = [peers EXCEPT ![h] = Put(@, p, row)],
         UNCHANGED invites, minted' \in Nat, minted <= minted'
  PROVE  AliasesUnique' /\ MadeFrom' /\ CodesMinted'
<1>1. \A g \in Host : g # h => peers'[g] = peers[g]
  BY DEF PairInv, TypeOK
<1>2. peers'[h] = Put(peers[h], p, row)
  BY DEF PairInv, TypeOK
<1>3. /\ DOMAIN peers'[h] = DOMAIN peers[h] \cup {p}
      /\ \A x \in DOMAIN peers'[h] : peers'[h][x] = IF x = p THEN row ELSE peers[h][x]
  BY <1>2 DEF Put
<1>4. AliasesUnique'
  <2> SUFFICES ASSUME NEW g \in Host, NEW x \in DOMAIN peers'[g], NEW y \in DOMAIN peers'[g],
                      peers'[g][x].alias = peers'[g][y].alias
               PROVE  x = y
    BY DEF AliasesUnique
  <2>1. CASE g # h
    BY <1>1, <2>1 DEF PairInv, AliasesUnique
  <2>2. CASE g = h
    <3>1. \A z \in DOMAIN peers[h] : peers[h][z].alias # row.alias
      BY DEF AliasTaken
    <3>2. CASE x = p
      BY <1>3, <2>2, <3>1, <3>2
    <3>3. CASE y = p
      BY <1>3, <2>2, <3>1, <3>3
    <3>4. CASE x # p /\ y # p
      BY <1>3, <2>2, <3>4 DEF PairInv, AliasesUnique
    <3> QED BY <3>2, <3>3, <3>4
  <2> QED BY <2>1, <2>2
<1>5. MadeFrom'
  <2> SUFFICES ASSUME NEW g \in Host, NEW x \in DOMAIN peers'[g], peers'[g][x].invite # None
               PROVE  /\ peers'[g][x].invite \in DOMAIN invites[g]
                      /\ peers'[g][x].alias = invites[g][peers'[g][x].invite].alias
    BY DEF MadeFrom
  <2>1. CASE g # h
    BY <1>1, <2>1 DEF PairInv, MadeFrom
  <2>2. CASE g = h /\ x = p
    BY <1>3, <2>2
  <2>3. CASE g = h /\ x # p
    BY <1>3, <2>3 DEF PairInv, MadeFrom
  <2> QED BY <2>1, <2>2, <2>3
<1>6. CodesMinted'
  <2>1. minted \in Nat /\ \A g \in Host : DOMAIN invites[g] \subseteq Nat
    BY DEF PairInv, TypeOK, IsTable
  <2> QED BY <2>1 DEF PairInv, CodesMinted
<1> QED BY <1>4, <1>5, <1>6

LEMMA InviteKeeps ==
  ASSUME PairInv, NEW t \in Thread, NEW h \in Host, InvitePeer(t, h)
  PROVE  PairInv'
<1>1. TypeOK'
  BY InviteType DEF PairInv
<1>2. PICK alias \in Alias :
        invites' = [invites EXCEPT ![h] = Put(@, minted + 1,
                                     [alias |-> alias, state |-> "open"])]
  BY DEF InvitePeer
<1> DEFINE row == [alias |-> alias, state |-> "open"]
<1>3. minted \in Nat /\ minted' = minted + 1 /\ UNCHANGED <<req, peers>>
  BY DEF InvitePeer, PairInv, TypeOK
<1>4. \A g \in Host : g # h => invites'[g] = invites[g]
  BY <1>2 DEF PairInv, TypeOK
<1>5. invites'[h] = Put(invites[h], minted + 1, row)
  BY <1>2 DEF PairInv, TypeOK
<1> HIDE DEF row
<1>6. /\ DOMAIN invites'[h] = DOMAIN invites[h] \cup {minted + 1}
      /\ \A c \in DOMAIN invites[h] : c # minted + 1 => invites'[h][c] = invites[h][c]
  BY <1>5 DEF Put
<1>7. \A c \in DOMAIN invites[h] : c \in Nat /\ c # minted + 1
  <2>1. \A c \in DOMAIN invites[h] : c \in Nat /\ c <= minted
    BY DEF PairInv, CodesMinted, TypeOK, IsTable
  <2> QED BY <1>3, <2>1
<1>8. KnownCodes'
  <2> SUFFICES ASSUME NEW u \in Thread, At(u, "handshake", "insert")
               PROVE  req[u].call.code \in DOMAIN invites'[req[u].on]
    BY <1>3 DEF KnownCodes, At
  <2>1. req[u].call.code \in DOMAIN invites[req[u].on]
    BY DEF PairInv, KnownCodes
  <2>2. req[u].on \in Host
    <3>1. req[u] \in HandshakeJob
      BY RequestKinds DEF PairInv, TypeOK, At
    <3> QED BY <3>1 DEF HandshakeJob
  <2> QED BY <1>4, <1>6, <2>1, <2>2
<1>9. AliasesUnique'
  BY <1>3 DEF PairInv, AliasesUnique
<1>10. MadeFrom'
  <2> SUFFICES ASSUME NEW g \in Host, NEW p \in DOMAIN peers[g], peers[g][p].invite # None
               PROVE  /\ peers[g][p].invite \in DOMAIN invites'[g]
                      /\ peers[g][p].alias = invites'[g][peers[g][p].invite].alias
    BY <1>3 DEF MadeFrom
  <2>1. /\ peers[g][p].invite \in DOMAIN invites[g]
        /\ peers[g][p].alias = invites[g][peers[g][p].invite].alias
    BY DEF PairInv, MadeFrom
  <2>2. CASE g = h
    BY <1>6, <1>7, <2>1, <2>2
  <2>3. CASE g # h
    BY <1>4, <2>1, <2>3
  <2> QED BY <2>2, <2>3
<1>11. CodesMinted'
  <2> SUFFICES ASSUME NEW g \in Host, NEW c \in DOMAIN invites'[g]
               PROVE  c <= minted + 1
    BY <1>3 DEF CodesMinted
  <2>1. \A x \in DOMAIN invites[g] : x \in Nat /\ x <= minted
    BY DEF PairInv, CodesMinted, TypeOK, IsTable
  <2>2. c \in DOMAIN invites[g] \/ c = minted + 1
    BY <1>4, <1>6
  <2> QED BY <1>3, <2>1, <2>2
<1> QED BY <1>1, <1>8, <1>9, <1>10, <1>11 DEF PairInv

\* Where the handlers go that leave the two tables alone.
LEMMA MovesOn ==
  ASSUME TypeOK, NEW t \in Thread,
         \/ \E h \in Host : AcceptBegin(t, h) \/ AdminBegin(t, h) \/ SendBegin(t, h)
         \/ AcceptCalls(t) \/ AcceptAnswered(t) \/ GiveUp(t) \/ TakeHandshake(t)
         \/ SaveStep(t) \/ Expose(t) \/ Hide(t) \/ RevokeExposures(t) \/ MailStep(t)
  PROVE  /\ req'[t].op # "handshake" \/ req'[t].at # "insert"
         /\ req'[t].op # "inbox" \/ req'[t].at # "commit" \/ FindChat(t)
         /\ \A u \in Thread \ {t} : req'[u] = req[u]
<1> USE TypeParts
<1>0. IsRequest(req[t])
  BY DEF TypeOK
<1>1. CASE \E h \in Host : AcceptBegin(t, h) \/ AdminBegin(t, h) \/ SendBegin(t, h)
  <2>1. CASE \E h \in Host : AcceptBegin(t, h)
    BY <2>1, ContinueIs DEF AcceptBegin
  <2>2. CASE \E h \in Host : AdminBegin(t, h)
    BY <2>2, ContinueIs DEF AdminBegin
  <2>3. CASE \E h \in Host : SendBegin(t, h)
    BY <2>3, ContinueIs DEF SendBegin
  <2> QED BY <1>1, <2>1, <2>2, <2>3
<1>2. CASE AcceptCalls(t)
  <2> DEFINE next == [req[t] EXCEPT !.at = "wait", !.inbound = minted + 1]
  <2>1. req[t] \in AcceptJob
    BY <1>0, <1>2, RequestKinds DEF AcceptCalls, At
  <2>2. next.op = "accept"
    BY <2>1 DEF AcceptJob
  <2>3. Continue(t, next) \/ Answer(t)
    BY <1>2 DEF AcceptCalls
  <2> HIDE DEF next
  <2> QED BY <2>2, <2>3, ContinueIs, AnswerIs
<1>3. CASE AcceptAnswered(t)
  <2>1. PICK token \in AnswerTo(req[t].inbound) :
          Continue(t, [req[t] EXCEPT !.at = "insert", !.outbound = token])
    BY <1>3 DEF AcceptAnswered
  <2> DEFINE next == [req[t] EXCEPT !.at = "insert", !.outbound = token]
  <2>2. req[t] \in AcceptJob
    BY <1>0, <1>3, RequestKinds DEF AcceptAnswered, At
  <2>3. next.op = "accept" /\ Continue(t, next)
    BY <2>1, <2>2 DEF AcceptJob
  <2> HIDE DEF next
  <2> QED BY <2>3, ContinueIs
<1>4. CASE GiveUp(t) \/ Write(t) \/ Expose(t) \/ Hide(t) \/ Record(t) \/ Receive(t)
  BY <1>4, AnswerIs DEF GiveUp, Write, Expose, Hide, Record, Receive
<1>5. CASE TakeHandshake(t)
  BY <1>5, ContinueIs DEF TakeHandshake
<1>6. CASE Remember(t) \/ Dump(t)
  <2>1. req[t] \in SaveJob(req[t].says)
    BY <1>0, <1>6, RequestKinds DEF Remember, Dump, At
  <2>2. PICK at, says : Continue(t, [req[t] EXCEPT !.at = at, !.says = says]) \/ Answer(t)
    BY <1>6 DEF Remember, Dump
  <2> DEFINE next == [req[t] EXCEPT !.at = at, !.says = says]
  <2>3. next.op = "save"
    BY <2>1 DEF SaveJob
  <2>4. Continue(t, next) \/ Answer(t)
    BY <2>2
  <2> HIDE DEF next
  <2> QED BY <2>3, <2>4, ContinueIs, AnswerIs
<1>7. CASE Truncate(t) \/ SendAnswered(t) \/ AuthenticatePeer(t) \/ FindChat(t)
  <2>1. req[t].op \in {"save", "send", "inbox"}
    BY <1>7 DEF Truncate, SendAnswered, AuthenticatePeer, FindChat, At
  <2> QED BY <1>7, <2>1, GotoIs, AnswerIs DEF Truncate, SendAnswered, AuthenticatePeer, FindChat
<1>8. CASE RevokeExposures(t)
  BY <1>8, ContinueIs DEF RevokeExposures, Save
<1>9. CASE Push(t)
  <2> DEFINE next == [req[t] EXCEPT !.at = "wait", !.mail = minted + 1]
  <2>1. req[t] \in SendJob
    BY <1>0, <1>9, RequestKinds DEF Push, At
  <2>2. next.op = "send"
    BY <2>1 DEF SendJob
  <2>3. Continue(t, next) \/ Answer(t)
    BY <1>9 DEF Push
  <2> HIDE DEF next
  <2> QED BY <2>2, <2>3, ContinueIs, AnswerIs
<1>10. CASE TakeMail(t)
  BY <1>10, ContinueIs DEF TakeMail
<1> QED BY <1>1, <1>2, <1>4, <1>5, <1>6, <1>7, <1>8, <1>9, <1>10, <1>3 DEF SaveStep, MailStep

\* The handlers whose steps leave the two tables alone.
LEMMA OthersKeep ==
  ASSUME PairInv, NEW t \in Thread,
         \/ \E h \in Host : AcceptBegin(t, h) \/ AdminBegin(t, h) \/ SendBegin(t, h)
         \/ AcceptCalls(t) \/ AcceptAnswered(t) \/ GiveUp(t) \/ TakeHandshake(t)
         \/ SaveStep(t) \/ Expose(t) \/ Hide(t) \/ RevokeExposures(t) \/ MailStep(t)
  PROVE  KnownCodes' /\ AliasesUnique' /\ MadeFrom' /\ CodesMinted'
<1> USE TypeParts DEF PairInv
<1>1. UNCHANGED <<invites, peers>>
  BY DEF AcceptBegin, AdminBegin, SendBegin, AcceptCalls, AcceptAnswered, GiveUp,
         TakeHandshake, SaveStep, Remember, Dump, Truncate, Write, Expose, Hide,
         RevokeExposures, MailStep, Push, SendAnswered, Record, TakeMail,
         AuthenticatePeer, FindChat, Receive, tables
<1>2. minted' \in {minted, minted + 1}
  BY DEF AcceptBegin, AdminBegin, SendBegin, AcceptCalls, AcceptAnswered, GiveUp,
         TakeHandshake, SaveStep, Remember, Dump, Truncate, Write, Expose, Hide,
         RevokeExposures, MailStep, Push, SendAnswered, Record, TakeMail,
         AuthenticatePeer, FindChat, Receive
<1>3. minted' \in Nat /\ minted <= minted'
  BY <1>2 DEF TypeOK
<1>4. KnownCodes'
  BY <1>1, MovesOn, KnownKept DEF At
<1> QED BY <1>1, <1>3, <1>4, RowsKept

\* The statements that write them.
LEMMA PairingKeeps ==
  ASSUME PairInv, NEW t \in Thread,
         \/ AcceptInsert(t) \/ HandshakeSelect(t) \/ HandshakeInsert(t)
         \/ HandshakeUse(t) \/ Revoke(t)
  PROVE  KnownCodes' /\ AliasesUnique' /\ MadeFrom' /\ CodesMinted'
<1> USE TypeParts DEF PairInv
<1> DEFINE s == req[t]
<1>1. minted \in Nat /\ minted <= minted /\ minted <= minted + 1 /\ minted + 1 \in Nat
  BY DEF TypeOK
<1>2. IsRequest(s)
  BY DEF TypeOK
<1>3. CASE AcceptInsert(t)
  <2>1. s \in AcceptJob
    BY <1>2, <1>3, RequestKinds DEF AcceptInsert, At
  <2>2. UNCHANGED <<invites, minted>>
    BY <1>3 DEF AcceptInsert
  <2>3. CASE Answer(t) /\ UNCHANGED peers
    <3>1. KnownCodes'
      BY <2>2, <2>3, AnswerIs, KnownKept DEF At
    <3> QED BY <1>1, <2>2, <2>3, <3>1, RowsKept
  <2>4. CASE ~(Answer(t) /\ UNCHANGED peers)
    <3> DEFINE row == NewPeer(s.alias, s.url, s.outbound, None)
    <3>1. /\ ~AliasTaken(s.on, s.alias)
          /\ peers' = [peers EXCEPT ![s.on] = Put(@, s.inbound, row)]
          /\ Continue(t, Save(s.on, s.inbound, s.outbound, None))
      BY <1>3, <2>4 DEF AcceptInsert
    <3>2. KnownCodes'
      BY <2>2, <3>1, ContinueIs, KnownKept DEF At, Save
    <3>3. row.alias = s.alias /\ row.invite = None
      BY DEF NewPeer
    <3>4. s.on \in Host /\ s.inbound \in Nat
      BY <2>1 DEF AcceptJob
    <3> HIDE DEF row
    <3> QED BY <1>1, <2>2, <3>1, <3>2, <3>3, <3>4, InsertKept
  <2> QED BY <2>3, <2>4
<1>4. CASE HandshakeSelect(t)
  <2>1. UNCHANGED <<invites, peers, minted>>
    BY <1>4 DEF HandshakeSelect, tables
  <2>2. CASE Answer(t)
    <3>1. KnownCodes'
      BY <2>1, <2>2, AnswerIs, KnownKept DEF At
    <3> QED BY <1>1, <2>1, <3>1, RowsKept
  <2>3. CASE ~Answer(t)
    <3>1. Usable(s.on, s.call.code) /\ Goto(t, "insert")
      BY <1>4, <2>3 DEF HandshakeSelect
    <3>2. s \in HandshakeJob /\ s.op = "handshake"
      BY <1>2, <1>4, RequestKinds DEF HandshakeSelect, At
    <3>3. req'[t].on = s.on /\ req'[t].call = s.call
      <4> DEFINE next == [s EXCEPT !.at = "insert"]
      <4>1. next.on = s.on /\ next.call = s.call /\ Continue(t, next)
        BY <3>1, <3>2 DEF HandshakeJob, Goto
      <4> HIDE DEF next
      <4> QED BY <4>1, ContinueIs
    <3>4. \A u \in Thread \ {t} : req'[u] = req[u]
      BY <3>1, <3>2, GotoIs
    <3>5. KnownCodes'
      BY <2>1, <3>1, <3>3, <3>4 DEF KnownCodes, Usable, At
    <3> QED BY <1>1, <2>1, <3>5, RowsKept
  <2> QED BY <2>2, <2>3
<1>5. CASE HandshakeInsert(t)
  <2>1. s \in HandshakeJob
    BY <1>2, <1>5, RequestKinds DEF HandshakeInsert, At
  <2>2. UNCHANGED invites
    BY <1>5 DEF HandshakeInsert
  <2>3. CASE Answer(t) /\ UNCHANGED <<peers, minted>>
    <3>1. KnownCodes'
      BY <2>2, <2>3, AnswerIs, KnownKept DEF At
    <3> QED BY <1>1, <2>2, <2>3, <3>1, RowsKept
  <2>4. CASE ~(Answer(t) /\ UNCHANGED <<peers, minted>>)
    <3> DEFINE alias == invites[s.on][s.call.code].alias
               row == NewPeer(alias, s.call.from, s.call.id, s.call.code)
               next == [s EXCEPT !.at = "use", !.inbound = minted + 1]
    <3>1. /\ ~AliasTaken(s.on, alias)
          /\ peers' = [peers EXCEPT ![s.on] = Put(@, minted + 1, row)]
          /\ minted' = minted + 1
          /\ Continue(t, next)
      BY <1>5, <2>4 DEF HandshakeInsert
    <3>2. next.at = "use"
      BY <2>1 DEF HandshakeJob
    <3>3. row.alias = alias /\ row.invite = s.call.code
      BY DEF NewPeer
    <3>4. s.on \in Host /\ s.call.code \in DOMAIN invites[s.on]
      BY <1>5, <2>1 DEF HandshakeJob, KnownCodes, HandshakeInsert
    <3> HIDE DEF row, next
    <3>5. KnownCodes'
      BY <2>2, <3>1, <3>2, ContinueIs, KnownKept DEF At
    <3>6. AliasesUnique' /\ MadeFrom' /\ CodesMinted'
      BY <1>1, <2>2, <3>1, <3>3, <3>4, InsertKept
    <3> QED BY <3>5, <3>6
  <2> QED BY <2>3, <2>4
<1>6. CASE HandshakeUse(t)
  <2>1. s.on \in Host
    <3>1. s \in HandshakeJob
      BY <1>2, <1>6, RequestKinds DEF HandshakeUse, At
    <3> QED BY <3>1 DEF HandshakeJob
  <2>2. /\ invites' = [invites EXCEPT ![s.on][s.call.code].state = "used"]
        /\ UNCHANGED <<peers, minted>>
        /\ Continue(t, Save(s.on, s.inbound, s.call.id, s.call.id))
    BY <1>6 DEF HandshakeUse
  <2>3. /\ AliasesUnique' /\ MadeFrom' /\ CodesMinted'
        /\ \A g \in Host : DOMAIN invites[g] \subseteq DOMAIN invites'[g]
    BY <2>1, <2>2, StateKept
  <2>4. KnownCodes'
    BY <2>2, <2>3, ContinueIs, KnownKept DEF At, Save
  <2> QED BY <2>3, <2>4
<1>7. CASE Revoke(t)
  <2>1. s \in AdminJob /\ s.op = "revoke"
    BY <1>2, <1>7, RequestKinds DEF Revoke, At
  <2>2. UNCHANGED <<invites, minted>>
    BY <1>7 DEF Revoke, served
  <2>3. KnownCodes'
    BY <1>7, <2>1, <2>2, GotoIs, KnownKept DEF Revoke, At
  <2>4. ASSUME NEW h \in Host
        PROVE  /\ DOMAIN peers'[h] = DOMAIN peers[h]
               /\ \A p \in DOMAIN peers[h] : /\ peers'[h][p].alias = peers[h][p].alias
                                             /\ peers'[h][p].invite = peers[h][p].invite
    <3> DEFINE now == [peers[s.on] EXCEPT ![s.peer] =
                         [@ EXCEPT !.state = "revoked", !.outbound = None]]
    <3>1. peers' = [peers EXCEPT ![s.on] = now]
      BY <1>7 DEF Revoke
    <3>2. DOMAIN now = DOMAIN peers[s.on]
      OBVIOUS
    <3>3. ASSUME NEW p \in DOMAIN peers[s.on], s.on \in Host
          PROVE  /\ now[p].alias = peers[s.on][p].alias
                 /\ now[p].invite = peers[s.on][p].invite
      <4>1. peers[s.on][p] \in PeerRow
        BY <3>3 DEF TypeOK, IsTable
      <4>2. CASE p = s.peer
        <5>1. now[p] = [peers[s.on][p] EXCEPT !.state = "revoked", !.outbound = None]
          BY <4>2
        <5> QED BY <4>1, <5>1 DEF PeerRow
      <4>3. CASE p # s.peer
        BY <4>3
      <4> QED BY <4>2, <4>3
    <3> HIDE DEF now
    <3> QED BY <3>1, <3>2, <3>3 DEF TypeOK
  <2>5. AliasesUnique' /\ MadeFrom'
    BY <2>2, <2>4 DEF AliasesUnique, MadeFrom
  <2>6. CodesMinted'
    BY <2>2 DEF CodesMinted
  <2> QED BY <2>3, <2>5, <2>6
<1> QED BY <1>3, <1>4, <1>5, <1>6, <1>7

LEMMA HostKeeps ==
  ASSUME PairInv, NEW h \in Host, Expire(h) \/ Crash(h)
  PROVE  KnownCodes' /\ AliasesUnique' /\ MadeFrom' /\ CodesMinted'
<1> USE DEF PairInv
<1>1. CASE Expire(h)
  <2>1. PICK code \in DOMAIN invites[h] :
          invites' = [invites EXCEPT ![h][code].state = "expired"]
    BY <1>1 DEF Expire
  <2>2. UNCHANGED <<peers, minted, req>>
    BY <1>1 DEF Expire
  <2>3. /\ AliasesUnique' /\ MadeFrom' /\ CodesMinted'
        /\ \A g \in Host : DOMAIN invites[g] \subseteq DOMAIN invites'[g]
    BY <2>1, <2>2, StateKept
  <2>4. KnownCodes'
    <3>1. \A u \in Thread : At(u, "handshake", "insert") => req[u].on \in Host
      BY RequestKinds DEF TypeOK, At, HandshakeJob
    <3> QED BY <2>2, <2>3, <3>1 DEF KnownCodes, At
  <2> QED BY <2>3, <2>4
<1>2. CASE Crash(h)
  <2>1. UNCHANGED <<invites, peers, minted>> /\ minted \in Nat /\ minted <= minted
    BY <1>2 DEF Crash, tables, TypeOK
  <2>2. \A u \in Thread : req'[u] \in {Idle, req[u]}
    BY <1>2 DEF Crash
  <2>3. KnownCodes'
    BY <2>1, <2>2 DEF KnownCodes, At, Idle
  <2> QED BY <2>1, <2>3, RowsKept
<1> QED BY <1>1, <1>2

LEMMA PairInit == Init => PairInv
<1> SUFFICES ASSUME Init PROVE PairInv
  OBVIOUS
<1>1. DOMAIN empty = {} /\ \A rows : IsTable(empty, rows)
  BY DEF IsTable, empty
<1>2. IsRequest(Idle) /\ Idle.op = "idle"
  BY DEF IsRequest, Idle
<1>3. EmptyFile.says = empty
  BY DEF EmptyFile
<1>4. TypeOK
  BY <1>1, <1>2, <1>3 DEF Init, TypeOK
<1>5. KnownCodes /\ AliasesUnique /\ MadeFrom /\ CodesMinted
  BY <1>1, <1>2 DEF Init, KnownCodes, At, AliasesUnique, MadeFrom, CodesMinted
<1> QED BY <1>4, <1>5 DEF PairInv

THEOREM PairingInvariant == Spec => []PairInv
<1>1. Init => PairInv
  BY PairInit
<1>2. PairInv /\ [Next]_vars => PairInv'
  <2> SUFFICES ASSUME PairInv, [Next]_vars PROVE PairInv'
    OBVIOUS
  <2>1. TypeOK /\ KnownCodes
    BY DEF PairInv
  <2>2. ASSUME NEW t \in Thread, Begin(t) PROVE PairInv'
    BY <2>1, <2>2, InviteKeeps, BeginType, OthersKeep DEF Begin, PairInv
  <2>3. ASSUME NEW t \in Thread, PairStep(t) PROVE PairInv'
    <3>1. TypeOK'
      BY <2>1, <2>3, QuietType, AcceptType, HandshakeType DEF PairStep
    <3>2. KnownCodes' /\ AliasesUnique' /\ MadeFrom' /\ CodesMinted'
      BY <2>3, OthersKeep, PairingKeeps DEF PairStep
    <3> QED BY <3>1, <3>2 DEF PairInv
  <2>4. ASSUME NEW t \in Thread, SaveStep(t) PROVE PairInv'
    <3>1. TypeOK'
      BY <2>1, <2>4, QuietType, SaveStepType DEF SaveStep
    <3> QED BY <2>4, <3>1, OthersKeep DEF PairInv
  <2>5. ASSUME NEW t \in Thread, AdminStep(t) PROVE PairInv'
    <3>1. TypeOK'
      BY <2>1, <2>5, AdminType DEF AdminStep
    <3> QED BY <2>5, <3>1, OthersKeep, PairingKeeps DEF AdminStep, PairInv
  <2>6. ASSUME NEW t \in Thread, MailStep(t) PROVE PairInv'
    <3>1. TypeOK'
      BY <2>1, <2>6, QuietType, MailType DEF MailStep
    <3> QED BY <2>6, <3>1, OthersKeep DEF PairInv
  <2>7. ASSUME NEW h \in Host, Expire(h) \/ Crash(h) PROVE PairInv'
    BY <2>1, <2>7, HostType, HostKeeps DEF PairInv
  <2>8. CASE UNCHANGED vars
    BY <2>8 DEF vars, tables, process, net, PairInv, TypeOK, KnownCodes, At, AliasesUnique,
                MadeFrom, CodesMinted
  <2> QED BY <2>2, <2>3, <2>4, <2>5, <2>6, <2>7, <2>8 DEF Next, Stop
<1> QED BY <1>1, <1>2, PTL DEF Spec

\* Every table holds rows of its schema and every handler is at a statement of
\* its own, whatever is lost, late or started again.
THEOREM PairingTypeCorrect == Spec => []TypeOK
<1>1. PairInv => TypeOK
  BY DEF PairInv
<1> QED BY <1>1, PairingInvariant, PTL

\* An invitation makes at most one peer, though the row and the mark on the
\* invitation are two statements and the process can die between them.
THEOREM InvitationPairsOnce == Spec => []PairsOnce
<1>1. PairInv => PairsOnce
  BY DEF PairInv, PairsOnce, AliasesUnique, MadeFrom
<1> QED BY <1>1, PairingInvariant, PTL

-----------------------------------------------------------------------------
(* Mail from a peer reaches exposed chats only.  A handler that found the  *)
(* exposure may commit after the owner has hidden the chat again: what is  *)
(* kept is that the owner did expose it, to this pairing.                  *)

ExposedWasOpened == \A h \in Host : exposures[h] \subseteq opened[h]

Delivering ==
  \A t \in Thread : At(t, "inbox", "commit") =>
    <<req[t].call.token, req[t].call.chat>> \in opened[req[t].on]

OpenInv == TypeOK /\ ExposedWasOpened /\ Delivering /\ NothingByDefault

\* A handler that goes on to anything but the commit of a mail.
LEMMA DeliveringKept ==
  ASSUME TypeOK, Delivering, NEW t \in Thread, ~At(t, "inbox", "commit")',
         \A u \in Thread \ {t} : req'[u] = req[u],
         \A h \in Host : opened[h] \subseteq opened'[h]
  PROVE  Delivering'
<1> SUFFICES ASSUME NEW u \in Thread, At(u, "inbox", "commit")'
             PROVE  (<<req[u].call.token, req[u].call.chat>> \in opened[req[u].on])'
  BY DEF Delivering
<1>1. u # t /\ req'[u] = req[u]
  BY DEF At
<1>2. At(u, "inbox", "commit")
  BY <1>1 DEF At
<1>3. req[u].on \in Host
  BY <1>2, RequestKinds DEF TypeOK, At, InboxJob
<1> QED BY <1>1, <1>2, <1>3 DEF Delivering

\* Handlers that write none of the three tables.
LEMMA OpenKept ==
  ASSUME OpenInv, NEW t \in Thread, UNCHANGED <<exposures, inbox, opened>>,
         ~At(t, "inbox", "commit")', \A u \in Thread \ {t} : req'[u] = req[u]
  PROVE  ExposedWasOpened' /\ Delivering' /\ NothingByDefault'
BY DeliveringKept DEF OpenInv, ExposedWasOpened, NothingByDefault

LEMMA OpenSteps ==
  ASSUME OpenInv, NEW t \in Thread, Begin(t) \/ PairStep(t) \/ SaveStep(t)
  PROVE  ExposedWasOpened' /\ Delivering' /\ NothingByDefault'
<1> USE TypeParts DEF OpenInv
<1>1. UNCHANGED <<exposures, inbox, opened>>
  BY DEF Begin, InvitePeer, AcceptBegin, AdminBegin, SendBegin, PairStep, AcceptCalls,
         AcceptAnswered, AcceptInsert, GiveUp, TakeHandshake, HandshakeSelect,
         HandshakeInsert, HandshakeUse, SaveStep, Remember, Dump, Truncate, Write,
         tables, served
<1>2. CASE \E h \in Host : InvitePeer(t, h)
  <2>1. UNCHANGED req
    BY <1>2 DEF InvitePeer
  <2> QED BY <1>1, <2>1 DEF ExposedWasOpened, Delivering, NothingByDefault, At
<1>3. CASE AcceptInsert(t) \/ HandshakeUse(t)
  <2>1. (\E s : Continue(t, s) /\ s.op = "save") \/ Answer(t)
    BY <1>3 DEF AcceptInsert, HandshakeUse, Save
  <2> QED BY <1>1, <2>1, ContinueIs, AnswerIs, OpenKept DEF At
<1>4. CASE HandshakeSelect(t)
  <2>1. (Goto(t, "insert") /\ req[t].op = "handshake") \/ Answer(t)
    BY <1>4 DEF HandshakeSelect, At
  <2> QED BY <1>1, <2>1, GotoIs, AnswerIs, OpenKept DEF At
<1>5. CASE HandshakeInsert(t)
  <2> DEFINE next == [req[t] EXCEPT !.at = "use", !.inbound = minted + 1]
  <2>1. req[t] \in HandshakeJob
    BY <1>5, RequestKinds DEF HandshakeInsert, At, TypeOK
  <2>2. next.op = "handshake"
    BY <2>1 DEF HandshakeJob
  <2>3. Continue(t, next) \/ Answer(t)
    BY <1>5 DEF HandshakeInsert
  <2> HIDE DEF next
  <2> QED BY <1>1, <2>2, <2>3, ContinueIs, AnswerIs, OpenKept DEF At
<1>6. CASE \/ \E h \in Host : AcceptBegin(t, h) \/ AdminBegin(t, h) \/ SendBegin(t, h)
           \/ AcceptCalls(t) \/ AcceptAnswered(t) \/ GiveUp(t) \/ TakeHandshake(t)
           \/ SaveStep(t)
  <2>1. req[t].op # "inbox"
    <3>1. CASE \E h \in Host : AcceptBegin(t, h) \/ AdminBegin(t, h) \/ SendBegin(t, h)
      <4>1. req[t] = Idle
        BY <3>1 DEF AcceptBegin, AdminBegin, SendBegin, Call
      <4> QED BY <4>1 DEF Idle
    <3>2. CASE AcceptCalls(t) \/ AcceptAnswered(t) \/ GiveUp(t)
      BY <3>2 DEF AcceptCalls, AcceptAnswered, GiveUp, At
    <3>3. CASE TakeHandshake(t)
      <4>1. req[t] = Idle
        BY <3>3 DEF TakeHandshake
      <4> QED BY <4>1 DEF Idle
    <3>4. CASE SaveStep(t)
      BY <3>4 DEF SaveStep, Remember, Dump, Truncate, Write, At
    <3> QED BY <1>6, <3>1, <3>2, <3>3, <3>4
  <2>2. ~FindChat(t)
    BY <2>1 DEF FindChat, At
  <2>3. ~At(t, "inbox", "commit")' /\ \A u \in Thread \ {t} : req'[u] = req[u]
    BY <1>6, <2>2, MovesOn DEF At
  <2> QED BY <1>1, <2>3, OpenKept
<1> QED BY <1>2, <1>3, <1>4, <1>5, <1>6 DEF Begin, PairStep

LEMMA OpenAdmin ==
  ASSUME OpenInv, NEW t \in Thread, AdminStep(t)
  PROVE  ExposedWasOpened' /\ Delivering' /\ NothingByDefault'
<1> USE TypeParts DEF OpenInv
<1>1. ~At(t, "inbox", "commit")' /\ \A u \in Thread \ {t} : req'[u] = req[u]
  <2>1. CASE Revoke(t)
    <3>1. Goto(t, "exposures") /\ req[t].op = "revoke"
      BY <2>1 DEF Revoke, At
    <3> QED BY <3>1, GotoIs DEF At
  <2>2. CASE RevokeExposures(t)
    BY <2>2, ContinueIs DEF RevokeExposures, Save, At
  <2>3. CASE Expose(t) \/ Hide(t)
    BY <2>3, AnswerIs DEF Expose, Hide, At
  <2> QED BY <2>1, <2>2, <2>3 DEF AdminStep
<1>2. /\ \A h \in Host : opened[h] \subseteq opened'[h]
      /\ UNCHANGED inbox
  BY DEF AdminStep, Expose, Hide, Revoke, RevokeExposures, TypeOK, served
<1>3. ExposedWasOpened'
  <2>1. CASE Expose(t)
    <3> DEFINE pair == {<<req[t].peer, req[t].chat>>}
    <3>1. /\ exposures' = [exposures EXCEPT ![req[t].on] = @ \cup pair]
          /\ opened' = [opened EXCEPT ![req[t].on] = @ \cup pair]
      BY <2>1 DEF Expose
    <3> HIDE DEF pair
    <3> QED BY <3>1 DEF ExposedWasOpened, TypeOK
  <2>2. CASE ~Expose(t)
    BY <2>2 DEF AdminStep, Hide, Revoke, RevokeExposures, ExposedWasOpened, TypeOK, served
  <2> QED BY <2>1, <2>2
<1>4. Delivering'
  BY <1>1, <1>2, DeliveringKept
<1>5. NothingByDefault'
  BY <1>2 DEF NothingByDefault
<1> QED BY <1>3, <1>4, <1>5

LEMMA OpenMail ==
  ASSUME OpenInv, NEW t \in Thread, MailStep(t)
  PROVE  ExposedWasOpened' /\ Delivering' /\ NothingByDefault'
<1> USE TypeParts DEF OpenInv
<1> DEFINE s == req[t]
<1>1. CASE Receive(t)
  <2>1. s \in InboxJob
    BY <1>1, RequestKinds DEF Receive, At, TypeOK
  <2>2. s.on \in Host /\ <<s.call.token, s.call.chat>> \in opened[s.on]
    BY <1>1, <2>1 DEF Receive, Delivering, InboxJob
  <2>3. UNCHANGED <<exposures, opened>>
    BY <1>1 DEF Receive, served
  <2>4. Delivering'
    BY <1>1, <2>3, AnswerIs, DeliveringKept DEF Receive, At
  <2>5. NothingByDefault'
    <3> DEFINE row == [peer |-> s.call.token, chat |-> s.call.chat]
    <3>1. inbox' = [inbox EXCEPT ![s.on] = Put(@, s.call.id, row)]
      BY <1>1 DEF Receive
    <3>2. <<row.peer, row.chat>> \in opened[s.on]
      BY <2>2
    <3> HIDE DEF row
    <3> QED BY <2>3, <3>1, <3>2 DEF NothingByDefault, TypeOK, Put
  <2> QED BY <2>3, <2>4, <2>5 DEF ExposedWasOpened
<1>2. CASE FindChat(t)
  <2>1. UNCHANGED <<exposures, inbox, opened>>
    BY <1>2 DEF FindChat, tables, served
  <2>2. CASE Answer(t)
    BY <2>1, <2>2, AnswerIs, OpenKept DEF At
  <2>3. CASE ~Answer(t)
    <3>1. IsExposed(s.on, s.call.token, s.call.chat) /\ Goto(t, "commit") /\ s.op = "inbox"
      BY <1>2, <2>3 DEF FindChat, At
    <3>2. s \in InboxJob
      BY <3>1, RequestKinds DEF TypeOK
    <3>3. <<s.call.token, s.call.chat>> \in opened[s.on]
      BY <3>1, <3>2 DEF IsExposed, ExposedWasOpened, InboxJob
    <3>4. req'[t].on = s.on /\ req'[t].call = s.call
      <4> DEFINE next == [s EXCEPT !.at = "commit"]
      <4>1. next.on = s.on /\ next.call = s.call /\ Continue(t, next)
        BY <3>1, <3>2 DEF InboxJob, Goto
      <4> HIDE DEF next
      <4> QED BY <4>1, ContinueIs
    <3>5. \A u \in Thread \ {t} : req'[u] = req[u]
      BY <3>1, GotoIs
    <3>6. Delivering'
      BY <2>1, <3>3, <3>4, <3>5 DEF Delivering, At
    <3> QED BY <2>1, <3>6 DEF ExposedWasOpened, NothingByDefault
  <2> QED BY <2>2, <2>3
<1>3. CASE ~Receive(t) /\ ~FindChat(t)
  <2>1. UNCHANGED <<exposures, inbox, opened>>
    BY <1>3 DEF MailStep, Push, SendAnswered, Record, TakeMail, AuthenticatePeer, tables, served
  <2> QED BY <1>3, <2>1, MovesOn, OpenKept DEF At
<1> QED BY <1>1, <1>2, <1>3

\* Mail from a peer only ever reaches chats its owner exposed to this pairing.
THEOREM NothingExposedByDefault == Spec => []NothingByDefault
<1>1. Init => OpenInv
  BY PairInit DEF Init, OpenInv, PairInv, ExposedWasOpened, Delivering, NothingByDefault,
                  At, Idle, empty
<1>2. OpenInv /\ TypeOK' /\ [Next]_vars => OpenInv'
  <2> SUFFICES ASSUME OpenInv, TypeOK', [Next]_vars
               PROVE  ExposedWasOpened' /\ Delivering' /\ NothingByDefault'
    BY DEF OpenInv
  <2>1. CASE \E t \in Thread : \/ Begin(t) \/ PairStep(t) \/ SaveStep(t) \/ AdminStep(t)
                               \/ MailStep(t)
    BY <2>1, OpenSteps, OpenAdmin, OpenMail
  <2>2. CASE \E h \in Host : Expire(h) \/ Crash(h)
    <3>1. UNCHANGED <<exposures, inbox, opened>>
      BY <2>2 DEF Expire, Crash, tables, served
    <3>2. \A t \in Thread : req'[t] \in {Idle, req[t]}
      BY <2>2 DEF Expire, Crash
    <3> QED BY <3>1, <3>2 DEF OpenInv, ExposedWasOpened, Delivering, NothingByDefault, At, Idle
  <2>3. CASE UNCHANGED vars
    BY <2>3 DEF vars, tables, OpenInv, ExposedWasOpened, Delivering, NothingByDefault, At
  <2> QED BY <2>1, <2>2, <2>3 DEF Next, Stop
<1>3. OpenInv => NothingByDefault
  BY DEF OpenInv
<1> QED BY <1>1, <1>2, <1>3, PairingTypeCorrect, PTL DEF Spec

-----------------------------------------------------------------------------
(* What a call and its answer have to do with the two rows of a pairing.   *)

\* The call with this id waits to be taken up, or is being served.
Carries(s, c) == s.op \in {"handshake", "inbox"} /\ s.call = c

Travels(c) == c \in posts \/ \E t \in Thread : Carries(req[t], c)

\* A handshake that has its row owes the token q to the call id.
Owes(s, id, q) ==
  \/ s.op = "save" /\ s.answers = id /\ s.peer = q
  \/ s.op = "handshake" /\ s.at = "use" /\ s.call.id = id /\ s.inbound = q

Owed(id, q) == \E t \in Thread : Owes(req[t], id, q)

\* At g, the token q stands for h, who is given p in return.
Fits(h, g, p, q) ==
  /\ q \in DOMAIN peers[g]
  /\ peers[g][q].state = "active" => peers[g][q].outbound = p /\ peers[g][q].url = h

Received(id) == \E g \in Host : id \in DOMAIN inbox[g]

-----------------------------------------------------------------------------
(* The inductive invariant.                                                *)

\* What was drawn was drawn before now, so that the next number is fresh.
Past ==
  /\ \A c \in PairCall \cup MailCall : Travels(c) => c.id <= minted
  /\ \A id, q \in Nat : Owed(id, q) => id <= minted
  /\ \A id \in DOMAIN answers : id <= minted
  /\ \A g \in Host : \A q \in DOMAIN peers[g] : q <= minted

\* A handshake is served where it was sent.
OnDuty(s) == s.op = "handshake" => s.on = s.call.to

\* An accept that has presented its token.
Presented(s) == s.op = "accept" /\ s.at \in {"wait", "insert"}

\* Its token is nobody's yet, and of no other accept.
Alone(t) ==
  Presented(req[t]) =>
    /\ req[t].inbound <= minted
    /\ \A g \in Host : req[t].inbound \notin DOMAIN peers[g]
    /\ \A u \in Thread \ {t} : Presented(req[u]) => req[u].inbound # req[t].inbound

\* Whatever comes back for it is the token of a row that fits.
Understood(s) ==
  /\ s.op = "accept" /\ s.at = "wait" =>
       /\ \A c \in PairCall \cup MailCall :
            Travels(c) /\ c.id = s.inbound => c \in PairCall /\ c.from = s.on /\ c.to = s.url
       /\ \A q \in Nat : Owed(s.inbound, q) => Fits(s.on, s.url, s.inbound, q)
       /\ s.inbound \in DOMAIN answers => Fits(s.on, s.url, s.inbound, answers[s.inbound])
  /\ s.op = "accept" /\ s.at = "insert" => Fits(s.on, s.url, s.inbound, s.outbound)

\* Whatever comes back for a mail says it was received.
Delivered(s) ==
  /\ s.op = "send" /\ s.at = "wait" =>
       /\ s.mail <= minted
       /\ \A c \in PairCall \cup MailCall : Travels(c) /\ c.id = s.mail => c \in MailCall
       /\ \A q \in Nat : ~Owed(s.mail, q)
       /\ s.mail \in DOMAIN answers => Received(s.mail)
  /\ s.op = "send" /\ s.at = "record" => Received(s.mail)

Known(t) == OnDuty(req[t]) /\ Alone(t) /\ Understood(req[t]) /\ Delivered(req[t])

PeerInv ==
  /\ TypeOK /\ Past /\ Crossed /\ RecordedWasReceived
  /\ \A t \in Thread : Known(t)

-----------------------------------------------------------------------------
(* What the other handlers can rely on when t takes a step.                *)

\* Rows stay, and stay as they are until they are revoked.
RowsStay ==
  \A g \in Host : \A q \in DOMAIN peers[g] :
    /\ q \in DOMAIN peers'[g]
    /\ peers'[g][q].state = "active" => peers'[g][q] = peers[g][q]

\* A new row is named by a number just drawn, or by the token of its accept.
NewRows(t) ==
  \A g \in Host : \A q \in DOMAIN peers'[g] \ DOMAIN peers[g] :
    \/ minted < q /\ q <= minted' /\ peers'[g][q].invite # None
    \/ /\ t \in Thread /\ Presented(req[t]) /\ q = req[t].inbound
       /\ Fits(g, peers[g][q].url, q, peers[g][q].outbound)'

\* A call is new, and an answer comes of a call.
Calls ==
  /\ \A c \in PairCall \cup MailCall :
       Travels(c)' => Travels(c) \/ (minted < c.id /\ c.id <= minted')
  /\ \A id, q \in Nat :
       Owed(id, q)' =>
         \/ Owed(id, q)
         \/ \E c \in PairCall : Travels(c) /\ c.id = id /\ Fits(c.from, c.to, id, q)'
  /\ \A id \in DOMAIN answers' :
       \/ id \in DOMAIN answers /\ answers'[id] = answers[id]
       \/ Owed(id, answers'[id])
       \/ \E c \in MailCall : Travels(c) /\ c.id = id /\ Received(id)'

Mails ==
  /\ \A id : Received(id) => Received(id)'
  /\ \A h \in Host : \A m \in messages'[h] : m \in messages[h] \/ Received(m)

\* Only t goes on; the others wait, or die.
Turn(t) ==
  /\ \A u \in Thread \ {t} : req'[u] \in {req[u], Idle}
  /\ t \in Thread /\ Presented(req'[t]) =>
       \/ Presented(req[t]) /\ req'[t].inbound = req[t].inbound
       \/ minted < req'[t].inbound /\ req'[t].inbound <= minted'

Moves(t) ==
  minted <= minted' /\ RowsStay /\ NewRows(t) /\ Calls /\ Mails /\ Turn(t)

\* What fits a pairing still does.
LEMMA FitsStays ==
  ASSUME RowsStay, NEW h, NEW g \in Host, NEW p, NEW q, Fits(h, g, p, q)
  PROVE  Fits(h, g, p, q)'
BY DEF RowsStay, Fits

\* The types the argument needs.
LEMMA Typed ==
  ASSUME TypeOK
  PROVE  /\ minted \in Nat
         /\ DOMAIN answers \subseteq Nat /\ \A id \in DOMAIN answers : answers[id] \in Nat
         /\ \A g \in Host : /\ DOMAIN peers[g] \subseteq Nat
                            /\ \A q \in DOMAIN peers[g] : peers[g][q] \in PeerRow
         /\ \A t \in Thread :
              /\ req[t].op = "accept" => req[t] \in AcceptJob
              /\ req[t].op \in {"expose", "hide", "revoke"} => req[t] \in AdminJob
              /\ req[t].op = "handshake" => req[t] \in HandshakeJob
              /\ req[t].op = "send" => req[t] \in SendJob
              /\ req[t].op = "inbox" => req[t] \in InboxJob
              /\ req[t].op = "save" => req[t] \in SaveJob(req[t].says)
<1>1. \A t \in Thread : IsRequest(req[t])
  BY DEF TypeOK
<1>2. \A t \in Thread :
        /\ req[t].op = "accept" => req[t] \in AcceptJob
        /\ req[t].op \in {"expose", "hide", "revoke"} => req[t] \in AdminJob
        /\ req[t].op = "handshake" => req[t] \in HandshakeJob
        /\ req[t].op = "send" => req[t] \in SendJob
        /\ req[t].op = "inbox" => req[t] \in InboxJob
        /\ req[t].op = "save" => req[t] \in SaveJob(req[t].says)
  BY <1>1, RequestKinds
<1>3. minted \in Nat /\ IsTable(answers, Nat) /\ \A g \in Host : IsTable(peers[g], PeerRow)
  BY DEF TypeOK
<1> QED BY <1>2, <1>3 DEF IsTable

LEMMA PastStays ==
  ASSUME PeerInv, TypeOK', NEW t, Moves(t)
  PROVE  Past'
<1> DEFINE s == req[t]
<1>0. minted \in Nat /\ minted' \in Nat /\ minted <= minted' /\ TypeOK /\ Past
  BY DEF PeerInv, Moves, TypeOK
<1>1. (\A c \in PairCall \cup MailCall : Travels(c) => c.id <= minted)'
  <2> SUFFICES ASSUME NEW c \in PairCall \cup MailCall, Travels(c)' PROVE c.id <= minted'
    OBVIOUS
  <2>1. c.id \in Nat
    BY DEF PairCall, MailCall
  <2>2. Travels(c) \/ c.id <= minted'
    BY DEF Moves, Calls
  <2>3. Travels(c) => c.id <= minted
    BY <1>0 DEF Past
  <2> QED BY <1>0, <2>1, <2>2, <2>3
<1>2. (\A id, q \in Nat : Owed(id, q) => id <= minted)'
  <2> SUFFICES ASSUME NEW id \in Nat, NEW q \in Nat, Owed(id, q)' PROVE id <= minted'
    OBVIOUS
  <2>1. Owed(id, q) \/ \E c \in PairCall : Travels(c) /\ c.id = id
    BY DEF Moves, Calls
  <2>2. id <= minted
    BY <1>0, <2>1 DEF Past
  <2> QED BY <1>0, <2>2
<1>3. (\A id \in DOMAIN answers : id <= minted)'
  <2> SUFFICES ASSUME NEW id \in DOMAIN answers' PROVE id <= minted'
    OBVIOUS
  <2>1. id \in Nat /\ answers'[id] \in Nat
    BY Typed DEF TypeOK, IsTable
  <2>2. \/ id \in DOMAIN answers \/ Owed(id, answers'[id])
        \/ \E c \in MailCall : Travels(c) /\ c.id = id
    BY DEF Moves, Calls
  <2>3. id <= minted
    BY <1>0, <2>1, <2>2 DEF Past
  <2> QED BY <1>0, <2>1, <2>3
<1>4. (\A g \in Host : \A q \in DOMAIN peers[g] : q <= minted)'
  <2> SUFFICES ASSUME NEW g \in Host, NEW q \in DOMAIN peers'[g] PROVE q <= minted'
    OBVIOUS
  <2>1. q \in Nat
    BY DEF TypeOK, IsTable
  <2>2. CASE q \in DOMAIN peers[g]
    BY <1>0, <2>1, <2>2 DEF Past
  <2>3. CASE q \notin DOMAIN peers[g]
    <3>1. q <= minted' \/ (t \in Thread /\ Presented(req[t]) /\ q = req[t].inbound)
      BY <2>3 DEF Moves, NewRows
    <3>2. t \in Thread /\ Presented(req[t]) => req[t].inbound <= minted
      BY DEF PeerInv, Known, Alone
    <3> QED BY <1>0, <2>1, <3>1, <3>2
  <2> QED BY <2>2, <2>3
<1> QED BY <1>1, <1>2, <1>3, <1>4 DEF Past

\* What comes back for an accept stays the token of a row that fits.
LEMMA UnderstoodStays ==
  ASSUME PeerInv, TypeOK', NEW t, Moves(t), NEW s \in AcceptJob, Understood(s),
         Presented(s) => s.inbound <= minted
  PROVE  Understood(s)'
<1>0. minted \in Nat /\ s.inbound \in Nat /\ s.url \in Host /\ RowsStay
  BY DEF PeerInv, Moves, TypeOK, AcceptJob
<1>1. CASE s.at = "wait"
  <2>1. s.op = "accept" /\ s.inbound <= minted
    BY <1>1 DEF Presented, AcceptJob
  <2>2. ASSUME NEW c \in PairCall \cup MailCall, Travels(c)', c.id = s.inbound
        PROVE  c \in PairCall /\ c.from = s.on /\ c.to = s.url
    <3>1. Travels(c)
      BY <1>0, <2>1, <2>2 DEF Moves, Calls
    <3> QED BY <1>1, <2>1, <2>2, <3>1 DEF Understood
  <2>3. ASSUME NEW q \in Nat, Owed(s.inbound, q)' PROVE Fits(s.on, s.url, s.inbound, q)'
    <3>1. CASE Owed(s.inbound, q)
      <4>1. Fits(s.on, s.url, s.inbound, q)
        BY <1>1, <2>1, <3>1 DEF Understood
      <4> QED BY <1>0, <4>1, FitsStays
    <3>2. CASE ~Owed(s.inbound, q)
      <4>1. PICK c \in PairCall : Travels(c) /\ c.id = s.inbound
                                  /\ Fits(c.from, c.to, s.inbound, q)'
        BY <1>0, <2>3, <3>2 DEF Moves, Calls
      <4>2. c.from = s.on /\ c.to = s.url
        BY <1>1, <2>1, <4>1 DEF Understood
      <4> QED BY <4>1, <4>2
    <3> QED BY <3>1, <3>2
  <2>4. ASSUME s.inbound \in DOMAIN answers'
        PROVE  Fits(s.on, s.url, s.inbound, answers[s.inbound])'
    <3>0. answers'[s.inbound] \in Nat
      BY <2>4 DEF TypeOK, IsTable
    <3> SUFFICES ASSUME NEW q \in Nat, q = answers'[s.inbound]
                 PROVE  Fits(s.on, s.url, s.inbound, q)'
      BY <3>0 DEF Fits
    <3>1. CASE s.inbound \in DOMAIN answers /\ q = answers[s.inbound]
      <4>1. Fits(s.on, s.url, s.inbound, q)
        BY <1>1, <2>1, <3>1 DEF Understood
      <4> QED BY <1>0, <4>1, FitsStays
    <3>2. CASE Owed(s.inbound, q)
      <4>1. Fits(s.on, s.url, s.inbound, q)
        BY <1>1, <2>1, <3>2 DEF Understood
      <4> QED BY <1>0, <4>1, FitsStays
    <3>3. CASE \E c \in MailCall : Travels(c) /\ c.id = s.inbound
      <4>1. PICK c \in MailCall : Travels(c) /\ c.id = s.inbound
        BY <3>3
      <4>2. c \in PairCall
        BY <1>1, <2>1, <4>1 DEF Understood
      <4> QED BY <4>1, <4>2 DEF PairCall, MailCall
    <3> QED BY <2>4, <3>1, <3>2, <3>3 DEF Moves, Calls
  <2> QED BY <1>1, <2>2, <2>3, <2>4 DEF Understood
<1>2. CASE s.at = "insert"
  <2>1. Fits(s.on, s.url, s.inbound, s.outbound)
    BY <1>2 DEF Understood, AcceptJob
  <2>2. Fits(s.on, s.url, s.inbound, s.outbound)'
    BY <1>0, <2>1, FitsStays
  <2> QED BY <1>2, <2>2 DEF Understood
<1>3. CASE s.at = "alias"
  BY <1>3 DEF Understood
<1> QED BY <1>1, <1>2, <1>3 DEF AcceptJob

\* And what comes back for a mail says it was received.
LEMMA DeliveredStays ==
  ASSUME PeerInv, TypeOK', NEW t, Moves(t), NEW s \in SendJob, Delivered(s)
  PROVE  Delivered(s)'
<1>0. minted \in Nat /\ minted' \in Nat /\ minted <= minted' /\ s.mail \in Nat
  BY DEF PeerInv, Moves, TypeOK, SendJob
<1>1. CASE s.at = "wait"
  <2>1. s.op = "send" /\ s.mail <= minted
    BY <1>1 DEF Delivered, SendJob
  <2>2. ASSUME NEW c \in PairCall \cup MailCall, Travels(c)', c.id = s.mail
        PROVE  c \in MailCall
    <3>1. Travels(c)
      BY <1>0, <2>1, <2>2 DEF Moves, Calls
    <3> QED BY <1>1, <2>1, <2>2, <3>1 DEF Delivered
  <2>3. ASSUME NEW q \in Nat, Owed(s.mail, q)' PROVE FALSE
    <3>1. ~Owed(s.mail, q)
      BY <1>1, <2>1 DEF Delivered
    <3>2. PICK c \in PairCall : Travels(c) /\ c.id = s.mail
      BY <1>0, <2>3, <3>1 DEF Moves, Calls
    <3>3. c \in MailCall
      BY <1>1, <2>1, <3>2 DEF Delivered
    <3> QED BY <3>2, <3>3 DEF PairCall, MailCall
  <2>4. ASSUME s.mail \in DOMAIN answers' PROVE Received(s.mail)'
    <3>1. answers'[s.mail] \in Nat
      BY <2>4 DEF TypeOK, IsTable
    <3>2. ~Owed(s.mail, answers'[s.mail])
      BY <1>1, <2>1, <3>1 DEF Delivered
    <3>3. s.mail \in DOMAIN answers => Received(s.mail)
      BY <1>1, <2>1 DEF Delivered
    <3> QED BY <2>4, <3>2, <3>3 DEF Moves, Calls, Mails
  <2> QED BY <1>0, <1>1, <2>1, <2>2, <2>3, <2>4 DEF Delivered
<1>2. CASE s.at = "record"
  BY <1>2 DEF Delivered, Moves, Mails, SendJob
<1>3. CASE s.at = "push"
  BY <1>3 DEF Delivered
<1> QED BY <1>1, <1>2, <1>3 DEF SendJob

\* What another handler knows stays true.
LEMMA OthersKnow ==
  ASSUME PeerInv, TypeOK', NEW t, Moves(t), NEW u \in Thread \ {t}
  PROVE  Known(u)'
<1>0. minted \in Nat /\ minted' \in Nat /\ minted <= minted' /\ TypeOK /\ Past /\ Known(u)
  BY DEF PeerInv, Moves, TypeOK
<1>1. CASE req'[u] = Idle
  BY <1>1 DEF Known, OnDuty, Alone, Presented, Understood, Delivered, Idle
<1>2. CASE req'[u] = req[u]
  <2>1. OnDuty(req[u])'
    BY <1>0, <1>2 DEF Known, OnDuty
  <2>2. Alone(u)'
    <3> DEFINE s == req[u]
    <3> SUFFICES ASSUME Presented(s)
                 PROVE  /\ s.inbound <= minted'
                        /\ \A g \in Host : s.inbound \notin DOMAIN peers'[g]
                        /\ \A v \in Thread \ {u} :
                             Presented(req'[v]) => req'[v].inbound # s.inbound
      BY <1>2 DEF Alone
    <3>1. s.inbound \in Nat /\ s.inbound <= minted
      <4>1. s \in AcceptJob
        BY <1>0, Typed DEF Presented
      <4> QED BY <1>0, <4>1 DEF Known, Alone, AcceptJob
    <3>2. \A g \in Host : s.inbound \notin DOMAIN peers[g]
      BY <1>0 DEF Known, Alone
    <3>3. \A v \in Thread \ {u} : Presented(req[v]) => req[v].inbound # s.inbound
      BY <1>0 DEF Known, Alone
    <3>4. ASSUME NEW g \in Host, s.inbound \in DOMAIN peers'[g] PROVE FALSE
      BY <1>0, <3>1, <3>2, <3>3, <3>4 DEF Moves, NewRows
    <3>5. ASSUME NEW v \in Thread \ {u}, Presented(req'[v]) PROVE req'[v].inbound # s.inbound
      <4>1. CASE v = t
        BY <1>0, <3>1, <3>3, <3>5, <4>1 DEF Moves, Turn
      <4>2. CASE v # t
        <5>1. req'[v] = req[v]
          BY <3>5, <4>2 DEF Moves, Turn, Presented, Idle
        <5> QED BY <3>3, <3>5, <5>1
      <4> QED BY <4>1, <4>2
    <3> QED BY <1>0, <3>1, <3>4, <3>5
  <2>3. Understood(req[u])'
    <3>1. PICK s : s = req[u]
      OBVIOUS
    <3>2. CASE s.op = "accept"
      <4>1. s \in AcceptJob
        BY <1>0, <3>1, <3>2, Typed
      <4>2. Understood(s) /\ (Presented(s) => s.inbound <= minted)
        BY <1>0, <3>1 DEF Known, Alone
      <4>3. Understood(s)'
        BY <4>1, <4>2, UnderstoodStays
      <4>4. s = req'[u]
        BY <1>2, <3>1
      <4> QED BY <4>3, <4>4 DEF Understood, Fits
    <3>3. CASE s.op # "accept"
      BY <1>2, <3>1, <3>3 DEF Understood
    <3> QED BY <3>2, <3>3
  <2>4. Delivered(req[u])'
    <3>1. PICK s : s = req[u]
      OBVIOUS
    <3>2. CASE s.op = "send"
      <4>1. s \in SendJob
        BY <1>0, <3>1, <3>2, Typed
      <4>2. Delivered(s)'
        BY <1>0, <3>1, <4>1, DeliveredStays DEF Known
      <4>3. s = req'[u]
        BY <1>2, <3>1
      <4> QED BY <4>2, <4>3 DEF Delivered, Received
    <3>3. CASE s.op # "send"
      BY <1>2, <3>1, <3>3 DEF Delivered
    <3> QED BY <3>2, <3>3
  <2> QED BY <2>1, <2>2, <2>3, <2>4 DEF Known
<1> QED BY <1>1, <1>2 DEF Moves, Turn

\* A step the others can rely on keeps the invariant, if t knows enough.
LEMMA MovesKeep ==
  ASSUME PeerInv, TypeOK', NEW t, Moves(t), t \in Thread => Known(t)'
  PROVE  PeerInv'
<1>1. Past' /\ \A u \in Thread : Known(u)'
  BY PastStays, OthersKnow
<1>2. Crossed'
  <2> SUFFICES ASSUME NEW h \in Host, NEW p \in DOMAIN peers'[h],
                      peers'[h][p].state = "active", peers'[h][p].invite = None
               PROVE  Fits(h, peers[h][p].url, p, peers[h][p].outbound)'
    BY DEF Crossed, Active, Fits
  <2>1. CASE p \in DOMAIN peers[h]
    <3>1. PICK r : r = peers[h][p]
      OBVIOUS
    <3>2. peers'[h][p] = r
      BY <2>1, <3>1 DEF Moves, RowsStay
    <3>3. r.url \in Host
      BY <2>1, <3>1, Typed DEF PeerInv, PeerRow
    <3>4. Fits(h, r.url, p, r.outbound)
      BY <2>1, <3>1, <3>2 DEF PeerInv, Crossed, Active, Fits
    <3>5. Fits(h, r.url, p, r.outbound)'
      BY <3>3, <3>4, FitsStays DEF Moves
    <3> QED BY <3>2, <3>5 DEF Fits
  <2>2. CASE p \notin DOMAIN peers[h]
    BY <2>2 DEF Moves, NewRows, Fits
  <2> QED BY <2>1, <2>2
<1>3. RecordedWasReceived'
  <2> SUFFICES ASSUME NEW h \in Host, NEW m \in messages'[h] PROVE Received(m)'
    BY DEF RecordedWasReceived, Received
  <2>1. m \in messages[h] => Received(m)
    BY DEF PeerInv, RecordedWasReceived, Received
  <2>2. Received(m)
    BY <2>1 DEF Moves, Mails
  <2> QED BY <2>2 DEF Moves, Mails
<1> QED BY <1>1, <1>2, <1>3 DEF PeerInv

\* Handlers wait or die, and nothing moves between instances.
LEMMA StillKeeps ==
  ASSUME PeerInv, TypeOK', UNCHANGED <<peers, inbox, messages, posts, answers>>,
         minted <= minted', \A u \in Thread : req'[u] \in {req[u], Idle}
  PROVE  PeerInv'
<1>1. PICK t : t \notin Thread
  BY NoSetContainsEverything
<1>2. \A u \in Thread : req'[u] = req[u] \/ req'[u].op = "idle"
  BY DEF Idle
<1>3. Calls
  <2>1. \A c : Travels(c)' => Travels(c)
    BY <1>2 DEF Travels, Carries
  <2>2. \A id, q : Owed(id, q)' => Owed(id, q)
    BY <1>2 DEF Owed, Owes
  <2> QED BY <2>1, <2>2 DEF Calls
<1>4. RowsStay /\ NewRows(t) /\ Mails
  BY DEF RowsStay, NewRows, Mails, Received
<1> QED BY <1>1, <1>3, <1>4, MovesKeep DEF Moves, Turn

\* A handler that answers, or goes on to something that is no business of
\* the other side.
LEMMA QuietKeeps ==
  ASSUME PeerInv, TypeOK', UNCHANGED <<peers, inbox, messages, answers, minted>>,
         posts' \subseteq posts, NEW t \in Thread, NEW s, Continue(t, s),
         s = Idle \/
           /\ \A c : Carries(s, c) => Travels(c)
           /\ \A id, q \in Nat : Owes(s, id, q) => Owed(id, q)
           /\ ~Presented(s) /\ OnDuty(s) /\ (s.op = "send" => s.at = "push")
  PROVE  PeerInv'
<1>1. req'[t] = s /\ \A u \in Thread \ {t} : req'[u] = req[u]
  BY ContinueIs, TypeParts DEF PeerInv
<1>2. Calls
  <2>1. \A c : Travels(c)' => Travels(c)
    BY <1>1 DEF Travels, Carries, Idle
  <2>2. ASSUME NEW id \in Nat, NEW q \in Nat, NEW u \in Thread, Owes(req'[u], id, q)
        PROVE  Owed(id, q)
    <3>1. CASE u = t
      BY <1>1, <2>2, <3>1 DEF Owes, Idle
    <3>2. CASE u # t
      BY <1>1, <2>2, <3>2 DEF Owed
    <3> QED BY <3>1, <3>2
  <2> QED BY <2>1, <2>2 DEF Calls, Owed, Owes
<1>3. RowsStay /\ NewRows(t) /\ Mails
  BY DEF RowsStay, NewRows, Mails, Received
<1>4. minted <= minted'
  BY DEF PeerInv, TypeOK
<1>5. ~Presented(req'[t])
  BY <1>1 DEF Presented, Idle
<1>6. Known(t)'
  BY <1>1 DEF Known, OnDuty, Alone, Presented, Understood, Delivered, Idle
<1> QED BY <1>1, <1>2, <1>3, <1>4, <1>5, <1>6, MovesKeep DEF Moves, Turn

LEMMA BeginKeeps ==
  ASSUME PeerInv, TypeOK', NEW t \in Thread, Begin(t)
  PROVE  PeerInv'
<1>1. PICK h \in Host : InvitePeer(t, h) \/ AcceptBegin(t, h) \/ AdminBegin(t, h)
                        \/ SendBegin(t, h)
  BY DEF Begin
<1>2. CASE InvitePeer(t, h)
  <2>1. minted <= minted'
    BY <1>2 DEF InvitePeer, PeerInv, TypeOK
  <2> QED BY <1>2, <2>1, StillKeeps DEF InvitePeer, net
<1>3. CASE ~InvitePeer(t, h)
  <2>1. UNCHANGED <<peers, inbox, messages, answers, minted, posts>>
    BY <1>1, <1>3 DEF AcceptBegin, AdminBegin, SendBegin, tables, net
  <2>2. PICK s : /\ Continue(t, s)
                 /\ s.op \in {"accept", "expose", "hide", "revoke", "send"}
                 /\ s.op = "accept" => s.at = "alias"
                 /\ s.op = "send" => s.at = "push"
    <3>1. CASE AcceptBegin(t, h)
      BY <3>1 DEF AcceptBegin
    <3>2. CASE AdminBegin(t, h)
      BY <3>2 DEF AdminBegin
    <3>3. CASE SendBegin(t, h)
      BY <3>3 DEF SendBegin
    <3> QED BY <1>1, <1>3, <3>1, <3>2, <3>3
  <2> QED BY <2>1, <2>2, QuietKeeps DEF Carries, Owes, Presented, OnDuty
<1> QED BY <1>2, <1>3

LEMMA SavingKeeps ==
  ASSUME PeerInv, TypeOK', NEW t \in Thread, Remember(t) \/ Dump(t) \/ Truncate(t)
  PROVE  PeerInv'
<1>1. UNCHANGED <<peers, inbox, messages, answers, minted, posts>>
  BY DEF Remember, Dump, Truncate, tables, net
<1>2. req[t] \in SaveJob(req[t].says) /\ req[t].op = "save"
  BY Typed DEF Remember, Dump, Truncate, At, PeerInv
<1>3. PICK s : /\ Continue(t, s)
               /\ s = Idle \/ (s.op = "save" /\ s.answers = req[t].answers /\ s.peer = req[t].peer)
  <2>1. CASE Truncate(t)
    <3>1. Goto(t, "write")
      BY <2>1 DEF Truncate
    <3> QED BY <1>2, <3>1 DEF Goto, SaveJob
  <2>2. CASE Remember(t) \/ Dump(t)
    <3>1. PICK at, says : Continue(t, [req[t] EXCEPT !.at = at, !.says = says]) \/ Answer(t)
      BY <2>2 DEF Remember, Dump
    <3> DEFINE next == [req[t] EXCEPT !.at = at, !.says = says]
    <3>2. next.op = "save" /\ next.answers = req[t].answers /\ next.peer = req[t].peer
      BY <1>2 DEF SaveJob
    <3>3. Continue(t, next) \/ Continue(t, Idle)
      BY <3>1 DEF Answer
    <3> HIDE DEF next
    <3> QED BY <3>2, <3>3
  <2> QED BY <2>1, <2>2
<1>4. \A id, q : Owes(s, id, q) => Owed(id, q)
  BY <1>2, <1>3 DEF Owes, Owed, Idle
<1> QED BY <1>1, <1>3, <1>4, QuietKeeps DEF Carries, Presented, OnDuty

\* The handshake has written peer-tokens.json and answers.
LEMMA WriteKeeps ==
  ASSUME PeerInv, TypeOK', NEW t \in Thread, Write(t)
  PROVE  PeerInv'
<1> DEFINE s == req[t]
<1>1. s \in SaveJob(s.says) /\ s.op = "save"
  BY Typed DEF Write, At, PeerInv
<1>2. UNCHANGED <<peers, inbox, messages, posts, minted>> /\ req'[t] = Idle
      /\ \A u \in Thread \ {t} : req'[u] = req[u]
  BY ContinueIs, TypeParts DEF Write, Answer, PeerInv, tables, net
<1>3. Calls
  <2>1. \A c : Travels(c)' => Travels(c)
    BY <1>2 DEF Travels, Carries, Idle
  <2>2. \A id, q : Owed(id, q)' => Owed(id, q)
    BY <1>2 DEF Owed, Owes, Idle
  <2>3. ASSUME NEW id \in DOMAIN answers'
        PROVE  (id \in DOMAIN answers /\ answers'[id] = answers[id]) \/ Owed(id, answers'[id])
    <3>1. answers' = IF s.answers = None THEN answers ELSE Put(answers, s.answers, s.peer)
      BY DEF Write
    <3>2. CASE id = s.answers /\ s.answers # None
      <4>1. answers'[id] = s.peer
        BY <3>1, <3>2 DEF Put
      <4> QED BY <1>1, <3>2, <4>1 DEF Owed, Owes
    <3>3. CASE ~(id = s.answers /\ s.answers # None)
      BY <2>3, <3>1, <3>3 DEF Put
    <3> QED BY <3>2, <3>3
  <2> QED BY <2>1, <2>2, <2>3 DEF Calls
<1>4. RowsStay /\ NewRows(t) /\ Mails /\ minted <= minted'
  BY <1>2 DEF RowsStay, NewRows, Mails, Received, PeerInv, TypeOK
<1>5. Known(t)' /\ ~Presented(req'[t])
  BY <1>2 DEF Known, OnDuty, Alone, Presented, Understood, Delivered, Idle
<1> QED BY <1>2, <1>3, <1>4, <1>5, MovesKeep DEF Moves, Turn

\* A new call goes out: its token, or its mail, is a fresh number.
LEMMA CallKeeps ==
  ASSUME PeerInv, TypeOK', NEW t \in Thread,
         NEW c \in PairCall \cup MailCall, NEW s \in AcceptJob \cup SendJob,
         Continue(t, s), posts' = posts \cup {c}, minted' = minted + 1, c.id = minted + 1,
         UNCHANGED <<peers, inbox, messages, answers>>, s.at = "wait",
         s \in AcceptJob =>
           s.inbound = c.id /\ c \in PairCall /\ c.from = s.on /\ c.to = s.url,
         s \in SendJob => s.mail = c.id /\ c \in MailCall
  PROVE  PeerInv'
<1>0. minted \in Nat /\ Past /\ TypeOK
  BY DEF PeerInv, TypeOK
<1>1. req'[t] = s /\ \A u \in Thread \ {t} : req'[u] = req[u]
  BY ContinueIs, TypeParts DEF PeerInv
<1>2. s.op \in {"accept", "send"}
  BY DEF AcceptJob, SendJob
<1>3. \A d : Travels(d)' => Travels(d) \/ d = c
  BY <1>1, <1>2 DEF Travels, Carries
<1>4. \A id, q : Owed(id, q)' => Owed(id, q)
  BY <1>1, <1>2 DEF Owed, Owes
<1>5. Calls
  BY <1>0, <1>3, <1>4 DEF Calls
<1>6. RowsStay /\ NewRows(t) /\ Mails
  BY DEF RowsStay, NewRows, Mails, Received
<1>7. \A d \in PairCall \cup MailCall : Travels(d)' /\ d.id = c.id => d = c
  <2> SUFFICES ASSUME NEW d \in PairCall \cup MailCall, Travels(d), d.id = c.id
               PROVE  FALSE
    BY <1>3
  <2>1. d.id <= minted
    BY <1>0 DEF Past
  <2> QED BY <1>0, <2>1
<1>8. /\ \A q \in Nat : ~Owed(c.id, q)'
      /\ c.id \notin DOMAIN answers'
  BY <1>0, <1>4 DEF Past
<1>9. CASE s \in AcceptJob
  <2>1. s.op = "accept" /\ s.inbound = c.id
    BY <1>9 DEF AcceptJob
  <2>2. Turn(t)
    BY <1>0, <1>1, <2>1 DEF Turn, Presented
  <2>3. Alone(t)'
    <3>1. \A g \in Host : s.inbound \notin DOMAIN peers[g]
      BY <1>0, <2>1 DEF Past
    <3>2. ASSUME NEW u \in Thread \ {t}, Presented(req[u]) PROVE req[u].inbound # s.inbound
      <4>1. req[u].inbound <= minted /\ req[u] \in AcceptJob
        BY <1>0, <3>2, Typed DEF PeerInv, Known, Alone, Presented
      <4> QED BY <1>0, <2>1, <4>1 DEF AcceptJob
    <3> QED BY <1>0, <1>1, <2>1, <3>1, <3>2 DEF Alone
  <2>4. Understood(s)'
    BY <1>7, <1>8, <1>9, <2>1 DEF Understood
  <2>5. Known(t)'
    BY <1>1, <2>1, <2>3, <2>4 DEF Known, OnDuty, Delivered, Understood, Fits
  <2> QED BY <1>0, <1>5, <1>6, <2>2, <2>5, <1>1, MovesKeep DEF Moves, Turn
<1>10. CASE s \in SendJob
  <2>1. s.op = "send" /\ s.mail = c.id
    BY <1>10 DEF SendJob
  <2>2. Turn(t)
    BY <1>1, <2>1 DEF Turn, Presented
  <2>3. Delivered(s)'
    BY <1>0, <1>7, <1>8, <1>10, <2>1 DEF Delivered
  <2>4. Known(t)'
    BY <1>1, <2>1, <2>3 DEF Known, OnDuty, Alone, Presented, Understood, Delivered, Received
  <2> QED BY <1>0, <1>5, <1>6, <2>2, <2>4, MovesKeep DEF Moves
<1> QED BY <1>9, <1>10

\* An answer has come: what it says is what was known of it.
LEMMA AnsweredKeeps ==
  ASSUME PeerInv, TypeOK', NEW t \in Thread, AcceptAnswered(t) \/ SendAnswered(t)
  PROVE  PeerInv'
<1>0. TypeOK /\ Known(t) /\ minted \in Nat
  BY DEF PeerInv, TypeOK
<1>1. UNCHANGED <<peers, inbox, messages, answers, minted, posts>>
  BY DEF AcceptAnswered, SendAnswered, tables, net
<1>2. RowsStay /\ NewRows(t) /\ Mails /\ minted <= minted'
  BY <1>0, <1>1 DEF RowsStay, NewRows, Mails, Received
<1>3. ASSUME NEW s, Continue(t, s), s.op \in {"accept", "send"}
      PROVE  Calls /\ req'[t] = s /\ \A u \in Thread \ {t} : req'[u] = req[u]
  <2>1. req'[t] = s /\ \A u \in Thread \ {t} : req'[u] = req[u]
    BY <1>0, <1>3, ContinueIs, TypeParts
  <2>2. \A c : Travels(c)' => Travels(c)
    BY <1>1, <1>3, <2>1 DEF Travels, Carries
  <2>3. \A id, q : Owed(id, q)' => Owed(id, q)
    BY <1>3, <2>1 DEF Owed, Owes
  <2> QED BY <1>1, <2>1, <2>2, <2>3 DEF Calls
<1>4. CASE AcceptAnswered(t)
  <2>1. PICK token \in AnswerTo(req[t].inbound) :
          Continue(t, [req[t] EXCEPT !.at = "insert", !.outbound = token])
    BY <1>4 DEF AcceptAnswered
  <2> DEFINE s == req[t]
             next == [s EXCEPT !.at = "insert", !.outbound = token]
  <2>2. s \in AcceptJob /\ s.op = "accept" /\ s.at = "wait"
    BY <1>0, <1>4, Typed DEF AcceptAnswered, At
  <2>3. s.inbound \in DOMAIN answers /\ token = answers[s.inbound]
    BY <2>1 DEF AnswerTo
  <2>4. Fits(s.on, s.url, s.inbound, token)
    BY <1>0, <2>2, <2>3 DEF Known, Understood
  <2>5. /\ next.op = "accept" /\ next.at = "insert" /\ next.on = s.on /\ next.url = s.url
        /\ next.inbound = s.inbound /\ next.outbound = token
    BY <2>2 DEF AcceptJob
  <2>6. Continue(t, next)
    BY <2>1
  <2> HIDE DEF next
  <2>7. Calls /\ req'[t] = next /\ \A u \in Thread \ {t} : req'[u] = req[u]
    BY <1>3, <2>5, <2>6
  <2>8. Turn(t)
    BY <2>2, <2>5, <2>7 DEF Turn, Presented
  <2>9. Alone(t)'
    BY <1>0, <1>1, <2>2, <2>5, <2>7 DEF Known, Alone, Presented
  <2>10. Understood(req[t])'
    BY <1>1, <2>4, <2>5, <2>7 DEF Understood, Fits
  <2>11. Known(t)'
    BY <2>5, <2>7, <2>9, <2>10 DEF Known, OnDuty, Delivered
  <2> QED BY <1>2, <2>7, <2>8, <2>11, MovesKeep DEF Moves
<1>5. CASE SendAnswered(t)
  <2> DEFINE s == req[t]
             next == [s EXCEPT !.at = "record"]
  <2>1. s \in SendJob /\ s.op = "send" /\ s.at = "wait"
    BY <1>0, <1>5, Typed DEF SendAnswered, At
  <2>2. s.mail \in DOMAIN answers
    BY <1>5 DEF SendAnswered, AnswerTo
  <2>3. Received(s.mail)
    BY <1>0, <2>1, <2>2 DEF Known, Delivered
  <2>4. next.op = "send" /\ next.at = "record" /\ next.mail = s.mail
    BY <2>1 DEF SendJob
  <2>5. Continue(t, next)
    BY <1>5 DEF SendAnswered, Goto
  <2> HIDE DEF next
  <2>6. Calls /\ req'[t] = next /\ \A u \in Thread \ {t} : req'[u] = req[u]
    BY <1>3, <2>4, <2>5
  <2>7. Turn(t)
    BY <2>4, <2>6 DEF Turn, Presented
  <2>8. Known(t)'
    BY <1>1, <2>3, <2>4, <2>6 DEF Known, OnDuty, Alone, Presented, Understood, Delivered, Received
  <2> QED BY <1>2, <2>6, <2>7, <2>8, MovesKeep DEF Moves
<1> QED BY <1>4, <1>5

\* The side that accepted writes its row.
LEMMA AcceptInsertKeeps ==
  ASSUME PeerInv, TypeOK', NEW t \in Thread, AcceptInsert(t)
  PROVE  PeerInv'
<1> DEFINE s == req[t]
<1>0. TypeOK /\ Known(t) /\ minted \in Nat
  BY DEF PeerInv, TypeOK
<1>1. UNCHANGED <<inbox, messages, answers, minted, posts>>
  BY DEF AcceptInsert, tables, net
<1>2. s \in AcceptJob /\ s.op = "accept" /\ s.at = "insert"
  BY <1>0, Typed DEF AcceptInsert, At
<1>3. CASE Answer(t) /\ UNCHANGED peers
  BY <1>1, <1>3, QuietKeeps DEF Answer
<1>4. CASE ~(Answer(t) /\ UNCHANGED peers)
  <2> DEFINE row == NewPeer(s.alias, s.url, s.outbound, None)
             next == Save(s.on, s.inbound, s.outbound, None)
  <2>1. peers' = [peers EXCEPT ![s.on] = Put(@, s.inbound, row)] /\ Continue(t, next)
    BY <1>4 DEF AcceptInsert
  <2>2. row.url = s.url /\ row.outbound = s.outbound
    BY DEF NewPeer
  <2>3. next.op = "save" /\ next.answers = None
    BY DEF Save
  <2>4. s.on \in Host /\ s.url \in Host /\ s.inbound \in Nat
    BY <1>2 DEF AcceptJob
  <2> HIDE DEF row, next
  <2>5. req'[t] = next /\ \A u \in Thread \ {t} : req'[u] = req[u]
    BY <1>0, <2>1, ContinueIs, TypeParts
  <2>6. s.inbound \notin DOMAIN peers[s.on]
    BY <1>0, <1>2, <2>4 DEF Known, Alone, Presented
  <2>7. /\ \A g \in Host : g # s.on => peers'[g] = peers[g]
        /\ DOMAIN peers'[s.on] = DOMAIN peers[s.on] \cup {s.inbound}
        /\ \A q \in DOMAIN peers[s.on] : peers'[s.on][q] = peers[s.on][q]
        /\ peers'[s.on][s.inbound] = row
    <3>1. DOMAIN peers = Host
      BY <1>0 DEF TypeOK
    <3> QED BY <2>1, <2>4, <2>6, <3>1 DEF Put
  <2>8. RowsStay
    BY <2>7 DEF RowsStay
  <2>9. ASSUME NEW h, NEW g \in Host, NEW p, NEW q, Fits(h, g, p, q) PROVE Fits(h, g, p, q)'
    BY <2>8, <2>9, FitsStays
  <2>10. NewRows(t)
    <3> SUFFICES ASSUME NEW g \in Host, NEW q \in DOMAIN peers'[g] \ DOMAIN peers[g]
                 PROVE  /\ t \in Thread /\ Presented(req[t]) /\ q = req[t].inbound
                        /\ Fits(g, peers[g][q].url, q, peers[g][q].outbound)'
      BY DEF NewRows
    <3>1. g = s.on /\ q = s.inbound
      BY <2>7
    <3>2. Presented(req[t]) /\ Fits(s.on, s.url, s.inbound, s.outbound)
      BY <1>0, <1>2 DEF Known, Understood, Presented
    <3>3. PICK h, url, p, out : h = s.on /\ url = s.url /\ p = s.inbound /\ out = s.outbound
      OBVIOUS
    <3>4. Fits(h, url, p, out)'
      BY <2>4, <2>9, <3>2, <3>3
    <3>5. peers'[h][p] = row
      BY <2>7, <3>3
    <3> QED BY <2>2, <3>1, <3>2, <3>3, <3>4, <3>5 DEF Fits
  <2>11. Calls
    <3>1. \A c : Travels(c)' => Travels(c)
      BY <1>1, <2>3, <2>5 DEF Travels, Carries
    <3>2. \A id, q \in Nat : Owed(id, q)' => Owed(id, q)
      BY <2>3, <2>5 DEF Owed, Owes
    <3> QED BY <1>1, <3>1, <3>2 DEF Calls
  <2>12. Mails /\ minted <= minted'
    BY <1>0, <1>1 DEF Mails, Received
  <2>13. Turn(t)
    BY <2>3, <2>5 DEF Turn, Presented
  <2>14. Known(t)'
    BY <2>3, <2>5 DEF Known, OnDuty, Alone, Presented, Understood, Delivered
  <2> QED BY <2>8, <2>10, <2>11, <2>12, <2>13, <2>14, MovesKeep DEF Moves
<1> QED BY <1>3, <1>4

LEMMA AcceptKeeps ==
  ASSUME PeerInv, TypeOK', NEW t \in Thread, AcceptCalls(t) \/ GiveUp(t)
  PROVE  PeerInv'
<1>0. TypeOK /\ minted \in Nat /\ minted + 1 \in Nat
  <2>1. TypeOK /\ minted \in Nat
    BY DEF PeerInv, TypeOK
  <2> QED BY <2>1
<1>1. CASE GiveUp(t)
  BY <1>1, QuietKeeps DEF GiveUp, Answer, tables, net
<1>2. CASE AcceptCalls(t)
  <2> DEFINE s == req[t]
             call == [op |-> "handshake", id |-> minted + 1, to |-> s.url, from |-> s.on,
                      code |-> s.code]
             next == [s EXCEPT !.at = "wait", !.inbound = minted + 1]
  <2>1. s \in AcceptJob
    BY <1>0, <1>2, Typed DEF AcceptCalls, At
  <2>2. UNCHANGED <<peers, inbox, messages, answers>>
    BY <1>2 DEF AcceptCalls, tables
  <2>3. CASE Answer(t) /\ UNCHANGED <<posts, minted>>
    BY <2>2, <2>3, QuietKeeps DEF Answer
  <2>4. CASE ~(Answer(t) /\ UNCHANGED <<posts, minted>>)
    <3>1. posts' = posts \cup {call} /\ minted' = minted + 1 /\ Continue(t, next)
      BY <1>2, <2>4 DEF AcceptCalls
    <3>2. /\ next \in AcceptJob /\ next.op = "accept" /\ next.at = "wait"
          /\ next.inbound = minted + 1 /\ next.on = s.on /\ next.url = s.url
      <4>1. next \in AcceptJob
        BY <1>0, <2>1 DEF AcceptJob
      <4>2. /\ next.op = "accept" /\ next.at = "wait" /\ next.inbound = minted + 1
            /\ next.on = s.on /\ next.url = s.url
        BY <2>1 DEF AcceptJob
      <4> QED BY <4>1, <4>2
    <3>4. next \notin SendJob
      <4> HIDE DEF next
      <4> QED BY <3>2 DEF SendJob
    <3>3. /\ call \in PairCall /\ call.id = minted + 1
          /\ call.from = s.on /\ call.to = s.url
      BY <1>0, <2>1 DEF AcceptJob, PairCall
    <3> HIDE DEF next, call
    <3> QED BY <2>2, <3>1, <3>2, <3>3, <3>4, CallKeeps
  <2> QED BY <2>3, <2>4
<1> QED BY <1>1, <1>2

\* The side that was called: the row it writes fits the call.
LEMMA HandshakeInsertKeeps ==
  ASSUME PeerInv, TypeOK', NEW t \in Thread, HandshakeInsert(t)
  PROVE  PeerInv'
<1> DEFINE s == req[t]
<1>0. TypeOK /\ Known(t) /\ Past /\ minted \in Nat
  BY DEF PeerInv, TypeOK
<1>1. UNCHANGED <<inbox, messages, answers, posts>>
  BY DEF HandshakeInsert, net
<1>2. s \in HandshakeJob /\ s.op = "handshake"
  BY <1>0, Typed DEF HandshakeInsert, At
<1>3. CASE Answer(t) /\ UNCHANGED <<peers, minted>>
  BY <1>1, <1>3, QuietKeeps DEF Answer
<1>4. CASE ~(Answer(t) /\ UNCHANGED <<peers, minted>>)
  <2>0. PICK n : n = minted + 1
    OBVIOUS
  <2> DEFINE row == NewPeer(invites[s.on][s.call.code].alias, s.call.from, s.call.id,
                            s.call.code)
             next == [s EXCEPT !.at = "use", !.inbound = n]
  <2>1. /\ peers' = [peers EXCEPT ![s.on] = Put(@, n, row)]
        /\ minted' = n /\ Continue(t, next)
    BY <1>4, <2>0 DEF HandshakeInsert
  <2>2. row.url = s.call.from /\ row.outbound = s.call.id /\ row.invite = s.call.code
    BY DEF NewPeer
  <2>3. /\ next.op = "handshake" /\ next.at = "use" /\ next.on = s.on
        /\ next.call = s.call /\ next.inbound = n
    BY <1>2 DEF HandshakeJob
  <2>4. s.on \in Host /\ s.call \in PairCall /\ s.on = s.call.to
    BY <1>0, <1>2 DEF HandshakeJob, Known, OnDuty
  <2> HIDE DEF row, next
  <2>5. req'[t] = next /\ \A u \in Thread \ {t} : req'[u] = req[u]
    BY <1>0, <2>1, ContinueIs, TypeParts
  <2>6. \A g \in Host : n \notin DOMAIN peers[g]
    BY <1>0, <2>0 DEF Past
  <2>7. /\ \A g \in Host : g # s.on => peers'[g] = peers[g]
        /\ DOMAIN peers'[s.on] = DOMAIN peers[s.on] \cup {n}
        /\ \A q \in DOMAIN peers[s.on] : peers'[s.on][q] = peers[s.on][q]
        /\ peers'[s.on][n] = row
    <3>1. DOMAIN peers = Host
      BY <1>0 DEF TypeOK
    <3> QED BY <2>1, <2>4, <2>6, <3>1 DEF Put
  <2>8. RowsStay
    BY <2>7 DEF RowsStay
  <2>9. NewRows(t)
    <3> SUFFICES ASSUME NEW g \in Host, NEW q \in DOMAIN peers'[g] \ DOMAIN peers[g]
                 PROVE  minted < q /\ q <= minted' /\ peers'[g][q].invite # None
      BY DEF NewRows
    <3>1. g = s.on /\ q = n
      BY <2>7
    <3>2. s.call.code \in Nat
      BY <2>4 DEF PairCall
    <3> QED BY <1>0, <2>0, <2>1, <2>2, <2>7, <3>1, <3>2
  <2>10. Calls
    <3>1. \A c : Travels(c)' => Travels(c)
      BY <1>1, <1>2, <2>3, <2>5 DEF Travels, Carries
    <3>2. PICK c \in PairCall : c = s.call
      BY <2>4
    <3>3. Travels(c) /\ Fits(c.from, c.to, c.id, n)'
      BY <1>2, <2>2, <2>4, <2>7, <3>2 DEF Travels, Carries, Fits
    <3>4. ASSUME NEW id \in Nat, NEW q \in Nat, Owed(id, q)', ~Owed(id, q)
          PROVE  c.id = id /\ q = n
      <4>1. PICK u \in Thread : Owes(req'[u], id, q)
        BY <3>4 DEF Owed, Owes
      <4>2. u = t
        BY <2>5, <3>4, <4>1 DEF Owed
      <4> QED BY <2>3, <2>5, <3>2, <4>1, <4>2 DEF Owes
    <3>5. \A id, q \in Nat :
            Owed(id, q)' =>
              \/ Owed(id, q)
              \/ \E d \in PairCall : Travels(d) /\ d.id = id /\ Fits(d.from, d.to, id, q)'
      BY <3>3, <3>4 DEF Fits
    <3> QED BY <1>1, <3>1, <3>5 DEF Calls
  <2>11. Mails /\ minted <= minted'
    BY <1>0, <1>1, <2>0, <2>1 DEF Mails, Received
  <2>12. Turn(t)
    BY <2>3, <2>5 DEF Turn, Presented
  <2>13. Known(t)'
    BY <2>3, <2>4, <2>5 DEF Known, OnDuty, Alone, Presented, Understood, Delivered
  <2> QED BY <2>8, <2>9, <2>10, <2>11, <2>12, <2>13, MovesKeep DEF Moves
<1> QED BY <1>3, <1>4

LEMMA HandshakeKeeps ==
  ASSUME PeerInv, TypeOK', NEW t \in Thread,
         TakeHandshake(t) \/ HandshakeSelect(t) \/ HandshakeUse(t)
  PROVE  PeerInv'
<1>0. TypeOK /\ Known(t)
  BY DEF PeerInv
<1>1. CASE TakeHandshake(t)
  <2>1. PICK c \in posts :
          /\ c.op = "handshake" /\ posts' = posts \ {c}
          /\ Continue(t, [op |-> "handshake", on |-> c.to, at |-> "select", call |-> c,
                          inbound |-> 0])
    BY <1>1 DEF TakeHandshake
  <2> QED BY <1>1, <2>1, QuietKeeps DEF TakeHandshake, tables, Carries, Travels, Owes,
                                        Presented, OnDuty
<1>2. CASE HandshakeSelect(t)
  <2> DEFINE s == req[t]
             next == [s EXCEPT !.at = "insert"]
  <2>1. s \in HandshakeJob /\ s.op = "handshake"
    BY <1>0, <1>2, Typed DEF HandshakeSelect, At
  <2>2. UNCHANGED <<peers, inbox, messages, answers, minted, posts>>
    BY <1>2 DEF HandshakeSelect, tables, net
  <2>3. Continue(t, Idle) \/ Continue(t, next)
    BY <1>2 DEF HandshakeSelect, Answer, Goto
  <2>4. next.op = "handshake" /\ next.at = "insert" /\ next.on = s.on /\ next.call = s.call
    BY <2>1 DEF HandshakeJob
  <2> HIDE DEF next
  <2>5. \A c : Carries(next, c) => Travels(c)
    BY <2>1, <2>4 DEF Carries, Travels
  <2>6. OnDuty(next)
    BY <1>0, <2>1, <2>4 DEF Known, OnDuty
  <2> QED BY <2>2, <2>3, <2>4, <2>5, <2>6, QuietKeeps DEF Owes, Presented
<1>3. CASE HandshakeUse(t)
  <2> DEFINE s == req[t]
             next == Save(s.on, s.inbound, s.call.id, s.call.id)
  <2>1. s.op = "handshake" /\ s.at = "use"
    BY <1>3 DEF HandshakeUse, At
  <2>2. UNCHANGED <<peers, inbox, messages, answers, minted, posts>> /\ Continue(t, next)
    BY <1>3 DEF HandshakeUse, net
  <2>3. next.op = "save" /\ next.answers = s.call.id /\ next.peer = s.inbound
    BY DEF Save
  <2> HIDE DEF next
  <2>4. \A id, q \in Nat : Owes(next, id, q) => Owed(id, q)
    BY <2>1, <2>3 DEF Owes, Owed
  <2> QED BY <2>2, <2>3, <2>4, QuietKeeps DEF Carries, Presented, OnDuty
<1> QED BY <1>1, <1>2, <1>3

LEMMA AdminKeeps ==
  ASSUME PeerInv, TypeOK', NEW t \in Thread, AdminStep(t)
  PROVE  PeerInv'
<1>0. TypeOK /\ minted \in Nat
  BY DEF PeerInv, TypeOK
<1>1. CASE Expose(t) \/ Hide(t)
  BY <1>1, QuietKeeps DEF Expose, Hide, Answer, net, served
<1>2. CASE RevokeExposures(t)
  <2>1. PICK s : Continue(t, s) /\ s.op = "save" /\ s.answers = None
    BY <1>2 DEF RevokeExposures, Save
  <2>2. \A id, q \in Nat : ~Owes(s, id, q)
    BY <2>1 DEF Owes
  <2> QED BY <1>2, <2>1, <2>2, QuietKeeps DEF RevokeExposures, net, served, Carries, Presented,
                                              OnDuty
<1>3. CASE Revoke(t)
  <2> DEFINE s == req[t]
  <2>1. s \in AdminJob /\ s.op = "revoke"
    BY <1>0, <1>3, Typed DEF Revoke, At
  <2>2. UNCHANGED <<inbox, messages, answers, minted, posts>>
    BY <1>3 DEF Revoke, net
  <2>3. /\ req'[t].op = "revoke" /\ \A u \in Thread \ {t} : req'[u] = req[u]
    BY <1>0, <1>3, <2>1, GotoIs, TypeParts DEF Revoke
  <2>4. /\ \A g \in Host : DOMAIN peers'[g] = DOMAIN peers[g]
        /\ RowsStay
    <3> DEFINE now == [peers[s.on] EXCEPT ![s.peer] =
                         [@ EXCEPT !.state = "revoked", !.outbound = None]]
    <3>1. peers' = [peers EXCEPT ![s.on] = now] /\ s.on \in Host
      BY <1>3, <2>1 DEF Revoke, AdminJob
    <3>2. DOMAIN now = DOMAIN peers[s.on]
      OBVIOUS
    <3>3. ASSUME NEW q \in DOMAIN peers[s.on], now[q].state = "active"
          PROVE  now[q] = peers[s.on][q]
      <4>1. peers[s.on][q] \in PeerRow
        BY <1>0, <3>1, Typed
      <4>2. CASE q = s.peer
        <5>1. now[q] = [peers[s.on][q] EXCEPT !.state = "revoked", !.outbound = None]
          BY <4>2
        <5> QED BY <3>3, <4>1, <5>1 DEF PeerRow
      <4>3. CASE q # s.peer
        BY <4>3
      <4> QED BY <4>2, <4>3
    <3> HIDE DEF now
    <3> QED BY <1>0, <3>1, <3>2, <3>3 DEF TypeOK, RowsStay
  <2>5. NewRows(t) /\ Mails /\ minted <= minted'
    BY <1>0, <2>2, <2>4 DEF NewRows, Mails, Received
  <2>6. Calls
    <3>1. \A c : Travels(c)' => Travels(c)
      BY <2>2, <2>3 DEF Travels, Carries
    <3>2. \A id, q : Owed(id, q)' => Owed(id, q)
      BY <2>3 DEF Owed, Owes
    <3> QED BY <2>2, <3>1, <3>2 DEF Calls
  <2>7. Turn(t) /\ Known(t)'
    BY <2>3 DEF Turn, Known, OnDuty, Alone, Presented, Understood, Delivered
  <2> QED BY <2>4, <2>5, <2>6, <2>7, MovesKeep DEF Moves
<1> QED BY <1>1, <1>2, <1>3 DEF AdminStep

\* A mail is committed and answered in one step.
LEMMA ReceiveKeeps ==
  ASSUME PeerInv, TypeOK', NEW t \in Thread, Receive(t)
  PROVE  PeerInv'
<1>0. TypeOK /\ minted \in Nat
  BY DEF PeerInv, TypeOK
<1>1. UNCHANGED <<peers, messages, posts, minted>>
  BY DEF Receive
<1>2. req[t] \in InboxJob /\ req[t].op = "inbox"
  BY <1>0, Typed DEF Receive, At
<1>3. PICK c \in MailCall : c = req[t].call
  BY <1>2 DEF InboxJob
<1>4. PICK on \in Host : on = req[t].on
  BY <1>2 DEF InboxJob
<1>5. req'[t] = Idle /\ \A u \in Thread \ {t} : req'[u] = req[u]
  BY <1>0, ContinueIs, TypeParts DEF Receive, Answer
<1>6. /\ inbox' = [inbox EXCEPT ![on] = Put(@, c.id, [peer |-> c.token, chat |-> c.chat])]
      /\ answers' = Put(answers, c.id, c.id)
  BY <1>3, <1>4 DEF Receive
<1>7. /\ \A g \in Host : DOMAIN inbox[g] \subseteq DOMAIN inbox'[g]
      /\ c.id \in DOMAIN inbox'[on]
  <2>1. DOMAIN inbox = Host
    BY <1>0 DEF TypeOK
  <2> QED BY <1>6, <2>1 DEF Put
<1>8. Mails
  BY <1>1, <1>7 DEF Mails, Received
<1>9. Calls
  <2>1. \A d : Travels(d)' => Travels(d)
    BY <1>1, <1>5 DEF Travels, Carries, Idle
  <2>2. \A id, q : Owed(id, q)' => Owed(id, q)
    BY <1>5 DEF Owed, Owes, Idle
  <2>3. Travels(c) /\ Received(c.id)'
    BY <1>2, <1>3, <1>7 DEF Travels, Carries, Received
  <2>4. \A id \in DOMAIN answers' :
          id = c.id \/ (id \in DOMAIN answers /\ answers'[id] = answers[id])
    BY <1>6 DEF Put
  <2>5. \A id \in DOMAIN answers' :
          \/ id \in DOMAIN answers /\ answers'[id] = answers[id]
          \/ \E d \in MailCall : Travels(d) /\ d.id = id /\ Received(id)'
    BY <2>3, <2>4 DEF Received
  <2> QED BY <2>1, <2>2, <2>5 DEF Calls
<1>10. RowsStay /\ NewRows(t) /\ minted <= minted'
  BY <1>0, <1>1 DEF RowsStay, NewRows
<1>11. Turn(t) /\ Known(t)'
  BY <1>5 DEF Turn, Known, OnDuty, Alone, Presented, Understood, Delivered, Idle
<1> QED BY <1>8, <1>9, <1>10, <1>11, MovesKeep DEF Moves

LEMMA MailKeeps ==
  ASSUME PeerInv, TypeOK', NEW t \in Thread, MailStep(t)
  PROVE  PeerInv'
<1>0. TypeOK /\ minted \in Nat /\ minted + 1 \in Nat /\ Known(t)
  <2>1. TypeOK /\ minted \in Nat /\ Known(t)
    BY DEF PeerInv, TypeOK
  <2> QED BY <2>1
<1>1. CASE Push(t)
  <2> DEFINE s == req[t]
             call == [op |-> "inbox", id |-> minted + 1, to |-> s.url,
                      token |-> tokens[s.on][s.peer], chat |-> s.chat]
             next == [s EXCEPT !.at = "wait", !.mail = minted + 1]
  <2>1. s \in SendJob
    BY <1>0, <1>1, Typed DEF Push, At
  <2>2. UNCHANGED <<peers, inbox, messages, answers>>
    BY <1>1 DEF Push, tables
  <2>3. CASE Answer(t) /\ UNCHANGED <<posts, minted>>
    BY <2>2, <2>3, QuietKeeps DEF Answer
  <2>4. CASE ~(Answer(t) /\ UNCHANGED <<posts, minted>>)
    <3>1. /\ s.peer \in DOMAIN tokens[s.on] /\ posts' = posts \cup {call}
          /\ minted' = minted + 1 /\ Continue(t, next)
      BY <1>1, <2>4 DEF Push
    <3>2. next \in SendJob
      BY <1>0, <2>1 DEF SendJob
    <3>3. next.op = "send" /\ next.at = "wait" /\ next.mail = minted + 1
      BY <2>1 DEF SendJob
    <3>4. tokens[s.on][s.peer] \in Nat
      BY <1>0, <2>1, <3>1 DEF TypeOK, SendJob, IsTable
    <3>5. call \in MailCall /\ call.id = minted + 1
      BY <1>0, <2>1, <3>4 DEF SendJob, MailCall
    <3> HIDE DEF next, call
    <3>6. next \notin AcceptJob
      BY <3>3 DEF AcceptJob
    <3> QED BY <2>2, <3>1, <3>2, <3>3, <3>5, <3>6, CallKeeps
  <2> QED BY <2>3, <2>4
<1>2. CASE SendAnswered(t)
  BY <1>2, AnsweredKeeps
<1>3. CASE Record(t)
  <2> DEFINE s == req[t]
  <2>1. s \in SendJob /\ s.at = "record" /\ s.op = "send"
    BY <1>0, <1>3, Typed DEF Record, At
  <2>2. Received(s.mail)
    BY <1>0, <2>1 DEF Known, Delivered
  <2>3. UNCHANGED <<peers, inbox, answers, posts, minted>>
    BY <1>3 DEF Record, net
  <2>4. req'[t] = Idle /\ \A u \in Thread \ {t} : req'[u] = req[u]
    BY <1>0, <1>3, ContinueIs, TypeParts DEF Record, Answer
  <2>5. Mails
    <3>1. messages' = [messages EXCEPT ![s.on] = @ \cup {s.mail}] /\ DOMAIN messages = Host
      BY <1>0, <1>3 DEF Record, TypeOK
    <3> QED BY <2>2, <2>3, <3>1 DEF Mails, Received
  <2>6. Calls
    <3>1. \A c : Travels(c)' => Travels(c)
      BY <2>3, <2>4 DEF Travels, Carries, Idle
    <3>2. \A id, q : Owed(id, q)' => Owed(id, q)
      BY <2>4 DEF Owed, Owes, Idle
    <3> QED BY <2>3, <3>1, <3>2 DEF Calls
  <2>7. RowsStay /\ NewRows(t) /\ minted <= minted'
    BY <1>0, <2>3 DEF RowsStay, NewRows
  <2>8. Turn(t) /\ Known(t)'
    BY <2>4 DEF Turn, Known, OnDuty, Alone, Presented, Understood, Delivered, Idle
  <2> QED BY <2>5, <2>6, <2>7, <2>8, MovesKeep DEF Moves
<1>4. CASE TakeMail(t)
  <2>1. PICK c \in posts :
          /\ posts' = posts \ {c}
          /\ Continue(t, [op |-> "inbox", on |-> c.to, at |-> "peer", call |-> c])
    BY <1>4 DEF TakeMail
  <2> QED BY <1>4, <2>1, QuietKeeps DEF TakeMail, tables, Carries, Travels, Owes, Presented,
                                        OnDuty
<1>5. CASE AuthenticatePeer(t) \/ FindChat(t)
  <2>1. req[t] \in InboxJob /\ req[t].op = "inbox"
    BY <1>0, <1>5, Typed DEF AuthenticatePeer, FindChat, At
  <2>2. UNCHANGED <<peers, inbox, messages, answers, minted, posts>>
    BY <1>5 DEF AuthenticatePeer, FindChat, tables, net
  <2>3. PICK at : Continue(t, Idle) \/ Continue(t, [req[t] EXCEPT !.at = at])
    BY <1>5 DEF AuthenticatePeer, FindChat, Answer, Goto
  <2> DEFINE next == [req[t] EXCEPT !.at = at]
  <2>4. next.op = "inbox" /\ next.call = req[t].call
    BY <2>1 DEF InboxJob
  <2>5. Continue(t, Idle) \/ Continue(t, next)
    BY <2>3
  <2> HIDE DEF next
  <2>6. \A c : Carries(next, c) => Travels(c)
    BY <2>1, <2>4 DEF Carries, Travels
  <2> QED BY <2>2, <2>4, <2>5, <2>6, QuietKeeps DEF Owes, Presented, OnDuty
<1>6. CASE Receive(t)
  BY <1>6, ReceiveKeeps
<1> QED BY <1>1, <1>2, <1>3, <1>4, <1>5, <1>6 DEF MailStep

LEMMA PeerInit == Init => PeerInv
<1> SUFFICES ASSUME Init PROVE PeerInv
  OBVIOUS
<1>1. TypeOK
  BY PairInit DEF PairInv
<1>2. DOMAIN empty = {}
  BY DEF empty
<1>3. \A t \in Thread : req[t].op = "idle"
  BY DEF Init, Idle
<1>4. \A c : ~Travels(c)
  BY <1>3 DEF Init, Travels, Carries
<1>5. \A id, q : ~Owed(id, q)
  BY <1>3 DEF Owed, Owes
<1>6. Past
  BY <1>2, <1>4, <1>5 DEF Init, Past
<1>7. Crossed /\ RecordedWasReceived
  BY <1>2 DEF Init, Crossed, Active, RecordedWasReceived
<1>8. \A t \in Thread : Known(t)
  BY <1>3 DEF Known, OnDuty, Alone, Presented, Understood, Delivered
<1> QED BY <1>1, <1>6, <1>7, <1>8 DEF PeerInv

LEMMA PeerInvHolds == Spec => []PeerInv
<1>1. PeerInv /\ TypeOK' /\ [Next]_vars => PeerInv'
  <2> SUFFICES ASSUME PeerInv, TypeOK', [Next]_vars PROVE PeerInv'
    OBVIOUS
  <2>1. ASSUME NEW t \in Thread, Begin(t) \/ PairStep(t) \/ SaveStep(t) \/ AdminStep(t)
                                 \/ MailStep(t)
        PROVE  PeerInv'
    BY <2>1, BeginKeeps, AcceptKeeps, AnsweredKeeps, AcceptInsertKeeps, HandshakeKeeps,
       HandshakeInsertKeeps, SavingKeeps, WriteKeeps, AdminKeeps, MailKeeps
       DEF PairStep, SaveStep
  <2>2. ASSUME NEW h \in Host, Expire(h) \/ Crash(h) PROVE PeerInv'
    <3>1. /\ UNCHANGED <<peers, inbox, messages, posts, answers, minted>>
          /\ \A u \in Thread : req'[u] \in {req[u], Idle}
      BY <2>2 DEF Expire, Crash, tables, net
    <3>2. minted <= minted'
      BY <3>1 DEF PeerInv, TypeOK
    <3> QED BY <3>1, <3>2, StillKeeps
  <2>3. CASE UNCHANGED vars
    <3>1. /\ UNCHANGED <<peers, inbox, messages, posts, answers, minted>>
          /\ \A u \in Thread : req'[u] \in {req[u], Idle}
      BY <2>3 DEF vars, tables, net
    <3>2. minted <= minted'
      BY <3>1 DEF PeerInv, TypeOK
    <3> QED BY <3>1, <3>2, StillKeeps
  <2> QED BY <2>1, <2>2, <2>3 DEF Next, Stop
<1> QED BY <1>1, PeerInit, PairingTypeCorrect, PTL DEF Spec

\* The side that accepted holds the token of a row that knows it, whatever
\* answers are lost or late: no answer is taken for that of another call.
THEOREM PairingsCross == Spec => []Crossed
<1>1. PeerInv => Crossed
  BY DEF PeerInv
<1> QED BY <1>1, PeerInvHolds, PTL

\* Mail is recorded as sent only once the other side has committed it, though
\* neither side shares a transaction with the other.
THEOREM RecordedMailArrived == Spec => []RecordedWasReceived
<1>1. PeerInv => RecordedWasReceived
  BY DEF PeerInv
<1> QED BY <1>1, PeerInvHolds, PTL
=============================================================================
