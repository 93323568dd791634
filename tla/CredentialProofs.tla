-------------------------- MODULE CredentialProofs ---------------------------
(***************************************************************************)
(* Theorems about Credentials, for every set of chats, clients and threads *)
(* and every bound.                                                        *)
(*                                                                         *)
(* The argument has three parts.  Grows says what no step ever undoes: a   *)
(* secret drawn earlier is never drawn again, revocation, expiry and use   *)
(* are for ever.  JobOK says what a handler relies on, and JobOKStays that *)
(* Grows is all it takes to keep it true while other handlers run.  What   *)
(* is left is one step per action: what it does to the tables, and what    *)
(* its own handler knows afterwards.                                       *)
(***************************************************************************)
EXTENDS Credentials, TLAPS

Job == {Idle} \cup ApiJob \cup GrantJob \cup ExchangeJob \cup RefreshJob
       \cup IssueJob \cup RotateJob \cup CutJob \cup GcJob

\* TypeOK but for the requests.
Stored ==
  /\ IsTable(invites, BOOLEAN) /\ clients \subseteq Client
  /\ DOMAIN chats \subseteq Chat /\ chats \in [DOMAIN chats -> ChatRow]
  /\ IsTable(codes, CodeRow) /\ \A k \in DOMAIN codes : codes[k].chat \in DOMAIN chats
  /\ IsTable(tokens, TokenRow) /\ \A k \in DOMAIN tokens : tokens[k].chat \in DOMAIN chats
  /\ IsTable(held, {"invite", "bearer", "pending", "session", "code", "refresh"})
  /\ lapsed \subseteq Nat /\ spent \subseteq Nat /\ cut \subseteq Client
  /\ granted \subseteq Client \X Chat
  /\ minted \in Nat /\ calls \in Nat

\* Secrets in the tables have been drawn, and no two of them are the same.
Drawn ==
  /\ \A c \in DOMAIN chats : chats[c].token <= minted
  /\ \A k \in DOMAIN codes \cup DOMAIN tokens \cup DOMAIN held \cup spent : k <= minted
  /\ \A c, d \in DOMAIN chats : chats[c].token = chats[d].token => c = d
  /\ \A c \in DOMAIN chats : chats[c].token \notin DOMAIN tokens

\* A code that has issued, or whose exchange has ended, is marked as used.
SpentIsUsed == \A k \in DOMAIN codes : k \in spent => codes[k].used

Tables == Drawn /\ SpentIsUsed /\ GrantedOnly

\* A row a handler has read speaks of a chat, and a client it was granted to.
Sound(row) == row.chat \in DOMAIN chats /\ <<row.client, row.chat>> \in granted

ApiOK(s) ==
  /\ s.secret <= minted
  /\ ~s.alive => ~Speaks(s.secret)
  /\ s.at \in {"tokens", "speaks"} => TokenOf(s.secret) = {}
  /\ s.at = "speaks" =>
       /\ s.chat \in DOMAIN chats
       /\ ~s.alive => chats[s.chat].revoked
       /\ s.secret \in DOMAIN tokens => tokens[s.secret].chat = s.chat
  /\ s.at = "served" => s.alive
  /\ s.at = "refused" => ~Speaks(s.secret)

GrantOK(s) ==
  /\ s.cookie # None /\ s.cookie \notin lapsed => <<s.client, s.chat>> \in granted
  /\ s.at \in {"chat", "insert"} => <<s.client, s.chat>> \in granted
  /\ s.at = "insert" => s.chat \in DOMAIN chats

ExchangeOK(s) ==
  /\ s.secret <= minted
  /\ ~s.alive => ~Worth(s.secret)
  /\ s.at \in {"burn", "check", "access"} => s.row \in CodeRow /\ Sound(s.row)
  /\ s.at \in {"burn", "check"} /\ ~s.alive => s.row.used \/ s.secret \in lapsed
  /\ s.at \in {"check", "access"} /\ s.secret \in DOMAIN codes => codes[s.secret].used
  /\ s.at = "access" => s.alive

RefreshOK(s) == s.at = "access" => s.row \in TokenRow /\ Sound(s.row)

IssueOK(s) == Sound(s.row) /\ s.access <= minted

RotateOK(s) == s.at = "update" => s.chat \in DOMAIN chats

\* What a handler relies on, whatever else runs.
JobOK(s) ==
  /\ s.op = "api" => ApiOK(s)
  /\ s.op = "grant" => GrantOK(s)
  /\ s.op = "exchange" => ExchangeOK(s)
  /\ s.op = "refresh" => RefreshOK(s)
  /\ s.op = "issue" => IssueOK(s)
  /\ s.op = "rotate" => RotateOK(s)
  /\ s.op = "cut" => s.client \in cut

Ind ==
  /\ Stored /\ Tables
  /\ req \in [Thread -> Job]
  /\ \A t \in Thread : JobOK(req[t])

\* What no step undoes.
Grows ==
  /\ minted' \in Nat /\ minted <= minted'
  /\ lapsed \subseteq lapsed' /\ spent \subseteq spent' /\ granted \subseteq granted'
  /\ cut \subseteq cut'
  /\ DOMAIN chats \subseteq DOMAIN chats'
  /\ \A c \in DOMAIN chats : chats[c].revoked => chats'[c].revoked
  /\ \A c \in DOMAIN chats' :
       chats'[c].token <= minted => c \in DOMAIN chats /\ chats[c].token = chats'[c].token
  /\ \A k \in DOMAIN codes' :
       k <= minted => k \in DOMAIN codes /\ (codes[k].used => codes'[k].used)
  /\ \A k \in DOMAIN tokens' :
       k <= minted => /\ k \in DOMAIN tokens
                      /\ tokens'[k].kind = tokens[k].kind
                      /\ tokens'[k].chat = tokens[k].chat
                      /\ tokens[k].revoked => tokens'[k].revoked

-----------------------------------------------------------------------------
(* Requests.                                                               *)

LEMMA JobKinds ==
  ASSUME NEW s \in Job
  PROVE  /\ s.op = "api" => s \in ApiJob
         /\ s.op = "grant" => s \in GrantJob
         /\ s.op = "exchange" => s \in ExchangeJob
         /\ s.op = "refresh" => s \in RefreshJob
         /\ s.op = "issue" => s \in IssueJob
         /\ s.op = "rotate" => s \in RotateJob
         /\ s.op = "cut" => s \in CutJob
         /\ s.op = "gc" => s \in GcJob
  BY DEF Job, Idle, ApiJob, GrantJob, ExchangeJob, RefreshJob, IssueJob, RotateJob, CutJob, GcJob

LEMMA JobAt ==
  ASSUME NEW s \in Job, s # Idle
  PROVE  /\ s.at = "access" => s \in ExchangeJob \/ s \in RefreshJob
         /\ s.at = "served" => s \in ApiJob
         /\ s.at = "refused" => s \in ApiJob \/ s \in ExchangeJob \/ s \in RefreshJob
  BY DEF Job, Idle, ApiJob, GrantJob, ExchangeJob, RefreshJob, IssueJob, RotateJob, CutJob, GcJob

LEMMA TokenOfStays ==
  ASSUME Grows, NEW k \in Nat, k <= minted, TokenOf(k) = {}
  PROVE  TokenOf(k)' = {}
  BY DEF Grows, TokenOf

LEMMA SpeaksStays ==
  ASSUME Stored, Grows, NEW k \in Nat, k <= minted, ~Speaks(k)
  PROVE  ~Speaks(k)'
<1> SUFFICES ASSUME Speaks(k)' PROVE FALSE
  OBVIOUS
<1>1. CASE \E c \in TokenOf(k)' : ~chats'[c].revoked
  <2>1. PICK c \in DOMAIN chats' : chats'[c].token = k /\ ~chats'[c].revoked
    BY <1>1 DEF TokenOf
  <2>2. c \in DOMAIN chats /\ chats[c].token = k /\ ~chats[c].revoked
    BY <2>1 DEF Grows
  <2> QED BY <2>2 DEF Speaks, TokenOf
<1>2. CASE /\ k \in DOMAIN tokens'
           /\ tokens'[k].kind = "access" /\ ~tokens'[k].revoked /\ k \notin lapsed'
           /\ ~chats'[tokens'[k].chat].revoked
  <2>1. /\ k \in DOMAIN tokens /\ tokens[k].kind = "access" /\ ~tokens[k].revoked
        /\ k \notin lapsed /\ tokens'[k].chat = tokens[k].chat
    BY <1>2 DEF Grows
  <2>2. tokens[k].chat \in DOMAIN chats
    BY <2>1 DEF Stored
  <2>3. ~chats[tokens[k].chat].revoked
    BY <1>2, <2>1, <2>2 DEF Grows
  <2> QED BY <2>1, <2>3 DEF Speaks
<1> QED BY <1>1, <1>2 DEF Speaks

LEMMA WorthStays ==
  ASSUME Grows, NEW k \in Nat, k <= minted, ~Worth(k)
  PROVE  ~Worth(k)'
  BY DEF Grows, Worth

\* What a handler relies on stays true while nothing is undone.
LEMMA JobOKStays ==
  ASSUME Stored, Grows, NEW s \in Job, JobOK(s)
  PROVE  JobOK(s)'
<1>0. minted \in Nat /\ minted' \in Nat /\ minted <= minted'
  BY DEF Stored, Grows
<1>1. ASSUME s.op = "api" PROVE ApiOK(s)'
  <2>1. ApiOK(s) /\ s.secret \in Nat
    BY <1>1, JobKinds DEF JobOK, ApiJob
  <2>2. ~Speaks(s.secret) => ~Speaks(s.secret)'
    BY <2>1, SpeaksStays DEF ApiOK
  <2>3. TokenOf(s.secret) = {} => TokenOf(s.secret)' = {}
    BY <2>1, TokenOfStays DEF ApiOK
  <2>4. s.secret <= minted'
    BY <1>0, <2>1 DEF ApiOK
  <2>5. ASSUME s.at = "speaks"
        PROVE  /\ s.chat \in DOMAIN chats'
               /\ ~s.alive => chats'[s.chat].revoked
               /\ s.secret \in DOMAIN tokens' => tokens'[s.secret].chat = s.chat
    BY <2>1, <2>5 DEF ApiOK, Grows
  <2> QED BY <2>1, <2>2, <2>3, <2>4, <2>5 DEF ApiOK
<1>2. ASSUME s.op = "grant" PROVE GrantOK(s)'
  BY <1>2 DEF JobOK, GrantOK, Grows
<1>3. ASSUME s.op = "exchange" PROVE ExchangeOK(s)'
  <2>1. ExchangeOK(s) /\ s.secret \in Nat
    BY <1>3, JobKinds DEF JobOK, ExchangeJob
  <2>2. ~Worth(s.secret) => ~Worth(s.secret)'
    BY <2>1, WorthStays DEF ExchangeOK
  <2>3. s.secret <= minted'
    BY <1>0, <2>1 DEF ExchangeOK
  <2>4. Sound(s.row) => Sound(s.row)'
    BY DEF Sound, Grows
  <2>5. s.secret \in DOMAIN codes' =>
          s.secret \in DOMAIN codes /\ (codes[s.secret].used => codes'[s.secret].used)
    BY <2>1 DEF ExchangeOK, Grows
  <2>6. s.secret \in lapsed => s.secret \in lapsed'
    BY DEF Grows
  <2> QED BY <2>1, <2>2, <2>3, <2>4, <2>5, <2>6 DEF ExchangeOK
<1>4. ASSUME s.op = "refresh" PROVE RefreshOK(s)'
  BY <1>4 DEF JobOK, RefreshOK, Sound, Grows
<1>5. ASSUME s.op = "issue" PROVE IssueOK(s)'
  <2>1. IssueOK(s) /\ s.access \in Nat
    BY <1>5, JobKinds DEF JobOK, IssueJob
  <2> QED BY <1>0, <2>1 DEF IssueOK, Sound, Grows
<1>6. ASSUME s.op = "rotate" PROVE RotateOK(s)'
  BY <1>6 DEF JobOK, RotateOK, Grows
<1>7. ASSUME s.op = "cut" PROVE s.client \in cut'
  BY <1>7 DEF JobOK, Grows
<1> QED BY <1>1, <1>2, <1>3, <1>4, <1>5, <1>6, <1>7 DEF JobOK

LEMMA IdleOK == Idle \in Job /\ JobOK(Idle) /\ JobOK(Idle)'
  BY DEF Idle, Job, JobOK

\* A step of one handler: it is enough to look at the tables and at that handler.
LEMMA OneJob ==
  ASSUME Ind, Stored', Tables', Grows,
         NEW t \in Thread, NEW s \in Job, req' = [req EXCEPT ![t] = s], JobOK(s)'
  PROVE  Ind'
<1>1. req' \in [Thread -> Job]
  BY DEF Ind
<1>2. ASSUME NEW u \in Thread PROVE JobOK(req[u])'
  <2>1. req[u] \in Job /\ JobOK(req[u]) /\ req \in [Thread -> Job]
    BY DEF Ind
  <2>2. CASE u = t
    <3>1. req'[u] = s
      BY <2>1, <2>2
    <3> QED BY <3>1 DEF JobOK, ApiOK, GrantOK, ExchangeOK, RefreshOK, IssueOK, RotateOK
  <2>3. CASE u # t
    <3>1. PICK r \in Job : r = req[u]
      BY <2>1
    <3>2. JobOK(r)'
      <4>1. JobOK(r)
        BY <2>1, <3>1
      <4> QED BY <4>1, JobOKStays DEF Ind
    <3>3. req'[u] = r
      BY <2>1, <2>3, <3>1
    <3> QED
      BY <3>2, <3>3 DEF JobOK, ApiOK, GrantOK, ExchangeOK, RefreshOK, IssueOK, RotateOK
  <2> QED BY <2>2, <2>3
<1> QED BY <1>1, <1>2 DEF Ind

\* A step that writes nothing but the request: what its handler now relies on
\* has to be so already.
LEMMA ReadStep ==
  ASSUME Ind, NEW t \in Thread,
         UNCHANGED <<tables, held, lapsed, minted, granted, spent>>,
         calls' \in Nat, cut' = cut,
         \E s \in Job : req' = [req EXCEPT ![t] = s] /\ JobOK(s)
  PROVE  Ind'
<1>1. PICK s \in Job : req' = [req EXCEPT ![t] = s] /\ JobOK(s)
  OBVIOUS
<1>2. Stored'
  BY DEF Ind, Stored, IsTable, tables
<1>3. Tables'
  BY DEF Ind, Tables, Drawn, SpentIsUsed, GrantedOnly, tables
<1>4. Grows
  BY DEF Ind, Stored, Grows, tables
<1>5. JobOK(s)'
  BY <1>1, <1>4, JobOKStays DEF Ind
<1> QED BY <1>1, <1>2, <1>3, <1>4, <1>5, OneJob

LEMMA AnswerReads ==
  ASSUME Ind, NEW t \in Thread, Answer(t), UNCHANGED <<tables, outside>>
  PROVE  Ind'
<1>1. calls' \in Nat /\ cut' = cut
  BY DEF outside, history, Ind, Stored
<1>2. req' = [req EXCEPT ![t] = Idle]
  BY DEF Answer, Continue
<1>3. UNCHANGED <<tables, held, lapsed, minted, granted, spent>>
  BY DEF outside, history
<1> QED BY <1>1, <1>2, <1>3, IdleOK, ReadStep

\* The same for a step that goes on in the handler.
LEMMA ContinueReads ==
  ASSUME Ind, NEW t \in Thread, UNCHANGED <<tables, outside>>,
         NEW s \in Job, Continue(t, s), JobOK(s)
  PROVE  Ind'
<1>1. calls' \in Nat /\ cut' = cut
  BY DEF outside, history, Ind, Stored
<1>2. UNCHANGED <<tables, held, lapsed, minted, granted, spent>>
  BY DEF outside, history
<1> QED BY <1>1, <1>2, ReadStep DEF Continue

\* And for one that begins.
LEMMA BeginReads ==
  ASSUME Ind, NEW t \in Thread, Call(t), UNCHANGED <<tables, held, lapsed, minted, history>>,
         NEW s \in Job, Continue(t, s), JobOK(s)
  PROVE  Ind'
<1>1. calls' \in Nat
  BY DEF Call, Ind, Stored
<1> QED BY <1>1, ReadStep DEF Continue, history

-----------------------------------------------------------------------------
(* authenticate.                                                           *)

LEMMA ApiBeginStep == ASSUME Ind, NEW t \in Thread, ApiBegin(t) PROVE Ind'
<1>1. PICK k \in Held("bearer") :
        Continue(t, [op |-> "api", at |-> "chats", secret |-> k, chat |-> None,
                     alive |-> Speaks(k)])
  BY DEF ApiBegin
<1>2. PICK alive \in BOOLEAN : alive = Speaks(k)
  <2>1. Speaks(k) \in BOOLEAN
    BY DEF Speaks
  <2> QED BY <2>1
<1> DEFINE s == [op |-> "api", at |-> "chats", secret |-> k, chat |-> None, alive |-> alive]
<1>3. k \in Nat /\ k <= minted
  BY DEF Ind, Stored, Tables, Drawn, Held, IsTable
<1>4. s \in Job
  BY <1>3 DEF Job, ApiJob
<1>5. JobOK(s)
  BY <1>2, <1>3 DEF JobOK, ApiOK
<1>6. Continue(t, s)
  BY <1>1, <1>2
<1> QED BY <1>4, <1>5, <1>6, BeginReads DEF ApiBegin

LEMMA LookUpChatTokenStep == ASSUME Ind, NEW t \in Thread, LookUpChatToken(t) PROVE Ind'
<1>1. PICK r \in Job : r = req[t] /\ JobOK(r)
  BY DEF Ind
<1>2. r \in ApiJob /\ ApiOK(r) /\ r.secret \in Nat
  BY <1>1, JobKinds DEF LookUpChatToken, At, JobOK, ApiJob
<1>3. UNCHANGED <<tables, outside>>
  BY DEF LookUpChatToken
<1>4. CASE TokenOf(r.secret) = {} /\ Goto(t, "tokens")
  <2> DEFINE s == [r EXCEPT !.at = "tokens"]
  <2>1. s \in ApiJob /\ s.op = "api" /\ s.at = "tokens" /\ s.secret = r.secret /\ s.alive = r.alive
    BY <1>2 DEF ApiJob
  <2>2. s \in Job /\ JobOK(s)
    BY <1>2, <1>4, <2>1 DEF Job, JobOK, ApiOK
  <2>3. Continue(t, s)
    BY <1>1, <1>4 DEF Goto, Continue
  <2> QED BY <1>3, <2>2, <2>3, ContinueReads
<1>5. ASSUME NEW c \in TokenOf(r.secret),
             Continue(t, [r EXCEPT !.chat = c,
                            !.at = IF chats[c].revoked THEN "refused" ELSE "served"])
      PROVE  Ind'
  <2>1. c \in DOMAIN chats /\ chats[c].token = r.secret /\ c \in Chat
        /\ chats[c].revoked \in BOOLEAN
    BY <1>5 DEF TokenOf, Ind, Stored, ChatRow
  <2>2. CASE chats[c].revoked
    <3> DEFINE s == [r EXCEPT !.chat = c, !.at = "refused"]
    <3>1. s \in ApiJob /\ s.op = "api" /\ s.at = "refused" /\ s.secret = r.secret
          /\ s.alive = r.alive
      BY <1>2, <2>1 DEF ApiJob
    <3>2. TokenOf(r.secret) = {c} /\ r.secret \notin DOMAIN tokens
      BY <2>1 DEF TokenOf, Ind, Tables, Drawn
    <3>3. ~Speaks(r.secret)
      BY <2>2, <3>2 DEF Speaks
    <3>4. s \in Job /\ JobOK(s)
      BY <1>2, <3>1, <3>3 DEF Job, JobOK, ApiOK
    <3>5. Continue(t, s)
      BY <1>5, <2>2
    <3> QED BY <1>3, <3>4, <3>5, ContinueReads
  <2>3. CASE ~chats[c].revoked
    <3> DEFINE s == [r EXCEPT !.chat = c, !.at = "served"]
    <3>1. s \in ApiJob /\ s.op = "api" /\ s.at = "served" /\ s.secret = r.secret
          /\ s.alive = r.alive
      BY <1>2, <2>1 DEF ApiJob
    <3>2. Speaks(r.secret)
      BY <1>5, <2>3 DEF Speaks
    <3>3. s \in Job /\ JobOK(s)
      BY <1>2, <3>1, <3>2 DEF Job, JobOK, ApiOK
    <3>4. Continue(t, s)
      BY <1>5, <2>3
    <3> QED BY <1>3, <3>3, <3>4, ContinueReads
  <2> QED BY <2>1, <2>2, <2>3
<1> QED BY <1>1, <1>4, <1>5 DEF LookUpChatToken

LEMMA ResolveAccessTokenStep == ASSUME Ind, NEW t \in Thread, ResolveAccessToken(t) PROVE Ind'
<1>1. PICK r \in Job : r = req[t] /\ JobOK(r)
  BY DEF Ind
<1>2. r \in ApiJob /\ ApiOK(r) /\ r.secret \in Nat /\ TokenOf(r.secret) = {}
  BY <1>1, JobKinds DEF ResolveAccessToken, At, JobOK, ApiJob, ApiOK
<1>3. UNCHANGED <<tables, outside>>
  BY DEF ResolveAccessToken
<1>4. CASE ResolvesTo(r.secret) = {} /\ Goto(t, "refused")
  <2> DEFINE s == [r EXCEPT !.at = "refused"]
  <2>1. s \in ApiJob /\ s.op = "api" /\ s.at = "refused" /\ s.secret = r.secret
        /\ s.alive = r.alive
    BY <1>2 DEF ApiJob
  <2>2. ~Speaks(r.secret)
    BY <1>2, <1>4 DEF ResolvesTo, Speaks
  <2>3. s \in Job /\ JobOK(s)
    BY <1>2, <2>1, <2>2 DEF Job, JobOK, ApiOK
  <2>4. Continue(t, s)
    BY <1>1, <1>4 DEF Goto, Continue
  <2> QED BY <1>3, <2>3, <2>4, ContinueReads
<1>5. ASSUME NEW c \in ResolvesTo(r.secret),
             Continue(t, [r EXCEPT !.at = "speaks", !.chat = c])
      PROVE  Ind'
  <2>1. /\ r.secret \in DOMAIN tokens /\ tokens[r.secret].kind = "access"
        /\ ~tokens[r.secret].revoked /\ r.secret \notin lapsed
        /\ c = tokens[r.secret].chat
    BY <1>5 DEF ResolvesTo
  <2>2. c \in DOMAIN chats /\ c \in Chat /\ chats[c].revoked \in BOOLEAN
    BY <2>1 DEF Ind, Stored, ChatRow
  <2> DEFINE s == [r EXCEPT !.at = "speaks", !.chat = c]
  <2>3. s \in ApiJob /\ s.op = "api" /\ s.at = "speaks" /\ s.secret = r.secret
        /\ s.alive = r.alive /\ s.chat = c
    BY <1>2, <2>2 DEF ApiJob
  <2>4. ~Speaks(r.secret) => chats[c].revoked
    BY <2>1 DEF Speaks
  <2>5. s \in Job /\ JobOK(s)
    BY <1>2, <2>1, <2>2, <2>3, <2>4 DEF Job, JobOK, ApiOK
  <2> QED BY <1>3, <1>5, <2>5, ContinueReads
<1> QED BY <1>1, <1>4, <1>5 DEF ResolveAccessToken

LEMMA LookUpChatStep == ASSUME Ind, NEW t \in Thread, LookUpChat(t) PROVE Ind'
<1>1. PICK r \in Job : r = req[t] /\ JobOK(r)
  BY DEF Ind
<1>2. r \in ApiJob /\ ApiOK(r) /\ r.secret \in Nat /\ r.at = "speaks"
  BY <1>1, JobKinds DEF LookUpChat, At, JobOK, ApiJob
<1>3. UNCHANGED <<tables, outside>>
  BY DEF LookUpChat
<1>4. TokenOf(r.secret) = {} /\ r.chat \in DOMAIN chats
  BY <1>2 DEF ApiOK
<1>5. CASE IsOpen(r.chat)
  <2> DEFINE s == [r EXCEPT !.at = "served"]
  <2>1. s \in ApiJob /\ s.op = "api" /\ s.at = "served" /\ s.secret = r.secret
        /\ s.alive = r.alive /\ r.alive \in BOOLEAN
    BY <1>2 DEF ApiJob
  <2>2. r.alive
    BY <1>2, <1>5, <2>1 DEF ApiOK, IsOpen
  <2>3. s \in Job /\ JobOK(s)
    BY <1>2, <2>1, <2>2 DEF Job, JobOK, ApiOK
  <2>4. Continue(t, s)
    BY <1>1, <1>5 DEF LookUpChat, Goto, Continue
  <2> QED BY <1>3, <2>3, <2>4, ContinueReads
<1>6. CASE ~IsOpen(r.chat)
  <2> DEFINE s == [r EXCEPT !.at = "refused"]
  <2>1. s \in ApiJob /\ s.op = "api" /\ s.at = "refused" /\ s.secret = r.secret
        /\ s.alive = r.alive
    BY <1>2 DEF ApiJob
  <2>2. ~Speaks(r.secret)
    BY <1>2, <1>4, <1>6 DEF ApiOK, IsOpen, Speaks
  <2>3. s \in Job /\ JobOK(s)
    BY <1>2, <2>1, <2>2 DEF Job, JobOK, ApiOK
  <2>4. Continue(t, s)
    BY <1>1, <1>6 DEF LookUpChat, Goto, Continue
  <2> QED BY <1>3, <2>3, <2>4, ContinueReads
<1> QED BY <1>5, <1>6

LEMMA DoneStep == ASSUME Ind, NEW t \in Thread, Done(t) PROVE Ind'
  BY AnswerReads DEF Done

-----------------------------------------------------------------------------
(* authorize_submit.                                                       *)

LEMMA GrantBeginStep == ASSUME Ind, NEW t \in Thread, GrantBegin(t) PROVE Ind'
<1>1. PICK client \in Client, chat \in Chat, cookie \in Held("session") \cup {None} :
        /\ Continue(t, [op |-> "grant", at |-> "client", client |-> client,
                        chat |-> chat, cookie |-> cookie])
        /\ granted' = IF cookie = None \/ cookie \in lapsed THEN granted
                      ELSE granted \cup {<<client, chat>>}
  BY DEF GrantBegin
<1> DEFINE s == [op |-> "grant", at |-> "client", client |-> client,
                 chat |-> chat, cookie |-> cookie]
<1>2. UNCHANGED <<invites, chats, clients, codes, tokens, held, lapsed, minted, spent, cut>>
  BY DEF GrantBegin, tables
<1>3. calls' \in Nat
  BY DEF GrantBegin, Call, Ind, Stored
<1>4. granted \subseteq granted' /\ granted' \subseteq Client \X Chat
  BY <1>1 DEF Ind, Stored
<1>5. Stored'
  BY <1>2, <1>3, <1>4 DEF Ind, Stored, IsTable
<1>6. Tables'
  BY <1>2, <1>4 DEF Ind, Tables, Drawn, SpentIsUsed, GrantedOnly
<1>7. Grows
  BY <1>2, <1>4 DEF Ind, Stored, Grows
<1>8. s \in Job
  BY DEF Job, GrantJob, Held, Ind, Stored, IsTable
<1>9. JobOK(s)'
  BY <1>1, <1>2 DEF JobOK, GrantOK
<1> QED BY <1>1, <1>5, <1>6, <1>7, <1>8, <1>9, OneJob DEF Continue

LEMMA GrantClientStep == ASSUME Ind, NEW t \in Thread, GrantClient(t) PROVE Ind'
<1>1. PICK r \in Job : r = req[t] /\ JobOK(r)
  BY DEF Ind
<1>2. r \in GrantJob /\ GrantOK(r)
  BY <1>1, JobKinds DEF GrantClient, At, JobOK
<1>3. UNCHANGED <<tables, outside>>
  BY DEF GrantClient
<1>4. CASE ValidSession(r.cookie) /\ Goto(t, "chat")
  <2> DEFINE s == [r EXCEPT !.at = "chat"]
  <2>1. s \in GrantJob /\ s.op = "grant" /\ s.at = "chat" /\ s.client = r.client
        /\ s.chat = r.chat /\ s.cookie = r.cookie
    BY <1>2 DEF GrantJob
  <2>2. s \in Job /\ JobOK(s)
    BY <1>2, <1>4, <2>1 DEF Job, JobOK, GrantOK, ValidSession
  <2>3. Continue(t, s)
    BY <1>1, <1>4 DEF Goto, Continue
  <2> QED BY <1>3, <2>2, <2>3, ContinueReads
<1>5. CASE Answer(t)
  BY <1>3, <1>5, AnswerReads
<1> QED BY <1>1, <1>4, <1>5 DEF GrantClient

LEMMA GrantChatStep == ASSUME Ind, NEW t \in Thread, GrantChat(t) PROVE Ind'
<1>1. PICK r \in Job : r = req[t] /\ JobOK(r)
  BY DEF Ind
<1>2. r \in GrantJob /\ GrantOK(r) /\ r.at = "chat"
  BY <1>1, JobKinds DEF GrantChat, At, JobOK
<1>3. UNCHANGED <<tables, outside>>
  BY DEF GrantChat
<1>4. CASE IsOpen(r.chat) /\ Goto(t, "insert")
  <2> DEFINE s == [r EXCEPT !.at = "insert"]
  <2>1. s \in GrantJob /\ s.op = "grant" /\ s.at = "insert" /\ s.client = r.client
        /\ s.chat = r.chat /\ s.cookie = r.cookie
    BY <1>2 DEF GrantJob
  <2>2. s \in Job /\ JobOK(s)
    BY <1>2, <1>4, <2>1 DEF Job, JobOK, GrantOK, IsOpen
  <2>3. Continue(t, s)
    BY <1>1, <1>4 DEF Goto, Continue
  <2> QED BY <1>3, <2>2, <2>3, ContinueReads
<1>5. CASE Answer(t)
  BY <1>3, <1>5, AnswerReads
<1> QED BY <1>1, <1>4, <1>5 DEF GrantChat

LEMMA GrantInsertStep == ASSUME Ind, NEW t \in Thread, GrantInsert(t) PROVE Ind'
<1>1. PICK r \in Job : r = req[t] /\ JobOK(r)
  BY DEF Ind
<1>2. /\ r \in GrantJob /\ r.client \in Client /\ r.chat \in DOMAIN chats
      /\ <<r.client, r.chat>> \in granted
  BY <1>1, JobKinds DEF GrantInsert, At, JobOK, GrantJob, GrantOK
<1> DEFINE k == minted + 1
           row == [client |-> r.client, chat |-> r.chat, used |-> FALSE]
<1>3. codes' = Put(codes, k, row) /\ held' = Put(held, k, "code") /\ minted' = k
  BY <1>1 DEF GrantInsert
<1>4. UNCHANGED <<invites, chats, clients, tokens, lapsed, calls, granted, spent, cut>>
  BY DEF GrantInsert, history
<1>5. k \in Nat /\ minted \in Nat /\ k \notin DOMAIN codes /\ minted < k
  BY DEF Ind, Stored, Tables, Drawn
<1>6. row \in CodeRow
  BY <1>2 DEF CodeRow, Ind, Stored
<1>7. Stored'
  <2>1. IsTable(codes, CodeRow)' /\ IsTable(held, {"invite", "bearer", "pending", "session", "code", "refresh"})'
    BY <1>3, <1>5, <1>6 DEF Put, IsTable, Ind, Stored
  <2>2. \A x \in DOMAIN codes' : codes'[x].chat \in DOMAIN chats'
    BY <1>2, <1>3, <1>4, <1>5 DEF Put, Ind, Stored
  <2> QED BY <1>3, <1>4, <1>5, <2>1, <2>2 DEF Ind, Stored, IsTable
<1>8. Tables'
  <2>1. Drawn'
    BY <1>3, <1>4, <1>5 DEF Ind, Stored, ChatRow, IsTable, Tables, Drawn, Put
  <2>2. SpentIsUsed'
    <3>1. k \notin spent
      BY <1>5 DEF Ind, Stored, Tables, Drawn
    <3> QED BY <1>3, <1>4, <1>5, <3>1 DEF Ind, Tables, SpentIsUsed, Put
  <2>3. GrantedOnly'
    BY <1>2, <1>3, <1>4, <1>5 DEF Ind, Tables, GrantedOnly, Put
  <2> QED BY <2>1, <2>2, <2>3 DEF Tables
<1>9. Grows
  BY <1>3, <1>4, <1>5 DEF Ind, Stored, IsTable, Grows, Put
<1> QED BY <1>7, <1>8, <1>9, IdleOK, OneJob DEF GrantInsert, Answer, Continue

-----------------------------------------------------------------------------
(* token.                                                                  *)

LEMMA ExchangeBeginStep == ASSUME Ind, NEW t \in Thread, ExchangeBegin(t) PROVE Ind'
<1>1. PICK k \in Held("code"), client \in clients :
        Continue(t, [op |-> "exchange", at |-> "select", secret |-> k,
                     presenter |-> client, row |-> None, alive |-> Worth(k)])
  BY DEF ExchangeBegin
<1>2. PICK alive \in BOOLEAN : alive = Worth(k)
  <2>1. Worth(k) \in BOOLEAN
    BY DEF Worth
  <2> QED BY <2>1
<1> DEFINE s == [op |-> "exchange", at |-> "select", secret |-> k,
                 presenter |-> client, row |-> None, alive |-> alive]
<1>3. k \in Nat /\ k <= minted /\ client \in Client
  BY DEF Ind, Stored, Tables, Drawn, Held, IsTable
<1>4. s \in Job
  BY <1>3 DEF Job, ExchangeJob
<1>5. JobOK(s)
  BY <1>2, <1>3 DEF JobOK, ExchangeOK
<1>6. Continue(t, s)
  BY <1>1, <1>2
<1> QED BY <1>4, <1>5, <1>6, BeginReads DEF ExchangeBegin

LEMMA ExchangeSelectStep == ASSUME Ind, NEW t \in Thread, ExchangeSelect(t) PROVE Ind'
<1>1. PICK r \in Job : r = req[t] /\ JobOK(r)
  BY DEF Ind
<1>2. r \in ExchangeJob /\ ExchangeOK(r) /\ r.secret \in Nat
  BY <1>1, JobKinds DEF ExchangeSelect, At, JobOK, ExchangeJob
<1>3. UNCHANGED <<tables, outside>>
  BY DEF ExchangeSelect
<1>4. CASE Goto(t, "refused")
  <2> DEFINE s == [r EXCEPT !.at = "refused"]
  <2>1. s \in ExchangeJob /\ s.op = "exchange" /\ s.at = "refused"
        /\ s.secret = r.secret /\ s.alive = r.alive
    BY <1>2 DEF ExchangeJob
  <2>2. s \in Job /\ JobOK(s)
    BY <1>2, <2>1 DEF Job, JobOK, ExchangeOK
  <2>3. Continue(t, s)
    BY <1>1, <1>4 DEF Goto, Continue
  <2> QED BY <1>3, <2>2, <2>3, ContinueReads
<1>5. CASE r.secret \in DOMAIN codes
           /\ Continue(t, [r EXCEPT !.at = "burn", !.row = codes[r.secret]])
  <2>1. PICK row \in CodeRow : row = codes[r.secret]
    BY <1>5 DEF Ind, Stored, IsTable
  <2> DEFINE s == [r EXCEPT !.at = "burn", !.row = row]
  <2>2. s \in ExchangeJob /\ s.op = "exchange" /\ s.at = "burn" /\ s.row = row
        /\ s.secret = r.secret /\ s.alive = r.alive
    BY <1>2 DEF ExchangeJob
  <2>3. Sound(row)
    BY <1>5, <2>1 DEF Sound, Ind, Stored, Tables, GrantedOnly
  <2>4. ~Worth(r.secret) => row.used \/ r.secret \in lapsed
    BY <1>5, <2>1 DEF Worth, Ind, Tables, SpentIsUsed
  <2>5. s \in Job /\ JobOK(s)
    BY <1>2, <2>2, <2>3, <2>4 DEF Job, JobOK, ExchangeOK
  <2>6. Continue(t, s)
    BY <1>5, <2>1
  <2> QED BY <1>3, <2>5, <2>6, ContinueReads
<1> QED BY <1>1, <1>4, <1>5 DEF ExchangeSelect

LEMMA BurnStep == ASSUME Ind, NEW t \in Thread, Burn(t) PROVE Ind'
<1>1. PICK r \in Job : r = req[t] /\ JobOK(r)
  BY DEF Ind
<1>2. r \in ExchangeJob /\ ExchangeOK(r) /\ r.secret \in Nat /\ r.at = "burn"
  BY <1>1, JobKinds DEF Burn, At, JobOK, ExchangeJob
<1>3. codes' = [k \in DOMAIN codes |->
                  IF k = r.secret THEN [codes[k] EXCEPT !.used = TRUE] ELSE codes[k]]
  BY <1>1 DEF Burn
<1>4. UNCHANGED <<invites, chats, clients, tokens, held, lapsed, minted, calls, granted, spent, cut>>
  BY DEF Burn, outside, history
<1>5. /\ DOMAIN codes' = DOMAIN codes
      /\ \A k \in DOMAIN codes :
           /\ codes[k] \in CodeRow /\ codes'[k] \in CodeRow
           /\ codes'[k].client = codes[k].client /\ codes'[k].chat = codes[k].chat
           /\ codes[k].used => codes'[k].used
           /\ k = r.secret => codes'[k].used
  BY <1>3 DEF Ind, Stored, IsTable, CodeRow
<1>6. Stored'
  <2>1. codes' \in [DOMAIN codes' -> CodeRow]
    BY <1>3, <1>5
  <2> QED BY <1>4, <1>5, <2>1 DEF Ind, Stored, IsTable
<1>7. Tables'
  BY <1>4, <1>5 DEF Ind, Tables, Drawn, SpentIsUsed, GrantedOnly
<1>8. Grows
  BY <1>4, <1>5 DEF Ind, Stored, Grows
<1> DEFINE s == [r EXCEPT !.at = "check"]
<1>9. s \in ExchangeJob /\ s.op = "exchange" /\ s.at = "check" /\ s.row = r.row
      /\ s.secret = r.secret /\ s.alive = r.alive
  BY <1>2 DEF ExchangeJob
<1>10. s \in Job
  BY <1>9 DEF Job
<1>11. JobOK(s)'
  <2>1. ~Worth(r.secret) => ~Worth(r.secret)'
    BY <1>4, <1>5 DEF Worth
  <2>2. Sound(r.row) => Sound(r.row)'
    BY <1>4 DEF Sound
  <2>3. ExchangeOK(s)'
    BY <1>2, <1>4, <1>5, <1>9, <2>1, <2>2 DEF ExchangeOK
  <2> QED BY <1>9, <2>3 DEF JobOK
<1>12. req' = [req EXCEPT ![t] = s]
  BY <1>1 DEF Burn, Goto, Continue
<1> QED BY <1>6, <1>7, <1>8, <1>10, <1>11, <1>12, OneJob

LEMMA CheckStep == ASSUME Ind, NEW t \in Thread, Check(t) PROVE Ind'
<1>1. PICK r \in Job : r = req[t] /\ JobOK(r)
  BY DEF Ind
<1>2. r \in ExchangeJob /\ ExchangeOK(r) /\ r.secret \in Nat /\ r.at = "check"
      /\ r.alive \in BOOLEAN
  BY <1>1, JobKinds DEF Check, At, JobOK, ExchangeJob
<1>3. UNCHANGED <<invites, chats, clients, codes, tokens, held, lapsed, minted, calls, granted, cut>>
  BY DEF Check, tables
<1>4. CASE Redeemable(r.secret, r.row) /\ Continue(t, [r EXCEPT !.at = "access"])
           /\ UNCHANGED spent
  <2> DEFINE s == [r EXCEPT !.at = "access"]
  <2>1. s \in ExchangeJob /\ s.op = "exchange" /\ s.at = "access" /\ s.row = r.row
        /\ s.secret = r.secret /\ s.alive = r.alive
    BY <1>2 DEF ExchangeJob
  <2>2. r.alive
    BY <1>2, <1>4 DEF ExchangeOK, Redeemable
  <2>3. s \in Job /\ JobOK(s)
    BY <1>2, <2>1, <2>2 DEF Job, JobOK, ExchangeOK
  <2> QED BY <1>3, <1>4, <2>3, ContinueReads DEF tables, outside, history
<1>5. CASE Goto(t, "refused") /\ spent' = spent \cup {r.secret}
  <2>1. Stored'
    BY <1>2, <1>3, <1>5 DEF Ind, Stored, IsTable
  <2>2. Tables'
    BY <1>2, <1>3, <1>5 DEF Ind, Tables, Drawn, SpentIsUsed, GrantedOnly, ExchangeOK
  <2>3. Grows
    BY <1>3, <1>5 DEF Ind, Stored, Grows
  <2> DEFINE s == [r EXCEPT !.at = "refused"]
  <2>4. s \in ExchangeJob /\ s.op = "exchange" /\ s.at = "refused"
        /\ s.secret = r.secret /\ s.alive = r.alive
    BY <1>2 DEF ExchangeJob
  <2>5. ~Worth(r.secret) => ~Worth(r.secret)'
    BY <1>3, <1>5 DEF Worth
  <2>6. ExchangeOK(s)'
    BY <1>2, <1>3, <2>4, <2>5 DEF ExchangeOK
  <2>7. s \in Job /\ JobOK(s)'
    BY <2>4, <2>6 DEF Job, JobOK
  <2>8. req' = [req EXCEPT ![t] = s]
    BY <1>1, <1>5 DEF Goto, Continue
  <2> QED BY <2>1, <2>2, <2>3, <2>7, <2>8, OneJob
<1> QED BY <1>1, <1>4, <1>5 DEF Check

LEMMA RefreshBeginStep == ASSUME Ind, NEW t \in Thread, RefreshBegin(t) PROVE Ind'
<1>1. PICK k \in Held("refresh") :
        Continue(t, [op |-> "refresh", at |-> "select", secret |-> k, row |-> None])
  BY DEF RefreshBegin
<1> DEFINE s == [op |-> "refresh", at |-> "select", secret |-> k, row |-> None]
<1>2. k \in Nat
  BY DEF Ind, Stored, Held, IsTable
<1>3. s \in Job /\ JobOK(s)
  BY <1>2 DEF Job, RefreshJob, JobOK, RefreshOK
<1> QED BY <1>1, <1>3, BeginReads DEF RefreshBegin

LEMMA RefreshSelectStep == ASSUME Ind, NEW t \in Thread, RefreshSelect(t) PROVE Ind'
<1>1. PICK r \in Job : r = req[t] /\ JobOK(r)
  BY DEF Ind
<1>2. r \in RefreshJob /\ r.secret \in Nat
  BY <1>1, JobKinds DEF RefreshSelect, At, RefreshJob
<1>3. UNCHANGED <<tables, outside>>
  BY DEF RefreshSelect
<1>4. CASE Goto(t, "refused")
  <2> DEFINE s == [r EXCEPT !.at = "refused"]
  <2>1. s \in RefreshJob /\ s.op = "refresh" /\ s.at = "refused"
    BY <1>2 DEF RefreshJob
  <2>2. s \in Job /\ JobOK(s)
    BY <2>1 DEF Job, JobOK, RefreshOK
  <2>3. Continue(t, s)
    BY <1>1, <1>4 DEF Goto, Continue
  <2> QED BY <1>3, <2>2, <2>3, ContinueReads
<1>5. CASE r.secret \in DOMAIN tokens
           /\ Continue(t, [r EXCEPT !.at = "access", !.row = tokens[r.secret]])
  <2>1. PICK row \in TokenRow : row = tokens[r.secret]
    BY <1>5 DEF Ind, Stored, IsTable
  <2> DEFINE s == [r EXCEPT !.at = "access", !.row = row]
  <2>2. s \in RefreshJob /\ s.op = "refresh" /\ s.row = row
    BY <1>2 DEF RefreshJob
  <2>3. Sound(row)
    BY <1>5, <2>1 DEF Sound, Ind, Stored, Tables, GrantedOnly
  <2>4. s \in Job /\ JobOK(s)
    BY <2>1, <2>2, <2>3 DEF Job, JobOK, RefreshOK
  <2>5. Continue(t, s)
    BY <1>5, <2>1
  <2> QED BY <1>3, <2>4, <2>5, ContinueReads
<1> QED BY <1>1, <1>4, <1>5 DEF RefreshSelect

\* A row with a secret just drawn disturbs nothing.
LEMMA NewRow ==
  ASSUME Ind, NEW r \in CodeRow \cup TokenRow, Sound(r), NEW kind \in {"access", "refresh"},
         tokens' = Put(tokens, minted + 1, NewToken(kind, r)), minted' = minted + 1,
         IsTable(held, {"invite", "bearer", "pending", "session", "code", "refresh"})',
         \A x \in DOMAIN held' : x <= minted + 1,
         spent \subseteq spent', spent' \subseteq Nat, \A x \in spent' : x <= minted,
         \A x \in DOMAIN codes : x \in spent' => codes[x].used,
         UNCHANGED <<invites, chats, clients, codes, lapsed, calls, granted, cut>>
  PROVE  Stored' /\ Tables' /\ Grows
<1> DEFINE k == minted + 1
           row == NewToken(kind, r)
<1>1. k \in Nat /\ minted \in Nat /\ k \notin DOMAIN tokens /\ minted < k
  BY DEF Ind, Stored, Tables, Drawn
<1>2. row \in TokenRow /\ row.chat = r.chat /\ row.client = r.client
  BY DEF NewToken, CodeRow, TokenRow
<1>3. /\ DOMAIN tokens' = DOMAIN tokens \cup {k}
      /\ tokens' = [x \in DOMAIN tokens \cup {k} |-> IF x = k THEN row ELSE tokens[x]]
  BY DEF Put
<1> HIDE DEF row
<1>4. Stored'
  <2>1. IsTable(tokens, TokenRow)'
    BY <1>1, <1>2, <1>3 DEF IsTable, Ind, Stored
  <2>2. \A x \in DOMAIN tokens' : tokens'[x].chat \in DOMAIN chats'
    BY <1>2, <1>3 DEF Ind, Stored, Sound
  <2> QED BY <1>1, <2>1, <2>2 DEF Ind, Stored, IsTable
<1>5. Tables'
  <2>1. Drawn'
    <3>1. \A c \in DOMAIN chats : chats[c].token \in Nat /\ chats[c].token # k
      BY <1>1 DEF Ind, Stored, ChatRow, Tables, Drawn
    <3>2. \A x \in DOMAIN codes' \cup DOMAIN tokens' \cup DOMAIN held' \cup spent' : x <= minted'
      BY <1>1, <1>3 DEF Ind, Stored, IsTable, Tables, Drawn
    <3>3. \A c \in DOMAIN chats' : chats'[c].token <= minted'
      BY <1>1, <3>1 DEF Ind, Tables, Drawn
    <3> QED BY <1>3, <3>1, <3>2, <3>3 DEF Ind, Tables, Drawn
  <2>2. SpentIsUsed'
    BY DEF SpentIsUsed
  <2>3. GrantedOnly'
    BY <1>2, <1>3 DEF Ind, Tables, GrantedOnly, Sound
  <2> QED BY <2>1, <2>2, <2>3 DEF Tables
<1>6. Grows
  <2>1. \A x \in DOMAIN tokens' : x <= minted => x \in DOMAIN tokens /\ tokens'[x] = tokens[x]
    BY <1>1, <1>3
  <2> QED BY <1>1, <2>1 DEF Grows
<1> QED BY <1>4, <1>5, <1>6

LEMMA IssueAccessStep == ASSUME Ind, NEW t \in Thread, IssueAccess(t) PROVE Ind'
<1>1. PICK r \in Job : r = req[t] /\ JobOK(r)
  BY DEF Ind
<1>2. r # Idle /\ r.at = "access"
  BY <1>1 DEF IssueAccess
<1>3. PICK row \in CodeRow \cup TokenRow : row = r.row /\ Sound(row)
  <2>1. CASE r \in ExchangeJob
    BY <1>1, <1>2, <2>1 DEF JobOK, ExchangeOK, ExchangeJob
  <2>2. CASE r \in RefreshJob
    BY <1>1, <1>2, <2>2 DEF JobOK, RefreshOK, RefreshJob
  <2> QED BY <1>2, <2>1, <2>2, JobAt
<1> DEFINE s == [op |-> "issue", at |-> "refresh", row |-> row, access |-> minted + 1]
<1>4. /\ tokens' = Put(tokens, minted + 1, NewToken("access", row)) /\ minted' = minted + 1
      /\ spent' = IF r.op = "exchange" THEN spent \cup {r.secret} ELSE spent
      /\ req' = [req EXCEPT ![t] = s]
      /\ UNCHANGED <<invites, chats, clients, codes, held, lapsed, calls, granted, cut>>
  BY <1>1, <1>3 DEF IssueAccess, Continue
<1>5. minted \in Nat /\ held' = held
      /\ IsTable(held, {"invite", "bearer", "pending", "session", "code", "refresh"})
      /\ \A x \in DOMAIN held : x <= minted
  BY <1>4 DEF Ind, Stored, Tables, Drawn
<1>6. IsTable(held, {"invite", "bearer", "pending", "session", "code", "refresh"})'
      /\ \A x \in DOMAIN held' : x <= minted + 1
  BY <1>5 DEF IsTable
<1>7. /\ spent \subseteq spent' /\ spent' \subseteq Nat /\ \A x \in spent' : x <= minted
      /\ \A x \in DOMAIN codes : x \in spent' => codes[x].used
  <2>1. CASE r.op = "exchange"
    <3>1. r \in ExchangeJob /\ ExchangeOK(r) /\ r.secret \in Nat
      BY <1>1, <2>1, JobKinds DEF JobOK, ExchangeJob
    <3> QED BY <1>2, <1>4, <2>1, <3>1 DEF Ind, Stored, Tables, Drawn, SpentIsUsed, ExchangeOK
  <2>2. CASE r.op # "exchange"
    BY <1>4, <2>2 DEF Ind, Stored, Tables, Drawn, SpentIsUsed
  <2> QED BY <2>1, <2>2
<1>8. Stored' /\ Tables' /\ Grows
  BY <1>3, <1>4, <1>6, <1>7, NewRow
<1>9. PICK j \in Job : j = s
  <2>1. PICK a \in Nat : a = minted + 1
    BY <1>5
  <2>2. [op |-> "issue", at |-> "refresh", row |-> row, access |-> a] \in Job
    BY DEF Job, IssueJob
  <2> QED BY <2>1, <2>2
<1>10. JobOK(j)'
  <2>1. j.op = "issue" /\ j.row = row /\ j.access = minted'
    BY <1>4, <1>9
  <2>2. Sound(row)'
    BY <1>3, <1>4 DEF Sound
  <2> QED BY <1>4, <1>5, <2>1, <2>2 DEF JobOK, IssueOK
<1> QED BY <1>4, <1>8, <1>9, <1>10, OneJob

LEMMA IssueRefreshStep == ASSUME Ind, NEW t \in Thread, IssueRefresh(t) PROVE Ind'
<1>1. PICK r \in Job : r = req[t] /\ JobOK(r)
  BY DEF Ind
<1>2. r \in IssueJob /\ IssueOK(r) /\ r.row \in CodeRow \cup TokenRow /\ r.access \in Nat
  BY <1>1, JobKinds DEF IssueRefresh, At, JobOK, IssueJob
<1>3. /\ tokens' = Put(tokens, minted + 1, NewToken("refresh", r.row)) /\ minted' = minted + 1
      /\ held' = Put(Put(held, r.access, "bearer"), minted + 1, "refresh")
      /\ Answer(t)
      /\ UNCHANGED <<invites, chats, clients, codes, lapsed, calls, granted, spent, cut>>
  BY <1>1 DEF IssueRefresh, history
<1>4. minted \in Nat /\ r.access <= minted
  BY <1>2 DEF Ind, Stored, IssueOK
<1>5. IsTable(held, {"invite", "bearer", "pending", "session", "code", "refresh"})'
      /\ \A x \in DOMAIN held' : x <= minted + 1
  BY <1>2, <1>3, <1>4 DEF Ind, Stored, Tables, Drawn, IsTable, Put
<1>6. /\ spent \subseteq spent' /\ spent' \subseteq Nat /\ \A x \in spent' : x <= minted
      /\ \A x \in DOMAIN codes : x \in spent' => codes[x].used
  BY <1>3 DEF Ind, Stored, Tables, Drawn, SpentIsUsed
<1>7. Stored' /\ Tables' /\ Grows
  BY <1>2, <1>3, <1>5, <1>6, NewRow DEF IssueOK
<1> QED BY <1>3, <1>7, IdleOK, OneJob DEF Answer, Continue

-----------------------------------------------------------------------------
(* The owner takes things back, and the instance cleans up.                *)

LEMMA RotateBeginStep == ASSUME Ind, NEW t \in Thread, RotateBegin(t) PROVE Ind'
<1>1. PICK c \in DOMAIN chats : Continue(t, [op |-> "rotate", at |-> "select", chat |-> c])
  BY DEF RotateBegin
<1> DEFINE s == [op |-> "rotate", at |-> "select", chat |-> c]
<1>2. c \in Chat
  BY DEF Ind, Stored
<1>3. s \in Job /\ JobOK(s)
  BY <1>2 DEF Job, RotateJob, JobOK, RotateOK
<1> QED BY <1>1, <1>3, BeginReads DEF RotateBegin

LEMMA RotateSelectStep == ASSUME Ind, NEW t \in Thread, RotateSelect(t) PROVE Ind'
<1>1. PICK r \in Job : r = req[t] /\ JobOK(r)
  BY DEF Ind
<1>2. r \in RotateJob
  BY <1>1, JobKinds DEF RotateSelect, At
<1>3. UNCHANGED <<tables, outside>>
  BY DEF RotateSelect
<1>4. CASE IsOpen(r.chat) /\ Goto(t, "update")
  <2> DEFINE s == [r EXCEPT !.at = "update"]
  <2>1. s \in RotateJob /\ s.op = "rotate" /\ s.at = "update" /\ s.chat = r.chat
    BY <1>2 DEF RotateJob
  <2>2. s \in Job /\ JobOK(s)
    BY <1>4, <2>1 DEF Job, JobOK, RotateOK, IsOpen
  <2>3. Continue(t, s)
    BY <1>1, <1>4 DEF Goto, Continue
  <2> QED BY <1>3, <2>2, <2>3, ContinueReads
<1>5. CASE Answer(t)
  BY <1>3, <1>5, AnswerReads
<1> QED BY <1>1, <1>4, <1>5 DEF RotateSelect

LEMMA RotateUpdateStep == ASSUME Ind, NEW t \in Thread, RotateUpdate(t) PROVE Ind'
<1>1. PICK r \in Job : r = req[t] /\ JobOK(r)
  BY DEF Ind
<1>2. r \in RotateJob /\ r.chat \in DOMAIN chats
  BY <1>1, JobKinds DEF RotateUpdate, At, JobOK, RotateOK
<1> DEFINE k == minted + 1
<1>3. chats' = [chats EXCEPT ![r.chat].token = k] /\ held' = Put(held, k, "bearer")
      /\ minted' = k
  BY <1>1 DEF RotateUpdate
<1>4. UNCHANGED <<invites, clients, codes, tokens, lapsed, calls, granted, spent, cut>>
  BY DEF RotateUpdate, history
<1>5. k \in Nat /\ minted \in Nat /\ minted < k
  BY DEF Ind, Stored
<1> HIDE DEF k
<1>6. /\ DOMAIN chats' = DOMAIN chats
      /\ \A c \in DOMAIN chats :
           /\ chats[c] \in ChatRow /\ chats'[c] \in ChatRow
           /\ chats'[c].revoked = chats[c].revoked
           /\ chats'[c].token = IF c = r.chat THEN k ELSE chats[c].token
  BY <1>3, <1>5 DEF Ind, Stored, ChatRow
<1>7. Stored'
  <2>1. IsTable(held, {"invite", "bearer", "pending", "session", "code", "refresh"})'
    BY <1>3, <1>5 DEF Put, IsTable, Ind, Stored
  <2>2. chats' \in [DOMAIN chats' -> ChatRow]
    BY <1>3, <1>6
  <2> QED BY <1>3, <1>4, <1>5, <1>6, <2>1, <2>2 DEF Ind, Stored, IsTable
<1>8. Tables'
  <2>1. \A c \in DOMAIN chats : chats[c].token \in Nat /\ chats[c].token <= minted
    BY <1>6 DEF Ind, Tables, Drawn, ChatRow
  <2>2. \A c \in DOMAIN chats' : chats'[c].token <= minted'
    BY <1>3, <1>5, <1>6, <2>1
  <2>3. \A x \in DOMAIN codes' \cup DOMAIN tokens' \cup DOMAIN held' \cup spent' : x <= minted'
    BY <1>3, <1>4, <1>5 DEF Ind, Stored, IsTable, Tables, Drawn, Put
  <2>4. \A c, d \in DOMAIN chats' : chats'[c].token = chats'[d].token => c = d
    BY <1>5, <1>6, <2>1 DEF Ind, Tables, Drawn
  <2>5. \A c \in DOMAIN chats' : chats'[c].token \notin DOMAIN tokens'
    BY <1>4, <1>5, <1>6 DEF Ind, Stored, IsTable, Tables, Drawn
  <2> QED BY <1>4, <2>2, <2>3, <2>4, <2>5 DEF Ind, Tables, Drawn, SpentIsUsed, GrantedOnly
<1>9. Grows
  BY <1>3, <1>4, <1>5, <1>6 DEF Ind, Stored, Grows
<1> QED BY <1>7, <1>8, <1>9, IdleOK, OneJob DEF RotateUpdate, Answer, Continue

LEMMA CutBeginStep == ASSUME Ind, NEW t \in Thread, CutBegin(t) PROVE Ind'
<1>1. PICK client \in clients :
        /\ Continue(t, [op |-> "cut", at |-> "tokens", client |-> client])
        /\ cut' = cut \cup {client}
  BY DEF CutBegin
<1> DEFINE s == [op |-> "cut", at |-> "tokens", client |-> client]
<1>2. UNCHANGED <<invites, chats, clients, codes, tokens, held, lapsed, minted, granted, spent>>
  BY DEF CutBegin, tables
<1>3. client \in Client /\ cut' \subseteq Client /\ cut \subseteq cut' /\ calls' \in Nat
  BY <1>1 DEF CutBegin, Call, Ind, Stored
<1>4. Stored' /\ Tables' /\ Grows
  BY <1>2, <1>3 DEF Ind, Stored, IsTable, Tables, Drawn, SpentIsUsed, GrantedOnly, Grows
<1>5. s \in Job /\ JobOK(s)'
  BY <1>1, <1>3 DEF Job, CutJob, JobOK
<1> QED BY <1>1, <1>4, <1>5, OneJob DEF Continue

\* Collecting rows disturbs nothing.
LEMMA FewerRows ==
  ASSUME Ind,
         DOMAIN codes' \subseteq DOMAIN codes, codes' = [x \in DOMAIN codes' |-> codes[x]],
         DOMAIN tokens' \subseteq DOMAIN tokens, tokens' = [x \in DOMAIN tokens' |-> tokens[x]],
         UNCHANGED <<invites, chats, clients, held, lapsed, minted, calls, history>>
  PROVE  Stored' /\ Tables' /\ Grows
<1>1. UNCHANGED <<granted, spent, cut>>
  BY DEF history
<1>2. /\ \A x \in DOMAIN codes' : x \in DOMAIN codes /\ codes'[x] = codes[x]
      /\ \A x \in DOMAIN tokens' : x \in DOMAIN tokens /\ tokens'[x] = tokens[x]
  OBVIOUS
<1>3. Stored'
  <2>1. IsTable(codes, CodeRow)' /\ IsTable(tokens, TokenRow)'
    BY <1>2 DEF IsTable, Ind, Stored
  <2> QED BY <1>1, <1>2, <2>1 DEF Ind, Stored, IsTable
<1>4. Tables'
  BY <1>1, <1>2 DEF Ind, Tables, Drawn, SpentIsUsed, GrantedOnly
<1>5. Grows
  BY <1>1, <1>2 DEF Ind, Stored, Grows
<1> QED BY <1>3, <1>4, <1>5

LEMMA WithoutIs ==
  ASSUME NEW f, NEW S
  PROVE  /\ DOMAIN Without(f, S) \subseteq DOMAIN f
         /\ Without(f, S) = [x \in DOMAIN Without(f, S) |-> f[x]]
  BY DEF Without, Restrict

LEMMA Whole ==
  ASSUME Ind
  PROVE  codes = [x \in DOMAIN codes |-> codes[x]] /\ tokens = [x \in DOMAIN tokens |-> tokens[x]]
  BY DEF Ind, Stored, IsTable

LEMMA CutTokensStep == ASSUME Ind, NEW t \in Thread, CutTokens(t) PROVE Ind'
<1>1. PICK r \in Job : r = req[t] /\ JobOK(r)
  BY DEF Ind
<1>2. r \in CutJob /\ r.client \in cut
  BY <1>1, JobKinds DEF CutTokens, At, JobOK
<1>3. PICK doomed \in SUBSET DOMAIN tokens :
        tokens' = [k \in DOMAIN tokens |-> [tokens[k] EXCEPT !.revoked = @ \/ k \in doomed]]
  <2>1. LiveTokensOf(req[t].client) \in SUBSET DOMAIN tokens
    BY DEF LiveTokensOf
  <2> QED BY <2>1 DEF CutTokens
<1>4. UNCHANGED <<invites, chats, clients, codes, held, lapsed, minted, calls, granted, spent, cut>>
  BY DEF CutTokens, outside, history
<1>5. /\ DOMAIN tokens' = DOMAIN tokens
      /\ \A k \in DOMAIN tokens :
           /\ tokens[k] \in TokenRow /\ tokens'[k] \in TokenRow
           /\ tokens'[k].kind = tokens[k].kind /\ tokens'[k].client = tokens[k].client
           /\ tokens'[k].chat = tokens[k].chat
           /\ tokens[k].revoked => tokens'[k].revoked
  <2>1. DOMAIN tokens' = DOMAIN tokens
    BY <1>3
  <2>2. ASSUME NEW k \in DOMAIN tokens
        PROVE  /\ tokens[k] \in TokenRow /\ tokens'[k] \in TokenRow
               /\ tokens'[k].kind = tokens[k].kind /\ tokens'[k].client = tokens[k].client
               /\ tokens'[k].chat = tokens[k].chat
               /\ tokens[k].revoked => tokens'[k].revoked
    <3>1. tokens[k] \in TokenRow
      BY DEF Ind, Stored, IsTable
    <3>2. PICK row \in TokenRow : row = tokens[k]
      BY <3>1
    <3>3. PICK now \in BOOLEAN : now = (row.revoked \/ k \in doomed)
      BY DEF TokenRow
    <3>4. tokens'[k] = [row EXCEPT !.revoked = now]
      BY <1>3, <3>2, <3>3
    <3> QED BY <3>2, <3>3, <3>4 DEF TokenRow
  <2> QED BY <2>1, <2>2
<1>6. Stored'
  <2>1. tokens' \in [DOMAIN tokens' -> TokenRow]
    BY <1>3, <1>5
  <2> QED BY <1>4, <1>5, <2>1 DEF Ind, Stored, IsTable
<1>7. Tables'
  BY <1>4, <1>5 DEF Ind, Tables, Drawn, SpentIsUsed, GrantedOnly
<1>8. Grows
  BY <1>4, <1>5 DEF Ind, Stored, Grows
<1> DEFINE s == [r EXCEPT !.at = "codes"]
<1>9. s \in CutJob /\ s.op = "cut" /\ s.client = r.client
  BY <1>2 DEF CutJob
<1>10. s \in Job /\ JobOK(s)'
  BY <1>2, <1>4, <1>9 DEF Job, JobOK
<1>11. req' = [req EXCEPT ![t] = s]
  BY <1>1 DEF CutTokens, Goto, Continue
<1> QED BY <1>6, <1>7, <1>8, <1>10, <1>11, OneJob

LEMMA CutCodesStep == ASSUME Ind, NEW t \in Thread, CutCodes(t) PROVE Ind'
<1>1. Stored' /\ Tables' /\ Grows
  BY FewerRows, Whole, WithoutIs DEF CutCodes, outside, history
<1> QED BY <1>1, IdleOK, OneJob DEF CutCodes, Answer, Continue

LEMMA GcBeginStep == ASSUME Ind, NEW t \in Thread, GcBegin(t) PROVE Ind'
<1> DEFINE s == [op |-> "gc", at |-> "codes"]
<1>1. s \in Job /\ JobOK(s)
  BY DEF Job, GcJob, JobOK
<1> QED BY <1>1, BeginReads DEF GcBegin

LEMMA GcCodesStep == ASSUME Ind, NEW t \in Thread, GcCodes(t) PROVE Ind'
<1>1. PICK r \in Job : r = req[t] /\ JobOK(r)
  BY DEF Ind
<1>2. r \in GcJob
  BY <1>1, JobKinds DEF GcCodes, At
<1>3. Stored' /\ Tables' /\ Grows
  BY FewerRows, Whole, WithoutIs DEF GcCodes, outside, history
<1> DEFINE s == [r EXCEPT !.at = "tokens"]
<1>4. s \in GcJob /\ s.op = "gc"
  BY <1>2 DEF GcJob
<1>5. s \in Job /\ JobOK(s)'
  BY <1>4 DEF Job, JobOK
<1>6. req' = [req EXCEPT ![t] = s]
  BY <1>1 DEF GcCodes, Goto, Continue
<1> QED BY <1>3, <1>5, <1>6, OneJob

LEMMA GcTokensStep == ASSUME Ind, NEW t \in Thread, GcTokens(t) PROVE Ind'
<1>1. Stored' /\ Tables' /\ Grows
  BY FewerRows, Whole, WithoutIs DEF GcTokens, outside, history
<1> QED BY <1>1, IdleOK, OneJob DEF GcTokens, Answer, Continue

-----------------------------------------------------------------------------
(* Requests of one statement.                                              *)

\* A step that no handler takes: it is enough to look at the tables.
LEMMA NoJob ==
  ASSUME Ind, Stored', Tables', Grows, UNCHANGED req
  PROVE  Ind'
<1>1. ASSUME NEW u \in Thread PROVE JobOK(req[u])'
  <2>1. PICK r \in Job : r = req[u] /\ JobOK(r)
    BY DEF Ind
  <2>2. JobOK(r)'
    BY <2>1, JobOKStays DEF Ind
  <2>3. req'[u] = r
    BY <2>1
  <2> QED BY <2>2, <2>3 DEF JobOK, ApiOK, GrantOK, ExchangeOK, RefreshOK, IssueOK, RotateOK
<1> QED BY <1>1 DEF Ind

\* What was handed out says nothing about the tables.
LEMMA HandOut ==
  ASSUME Ind, UNCHANGED <<chats, clients, codes, tokens, req, lapsed, calls, history>>,
         minted' \in Nat, minted <= minted', IsTable(invites, BOOLEAN)',
         IsTable(held, {"invite", "bearer", "pending", "session", "code", "refresh"})',
         \A x \in DOMAIN held' : x <= minted'
  PROVE  Ind'
<1>0. minted \in Nat /\ UNCHANGED <<granted, spent, cut>>
  BY DEF Ind, Stored, history
<1>1. Stored'
  BY <1>0 DEF Ind, Stored, IsTable
<1>2. Tables'
  <2>1. \A c \in DOMAIN chats : chats[c].token \in Nat /\ chats[c].token <= minted'
    BY <1>0 DEF Ind, Stored, ChatRow, Tables, Drawn
  <2>2. \A x \in DOMAIN codes \cup DOMAIN tokens \cup spent : x \in Nat /\ x <= minted'
    BY <1>0 DEF Ind, Stored, IsTable, Tables, Drawn
  <2> QED BY <1>0, <2>1, <2>2 DEF Ind, Tables, Drawn, SpentIsUsed, GrantedOnly
<1>3. Grows
  BY <1>0, <1>2 DEF Ind, Stored, ChatRow, IsTable, Tables, Drawn, Grows
<1> QED BY <1>1, <1>2, <1>3, NoJob

LEMMA PutKeepsTable ==
  ASSUME NEW rows, NEW t, IsTable(t, rows), NEW k \in Nat, NEW row \in rows
  PROVE  IsTable(Put(t, k, row), rows)
  BY DEF IsTable, Put

LEMMA CreateInviteStep == ASSUME Ind, CreateInvite PROVE Ind'
<1>1. minted \in Nat /\ minted' = minted + 1
  BY DEF CreateInvite, Ind, Stored
<1>2. IsTable(invites, BOOLEAN)'
  <2>1. PICK no \in BOOLEAN : no = FALSE
    OBVIOUS
  <2>2. PICK k \in Nat : k = minted + 1
    BY <1>1
  <2>3. IsTable(invites, BOOLEAN)
    BY DEF Ind, Stored
  <2>4. IsTable(Put(invites, k, no), BOOLEAN)
    BY <2>3, PutKeepsTable
  <2>5. invites' = Put(invites, k, no)
    BY <2>1, <2>2 DEF CreateInvite
  <2> QED BY <2>4, <2>5 DEF IsTable
<1>3. IsTable(held, {"invite", "bearer", "pending", "session", "code", "refresh"})'
      /\ \A x \in DOMAIN held' : x <= minted'
  BY <1>1 DEF CreateInvite, Put, IsTable, Ind, Stored, Tables, Drawn
<1> QED BY <1>1, <1>2, <1>3, HandOut DEF CreateInvite

LEMMA SignInStep ==
  ASSUME Ind, NEW kind \in {"session", "pending"}, SignIn(kind)
  PROVE  Ind'
<1>1. minted \in Nat /\ minted' = minted + 1
  BY DEF SignIn, Ind, Stored
<1>2. UNCHANGED <<invites, chats, clients, codes, tokens, req, lapsed, calls, history>>
  BY DEF SignIn, tables
<1>3. IsTable(invites, BOOLEAN)'
  BY <1>2 DEF IsTable, Ind, Stored
<1>4. IsTable(held, {"invite", "bearer", "pending", "session", "code", "refresh"})'
      /\ \A x \in DOMAIN held' : x <= minted'
  BY <1>1 DEF SignIn, Put, IsTable, Ind, Stored, Tables, Drawn
<1> QED BY <1>1, <1>2, <1>3, <1>4, HandOut

LEMMA FinishSignInStep ==
  ASSUME Ind, NEW k \in Held("pending"), FinishSignIn(k)
  PROVE  Ind'
<1>1. minted \in Nat /\ minted' = minted + 1
  BY DEF FinishSignIn, Ind, Stored
<1>2. UNCHANGED <<invites, chats, clients, codes, tokens, req, lapsed, calls, history>>
  BY DEF FinishSignIn, tables
<1>3. IsTable(invites, BOOLEAN)'
  BY <1>2 DEF IsTable, Ind, Stored
<1>4. IsTable(held, {"invite", "bearer", "pending", "session", "code", "refresh"})'
      /\ \A x \in DOMAIN held' : x <= minted'
  BY <1>1 DEF FinishSignIn, Put, Without, Restrict, IsTable, Ind, Stored, Tables, Drawn
<1> QED BY <1>1, <1>2, <1>3, <1>4, HandOut

LEMMA RegisterStep ==
  ASSUME Ind, NEW code \in DOMAIN invites, NEW chat \in Chat, Register(code, chat)
  PROVE  Ind'
<1> DEFINE k == minted + 1
           row == [token |-> k, revoked |-> FALSE]
<1>1. k \in Nat /\ minted \in Nat /\ minted < k
  BY DEF Ind, Stored
<1>2. /\ invites' = [invites EXCEPT ![code] = TRUE] /\ chats' = Put(chats, chat, row)
      /\ held' = Put(held, k, "bearer") /\ minted' = k /\ chat \notin DOMAIN chats
      /\ UNCHANGED <<clients, codes, tokens, req, lapsed, calls, granted, spent, cut>>
  BY DEF Register, history
<1>3. row \in ChatRow /\ row.token = k /\ ~row.revoked
  BY <1>1 DEF ChatRow
<1> HIDE DEF k, row
<1>4. /\ DOMAIN chats' = DOMAIN chats \cup {chat} /\ chats'[chat] = row
      /\ \A c \in DOMAIN chats : chats'[c] = chats[c] /\ chats[c] \in ChatRow /\ c # chat
  BY <1>2 DEF Put, Ind, Stored
<1>5. Stored'
  <2>1. IsTable(invites, BOOLEAN)'
    BY <1>2 DEF IsTable, Ind, Stored
  <2>2. IsTable(held, {"invite", "bearer", "pending", "session", "code", "refresh"})'
    BY <1>1, <1>2 DEF Put, IsTable, Ind, Stored
  <2>3. DOMAIN chats' \subseteq Chat /\ chats' \in [DOMAIN chats' -> ChatRow]
    BY <1>2, <1>3, <1>4 DEF Put, Ind, Stored
  <2> QED BY <1>1, <1>2, <1>4, <2>1, <2>2, <2>3 DEF Ind, Stored, IsTable
<1>6. \A c \in DOMAIN chats : chats[c].token \in Nat /\ chats[c].token <= minted
  BY <1>4 DEF Ind, Tables, Drawn, ChatRow
<1>7. Tables'
  <2>1. \A c \in DOMAIN chats' : chats'[c].token <= minted'
    BY <1>1, <1>2, <1>3, <1>4, <1>6
  <2>2. \A x \in DOMAIN codes' \cup DOMAIN tokens' \cup DOMAIN held' \cup spent' : x <= minted'
    BY <1>1, <1>2 DEF Ind, Stored, IsTable, Tables, Drawn, Put
  <2>3. \A c, d \in DOMAIN chats' : chats'[c].token = chats'[d].token => c = d
    BY <1>1, <1>3, <1>4, <1>6 DEF Ind, Tables, Drawn
  <2>4. \A c \in DOMAIN chats' : chats'[c].token \notin DOMAIN tokens'
    BY <1>1, <1>2, <1>3, <1>4 DEF Ind, Stored, IsTable, Tables, Drawn
  <2> QED BY <1>2, <2>1, <2>2, <2>3, <2>4 DEF Ind, Tables, Drawn, SpentIsUsed, GrantedOnly
<1>8. Grows
  BY <1>1, <1>2, <1>3, <1>4 DEF Ind, Stored, Grows
<1> QED BY <1>2, <1>5, <1>7, <1>8, NoJob

LEMMA RegisterClientStep ==
  ASSUME Ind, NEW client \in Client, RegisterClient(client)
  PROVE  Ind'
<1>1. clients' \subseteq Client /\ UNCHANGED req
  BY DEF RegisterClient, Ind, Stored
<1>2. UNCHANGED <<invites, chats, codes, tokens, held, lapsed, minted, calls, granted, spent, cut>>
  BY DEF RegisterClient, outside, history
<1>3. Stored' /\ Tables' /\ Grows
  BY <1>1, <1>2 DEF Ind, Stored, IsTable, Tables, Drawn, SpentIsUsed, GrantedOnly, Grows
<1> QED BY <1>1, <1>3, NoJob

LEMMA RevokeChatStep ==
  ASSUME Ind, NEW chat \in DOMAIN chats, RevokeChat(chat)
  PROVE  Ind'
<1>1. chats' = [chats EXCEPT ![chat].revoked = TRUE] /\ UNCHANGED req
  BY DEF RevokeChat
<1>2. UNCHANGED <<invites, clients, codes, tokens, held, lapsed, minted, calls, granted, spent, cut>>
  BY DEF RevokeChat, outside, history
<1>3. /\ DOMAIN chats' = DOMAIN chats
      /\ \A c \in DOMAIN chats :
           /\ chats[c] \in ChatRow /\ chats'[c] \in ChatRow
           /\ chats'[c].token = chats[c].token
           /\ chats[c].revoked => chats'[c].revoked
  BY <1>1 DEF Ind, Stored, ChatRow
<1>4. Stored'
  <2>1. chats' \in [DOMAIN chats' -> ChatRow]
    BY <1>1, <1>3
  <2> QED BY <1>2, <1>3, <2>1 DEF Ind, Stored, IsTable
<1>5. Tables'
  BY <1>2, <1>3 DEF Ind, Tables, Drawn, SpentIsUsed, GrantedOnly
<1>6. Grows
  BY <1>2, <1>3 DEF Ind, Stored, Grows
<1> QED BY <1>1, <1>4, <1>5, <1>6, NoJob

LEMMA LapseStep == ASSUME Ind, NEW k \in 1..minted, Lapse(k) PROVE Ind'
<1>1. k \in Nat /\ lapsed' = lapsed \cup {k} /\ UNCHANGED req
  BY DEF Lapse, Ind, Stored
<1>2. UNCHANGED <<invites, chats, clients, codes, tokens, held, minted, calls, granted, spent, cut>>
  BY DEF Lapse, tables, history
<1>3. Stored' /\ Tables' /\ Grows
  BY <1>1, <1>2 DEF Ind, Stored, IsTable, Tables, Drawn, SpentIsUsed, GrantedOnly, Grows
<1> QED BY <1>1, <1>3, NoJob

LEMMA CrashStep == ASSUME Ind, Crash PROVE Ind'
<1>1. Stored' /\ Tables'
  BY FewerRows, WithoutIs DEF Crash
<1>2. req' \in [Thread -> Job] /\ \A t \in Thread : JobOK(req[t])'
  BY IdleOK DEF Crash, JobOK, Idle
<1> QED BY <1>1, <1>2 DEF Ind

-----------------------------------------------------------------------------
(* The whole.                                                              *)

LEMMA IndInit == ASSUME Init PROVE Ind
<1>1. Stored
  BY DEF Init, empty, Stored, IsTable
<1>2. Tables
  BY DEF Init, empty, Tables, Drawn, SpentIsUsed, GrantedOnly
<1>3. req \in [Thread -> Job] /\ \A t \in Thread : JobOK(req[t])
  BY IdleOK DEF Init
<1> QED BY <1>1, <1>2, <1>3 DEF Ind

LEMMA IndStep == ASSUME Ind, [Next]_vars PROVE Ind'
<1>1. CASE OneStep
  BY <1>1, CreateInviteStep, CrashStep, SignInStep, FinishSignInStep, RegisterStep,
     RegisterClientStep, RevokeChatStep, LapseStep DEF OneStep
<1>2. ASSUME NEW t \in Thread, Begin(t) PROVE Ind'
  BY <1>2, ApiBeginStep, GrantBeginStep, ExchangeBeginStep, RefreshBeginStep,
     RotateBeginStep, CutBeginStep, GcBeginStep DEF Begin
<1>3. ASSUME NEW t \in Thread, Step(t) PROVE Ind'
  BY <1>3, LookUpChatTokenStep, ResolveAccessTokenStep, LookUpChatStep, DoneStep,
     GrantClientStep, GrantChatStep, GrantInsertStep, ExchangeSelectStep, BurnStep,
     CheckStep, RefreshSelectStep, IssueAccessStep, IssueRefreshStep, RotateSelectStep,
     RotateUpdateStep, CutTokensStep, CutCodesStep, GcCodesStep, GcTokensStep DEF Step
<1>4. CASE UNCHANGED vars
  <2>1. UNCHANGED <<invites, chats, clients, codes, tokens, req, held, lapsed, minted,
                    calls, granted, spent, cut>>
    BY <1>4 DEF vars, tables, history
  <2>2. Stored' /\ Tables' /\ Grows
    BY <2>1 DEF Ind, Stored, IsTable, Tables, Drawn, SpentIsUsed, GrantedOnly, Grows
  <2> QED BY <2>1, <2>2, NoJob
<1> QED BY <1>1, <1>2, <1>3, <1>4 DEF Next, Stop

LEMMA IndAlways == Spec => []Ind
  BY IndInit, IndStep, PTL DEF Spec

\* Every row is of its schema and every handler where its code puts it, in every
\* interleaving and after every crash.
THEOREM CredentialsTypeCorrect == Spec => []TypeOK
<1>1. Ind => TypeOK
  BY DEF Ind, Stored, Job, TypeOK
<1> QED BY <1>1, IndAlways, PTL

\* Whatever runs beside authorize_submit, token and the revocations, a client is
\* only ever given codes and tokens for a chat the owner granted to it.
THEOREM ClientsActOnlyAsGranted == Spec => []GrantedOnly
<1>1. Ind => GrantedOnly
  BY DEF Ind, Tables
<1> QED BY <1>1, IndAlways, PTL

\* authenticate decides in three lookups, but never serves a secret that was
\* already worthless when the request began.
THEOREM DeadSecretsRefused == Spec => []DeadIsRefused
<1>1. Ind => DeadIsRefused
  BY DEF Ind, DeadIsRefused, At, JobOK, ApiOK
<1> QED BY <1>1, IndAlways, PTL

\* Nor does it refuse one that is still good as it answers.
THEOREM GoodSecretsServed == Spec => []AliveIsServed
<1>1. Ind => AliveIsServed
  BY DEF Ind, AliveIsServed, At, JobOK, ApiOK
<1> QED BY <1>1, IndAlways, PTL

\* An exchange that begins after another exchange of its code has ended, or has
\* stored a token, comes to nothing: a crash between the statements of the first
\* one does not make the code good again.
THEOREM ReplayedCodeFails == Spec => []ReplayFails
<1>1. Ind => ReplayFails
  BY DEF Ind, ReplayFails, At, JobOK, ExchangeOK
<1> QED BY <1>1, IndAlways, PTL

-----------------------------------------------------------------------------
(* What becomes of a token.                                                *)

\* The tokens that die in this step have a reason to.
Reasoned ==
  \A k \in DOMAIN tokens :
    Live(k) /\ ~Live(k)' =>
      tokens[k].client \in cut \/ (tokens[k].kind = "access" /\ k \in lapsed)

LEMMA KeptRows ==
  ASSUME \A k \in DOMAIN tokens : k \in DOMAIN tokens' /\ tokens'[k] = tokens[k]
  PROVE  Reasoned
  BY DEF Reasoned, Live

\* Cleaning takes expired access tokens.
LEMMA CollectedRows ==
  ASSUME tokens' = Without(tokens, ExpiredAccess)
  PROVE  Reasoned
<1>1. \A k \in DOMAIN tokens :
        k \in ExpiredAccess \/ (k \in DOMAIN tokens' /\ tokens'[k] = tokens[k])
  BY DEF Without, Restrict
<1> QED BY <1>1 DEF Reasoned, Live, ExpiredAccess

\* A new row takes a number of its own.
LEMMA AddedRow ==
  ASSUME Ind, NEW row, tokens' = Put(tokens, minted + 1, row)
  PROVE  Reasoned
<1>1. \A k \in DOMAIN tokens : k # minted + 1
  BY DEF Ind, Stored, Tables, Drawn
<1> QED BY <1>1, KeptRows DEF Put

LEMMA CutReasoned == ASSUME Ind, NEW t \in Thread, CutTokens(t) PROVE Reasoned
<1>1. PICK r \in Job : r = req[t] /\ JobOK(r)
  BY DEF Ind
<1>2. r.client \in cut
  BY <1>1, JobKinds DEF CutTokens, At, JobOK
<1>3. tokens' = [k \in DOMAIN tokens |->
                   [tokens[k] EXCEPT !.revoked = @ \/ k \in LiveTokensOf(r.client)]]
  BY <1>1 DEF CutTokens
<1>4. ASSUME NEW k \in DOMAIN tokens, Live(k), ~Live(k)'
      PROVE  tokens[k].client \in cut
  <2>1. CASE k \in LiveTokensOf(r.client)
    BY <1>2, <2>1 DEF LiveTokensOf
  <2>2. CASE k \notin LiveTokensOf(r.client)
    <3>1. tokens[k] \in TokenRow
      BY DEF Ind, Stored, IsTable
    <3>2. ~tokens[k].revoked /\ tokens[k].revoked \in BOOLEAN
      BY <1>4, <3>1 DEF Live, TokenRow
    <3>3. tokens'[k] = [tokens[k] EXCEPT !.revoked = FALSE] /\ k \in DOMAIN tokens'
      BY <1>3, <2>2, <3>2
    <3>4. ~tokens'[k].revoked
      BY <3>1, <3>3 DEF TokenRow
    <3> QED BY <1>4, <3>3, <3>4 DEF Live
  <2> QED BY <2>1, <2>2
<1> QED BY <1>4 DEF Reasoned

LEMMA StepReasoned == ASSUME Ind, [Next]_vars PROVE Reasoned
<1>1. CASE UNCHANGED tokens
  BY <1>1, KeptRows
<1>2. CASE OneStep
  BY <1>1, <1>2, CollectedRows DEF OneStep, CreateInvite, Crash, SignIn, FinishSignIn,
     Register, RegisterClient, RevokeChat, Lapse, tables
<1>3. ASSUME NEW t \in Thread, Begin(t) PROVE Reasoned
  BY <1>1, <1>3 DEF Begin, ApiBegin, GrantBegin, ExchangeBegin, RefreshBegin,
     RotateBegin, CutBegin, GcBegin, tables
<1>4. ASSUME NEW t \in Thread, Step(t) PROVE Reasoned
  <2>1. CASE IssueAccess(t) \/ IssueRefresh(t)
    BY <2>1, AddedRow DEF IssueAccess, IssueRefresh
  <2>2. CASE CutTokens(t)
    BY <2>2, CutReasoned
  <2>3. CASE GcTokens(t)
    BY <2>3, CollectedRows DEF GcTokens
  <2>4. CASE \/ LookUpChatToken(t) \/ ResolveAccessToken(t) \/ LookUpChat(t) \/ Done(t)
             \/ GrantClient(t) \/ GrantChat(t) \/ GrantInsert(t)
             \/ ExchangeSelect(t) \/ Burn(t) \/ Check(t) \/ RefreshSelect(t)
             \/ RotateSelect(t) \/ RotateUpdate(t) \/ CutCodes(t) \/ GcCodes(t)
    BY <1>1, <2>4 DEF LookUpChatToken, ResolveAccessToken, LookUpChat, Done, GrantClient,
       GrantChat, GrantInsert, ExchangeSelect, Burn, Check, RefreshSelect, RotateSelect,
       RotateUpdate, CutCodes, GcCodes, tables
  <2> QED BY <1>4, <2>1, <2>2, <2>3, <2>4 DEF Step
<1> QED BY <1>1, <1>2, <1>3, <1>4 DEF Next, Stop, vars, tables

\* revoke_oauth_client and _gc are the only ways a token stops working, and each
\* takes only what it should, in every interleaving.
THEOREM TokensDieForAReason == Spec => DiesForAReason
<1>1. Ind /\ [Next]_vars =>
        [\A k \in DOMAIN tokens :
           Live(k) /\ ~Live(k)' =>
             tokens[k].client \in cut \/ (tokens[k].kind = "access" /\ k \in lapsed)]_vars
  BY StepReasoned DEF Reasoned
<1> QED BY <1>1, IndAlways, PTL DEF Spec, DiesForAReason
=============================================================================
