----------------------------- MODULE Credentials -----------------------------
(***************************************************************************)
(* Who may speak for a chat: invitations and chat tokens (app/main.py,     *)
(* app/security.py), and the authorization server that gives OAuth clients *)
(* tokens of their own (app/oauth.py).                                     *)
(*                                                                         *)
(* As in Store, one autocommitted statement is one step, and so is what a  *)
(* handler does between two statements.  Only register is a transaction.   *)
(* Every secret is a number, drawn once.  What a secret hashes to, which   *)
(* redirect address a client registered and what its PKCE verifier is are  *)
(* not told apart from the secret and the client: a client knows its own.  *)
(***************************************************************************)
EXTENDS Integers, FiniteSets, Functions

CONSTANTS
  Chat,         \* handles; a row of `chats` is named by its handle
  Client,       \* the OAuth clients that may register
  Thread,       \* threads, each serving one request at a time
  None,
  MaxInvites,   \* bound: how many invitations the owner makes
  MaxSignIns,   \* bound: how many times the owner signs in
  MaxLapses,    \* bound: how many secrets outlive their time
  MaxCalls      \* bound: how many other requests are served

ASSUME CredentialsAssumption ==
  /\ MaxInvites \in Nat /\ MaxSignIns \in Nat /\ MaxLapses \in Nat
  /\ MaxCalls \in Nat
  /\ None \notin Nat

VARIABLES
  invites,   \* code -> is it used
  chats,     \* handle -> [token, revoked]
  clients,   \* the clients registered
  codes,     \* oauth_codes: code -> [client, chat, used]
  tokens,    \* oauth_tokens: token -> [kind, client, chat, revoked]
  req,       \* thread -> where its handler is, and its local variables
  held,      \* what was handed out: secret -> what it is
  lapsed,    \* the secrets whose time is up
  minted,    \* how many secrets have been drawn
  calls,     \* how many of those requests have begun
  granted,   \* history: the <<client, chat>> a signed-in owner agreed to
  spent,     \* history: the codes an exchange has ended with, or issued for
  cut        \* history: the clients the owner has asked to revoke

tables == <<invites, chats, clients, codes, tokens>>
history == <<granted, spent, cut>>
vars == <<tables, req, held, lapsed, minted, calls, history>>

-----------------------------------------------------------------------------

ChatRow == [token: Nat, revoked: BOOLEAN]
CodeRow == [client: Client, chat: Chat, used: BOOLEAN]
TokenRow == [kind: {"access", "refresh"}, client: Client, chat: Chat, revoked: BOOLEAN]

empty == [x \in {} |-> None]

Put(t, k, row) == [x \in DOMAIN t \cup {k} |-> IF x = k THEN row ELSE t[x]]

Without(t, S) == Restrict(t, DOMAIN t \ S)

Idle == [op |-> "idle"]

At(t, op, at) == req[t].op = op /\ req[t].at = at

Continue(t, s) == req' = [req EXCEPT ![t] = s]

Goto(t, at) == Continue(t, [req[t] EXCEPT !.at = at])

Answer(t) == Continue(t, Idle)

Held(kind) == {k \in DOMAIN held : held[k] = kind}

Call(t) ==
  /\ req[t] = Idle
  /\ calls < MaxCalls /\ calls' = calls + 1

\* What a step of a handler leaves alone when it only reads.
outside == <<held, lapsed, minted, calls, history>>

-----------------------------------------------------------------------------
(* Requests of one statement, or one transaction.                          *)

CreateInvite ==
  /\ Cardinality(DOMAIN invites) < MaxInvites
  /\ invites' = Put(invites, minted + 1, FALSE)
  /\ held' = Put(held, minted + 1, "invite")
  /\ minted' = minted + 1
  /\ UNCHANGED <<chats, clients, codes, tokens, req, lapsed, calls, history>>

\* The invitation, and the handle, are looked up and taken in one transaction.
Register(code, chat) ==
  /\ ~invites[code] /\ code \notin lapsed
  /\ chat \notin DOMAIN chats
  /\ invites' = [invites EXCEPT ![code] = TRUE]
  /\ chats' = Put(chats, chat, [token |-> minted + 1, revoked |-> FALSE])
  /\ held' = Put(held, minted + 1, "bearer")
  /\ minted' = minted + 1
  /\ UNCHANGED <<clients, codes, tokens, req, lapsed, calls, history>>

RegisterClient(client) ==
  /\ client \notin clients
  /\ clients' = clients \cup {client}
  /\ UNCHANGED <<invites, chats, codes, tokens, req, outside>>

\* The owner signs in by passphrase; or by a provider, or a code by mail, which
\* is two requests with a pending cookie between them.  A cookie is signed and
\* dated, and nothing is stored; the browser drops one it is told to delete.
Cookies == Held("session") \cup Held("pending")

SignIn(kind) ==
  /\ Cardinality(Cookies) < MaxSignIns
  /\ held' = Put(held, minted + 1, kind)
  /\ minted' = minted + 1
  /\ UNCHANGED <<tables, req, lapsed, calls, history>>

\* What the provider vouches for, or the code typed, is right.
FinishSignIn(k) ==
  /\ k \notin lapsed
  /\ held' = Put(Without(held, {k}), minted + 1, "session")
  /\ minted' = minted + 1
  /\ UNCHANGED <<tables, req, lapsed, calls, history>>

RevokeChat(chat) ==
  /\ ~chats[chat].revoked
  /\ chats' = [chats EXCEPT ![chat].revoked = TRUE]
  /\ UNCHANGED <<invites, clients, codes, tokens, req, outside>>

-----------------------------------------------------------------------------
(* authenticate: a bearer token is looked up among the chats, then among   *)
(* the access tokens, and then the chat that one speaks for is looked up.  *)

TokenOf(k) == {c \in DOMAIN chats : chats[c].token = k}

\* What the three lookups together are to decide.
Speaks(k) ==
  \/ \E c \in TokenOf(k) : ~chats[c].revoked
  \/ /\ k \in DOMAIN tokens
     /\ tokens[k].kind = "access" /\ ~tokens[k].revoked /\ k \notin lapsed
     /\ ~chats[tokens[k].chat].revoked

\* `alive` is history: what the secret was worth when the request began.
ApiBegin(t) ==
  /\ Call(t)
  /\ \E k \in Held("bearer") :
       Continue(t, [op |-> "api", at |-> "chats", secret |-> k, chat |-> None,
                    alive |-> Speaks(k)])
  /\ UNCHANGED <<tables, held, lapsed, minted, history>>

LookUpChatToken(t) ==
  /\ At(t, "api", "chats")
  /\ LET found == TokenOf(req[t].secret) IN
       \/ found = {} /\ Goto(t, "tokens")
       \/ \E c \in found :
            Continue(t, [req[t] EXCEPT !.chat = c,
                           !.at = IF chats[c].revoked THEN "refused" ELSE "served"])
  /\ UNCHANGED <<tables, outside>>

\* Mutant: the comparison of times is the wrong way round.
ResolvesOnceExpired(k) ==
  IF /\ k \in DOMAIN tokens /\ tokens[k].kind = "access"
     /\ ~tokens[k].revoked /\ k \in lapsed
  THEN {tokens[k].chat} ELSE {}

\* resolve_access_token
ResolvesTo(k) ==
  IF /\ k \in DOMAIN tokens /\ tokens[k].kind = "access"
     /\ ~tokens[k].revoked /\ k \notin lapsed
  THEN {tokens[k].chat} ELSE {}

ResolveAccessToken(t) ==
  /\ At(t, "api", "tokens")
  /\ LET found == ResolvesTo(req[t].secret) IN
       \/ found = {} /\ Goto(t, "refused")
       \/ \E c \in found : Continue(t, [req[t] EXCEPT !.at = "speaks", !.chat = c])
  /\ UNCHANGED <<tables, outside>>

\* Mutant: an access token is good for as long as it lasts.
Exists(chat) == chat \in DOMAIN chats

IsOpen(chat) == chat \in DOMAIN chats /\ ~chats[chat].revoked

LookUpChat(t) ==
  /\ At(t, "api", "speaks")
  /\ Goto(t, IF IsOpen(req[t].chat) THEN "served" ELSE "refused")
  /\ UNCHANGED <<tables, outside>>

\* The handler answers; what an authenticated chat goes on to do is in the
\* other modules.
Done(t) ==
  /\ req[t] # Idle /\ req[t].at \in {"served", "refused"}
  /\ Answer(t)
  /\ UNCHANGED <<tables, outside>>

-----------------------------------------------------------------------------
(* authorize_submit: the owner, at a browser, lets a client speak for one  *)
(* of the chats the page listed.                                           *)

\* Mutant: the session is taken for granted.
HasCookie(cookie) == cookie # None

ValidSession(cookie) == cookie # None /\ cookie \notin lapsed

\* The page can be old: its cookie has lapsed, its chat is revoked.
GrantBegin(t) ==
  /\ Call(t)
  /\ \E client \in Client, chat \in Chat, cookie \in Held("session") \cup {None} :
       /\ Continue(t, [op |-> "grant", at |-> "client", client |-> client,
                       chat |-> chat, cookie |-> cookie])
       /\ granted' = IF cookie = None \/ cookie \in lapsed THEN granted
                     ELSE granted \cup {<<client, chat>>}
  /\ UNCHANGED <<tables, held, lapsed, minted, spent, cut>>

GrantClient(t) ==
  /\ At(t, "grant", "client")
  /\ \/ req[t].client \in clients /\ ValidSession(req[t].cookie) /\ Goto(t, "chat")
     \/ ~(req[t].client \in clients /\ ValidSession(req[t].cookie)) /\ Answer(t)
  /\ UNCHANGED <<tables, outside>>

GrantChat(t) ==
  /\ At(t, "grant", "chat")
  /\ \/ IsOpen(req[t].chat) /\ Goto(t, "insert")
     \/ ~IsOpen(req[t].chat) /\ Answer(t)
  /\ UNCHANGED <<tables, outside>>

\* The code reaches the client through the redirect.
GrantInsert(t) ==
  /\ At(t, "grant", "insert")
  /\ codes' = Put(codes, minted + 1,
                  [client |-> req[t].client, chat |-> req[t].chat, used |-> FALSE])
  /\ held' = Put(held, minted + 1, "code")
  /\ minted' = minted + 1
  /\ Answer(t)
  /\ UNCHANGED <<invites, chats, clients, tokens, lapsed, calls, history>>

-----------------------------------------------------------------------------
(* token: a code, or a refresh token, is exchanged for new tokens.         *)

Worth(code) == code \in DOMAIN codes /\ code \notin lapsed /\ code \notin spent

ExchangeBegin(t) ==
  /\ Call(t)
  /\ \E k \in Held("code"), client \in clients :
       Continue(t, [op |-> "exchange", at |-> "select", secret |-> k,
                    presenter |-> client, row |-> None, alive |-> Worth(k)])
  /\ UNCHANGED <<tables, held, lapsed, minted, history>>

ExchangeSelect(t) ==
  /\ At(t, "exchange", "select")
  /\ LET k == req[t].secret IN
       \/ k \notin DOMAIN codes /\ Goto(t, "refused")
       \/ /\ k \in DOMAIN codes
          /\ Continue(t, [req[t] EXCEPT !.at = "burn", !.row = codes[k]])
  /\ UNCHANGED <<tables, outside>>

\* The UPDATE finds no row if the code was collected, or cut, in between.
Burn(t) ==
  /\ At(t, "exchange", "burn")
  /\ codes' = [k \in DOMAIN codes |->
                 IF k = req[t].secret THEN [codes[k] EXCEPT !.used = TRUE] ELSE codes[k]]
  /\ Goto(t, "check")
  /\ UNCHANGED <<invites, chats, clients, tokens, outside>>

\* Mutant: what the row said of its use is forgotten.
Unexpired(code, row) == code \notin lapsed

Redeemable(code, row) == ~row.used /\ code \notin lapsed

\* Both tokens are drawn before the first of them is stored.
Check(t) ==
  /\ At(t, "exchange", "check")
  /\ LET s == req[t]
         passes == Redeemable(s.secret, s.row) /\ s.presenter = s.row.client
     IN \/ /\ ~passes /\ Goto(t, "refused")
           /\ spent' = spent \cup {s.secret}
        \/ /\ passes
           /\ Continue(t, [s EXCEPT !.at = "access"])
           /\ UNCHANGED spent
  /\ UNCHANGED <<tables, held, lapsed, minted, calls, granted, cut>>

RefreshBegin(t) ==
  /\ Call(t)
  /\ \E k \in Held("refresh") :
       Continue(t, [op |-> "refresh", at |-> "select", secret |-> k, row |-> None])
  /\ UNCHANGED <<tables, held, lapsed, minted, history>>

RefreshSelect(t) ==
  /\ At(t, "refresh", "select")
  /\ LET k == req[t].secret IN
       \/ /\ k \in DOMAIN tokens /\ ~tokens[k].revoked
          /\ Continue(t, [req[t] EXCEPT !.at = "access", !.row = tokens[k]])
       \/ ~(k \in DOMAIN tokens /\ ~tokens[k].revoked) /\ Goto(t, "refused")
  /\ UNCHANGED <<tables, outside>>

NewToken(kind, row) ==
  [kind |-> kind, client |-> row.client, chat |-> row.chat, revoked |-> FALSE]

\* issue_tokens stores the access token, then the refresh token.
IssueAccess(t) ==
  /\ req[t] # Idle /\ req[t].at = "access"
  /\ tokens' = Put(tokens, minted + 1, NewToken("access", req[t].row))
  /\ minted' = minted + 1
  /\ spent' = IF req[t].op = "exchange" THEN spent \cup {req[t].secret} ELSE spent
  /\ Continue(t, [op |-> "issue", at |-> "refresh", row |-> req[t].row,
                  access |-> minted + 1])
  /\ UNCHANGED <<invites, chats, clients, codes, held, lapsed, calls, granted, cut>>

IssueRefresh(t) ==
  /\ At(t, "issue", "refresh")
  /\ tokens' = Put(tokens, minted + 1, NewToken("refresh", req[t].row))
  /\ minted' = minted + 1
  /\ held' = Put(Put(held, req[t].access, "bearer"), minted + 1, "refresh")
  /\ Answer(t)
  /\ UNCHANGED <<invites, chats, clients, codes, lapsed, calls, history>>

-----------------------------------------------------------------------------
(* The owner takes things back.                                            *)

RotateBegin(t) ==
  /\ Call(t)
  /\ \E c \in DOMAIN chats : Continue(t, [op |-> "rotate", at |-> "select", chat |-> c])
  /\ UNCHANGED <<tables, held, lapsed, minted, history>>

RotateSelect(t) ==
  /\ At(t, "rotate", "select")
  /\ \/ IsOpen(req[t].chat) /\ Goto(t, "update")
     \/ ~IsOpen(req[t].chat) /\ Answer(t)
  /\ UNCHANGED <<tables, outside>>

RotateUpdate(t) ==
  /\ At(t, "rotate", "update")
  /\ chats' = [chats EXCEPT ![req[t].chat].token = minted + 1]
  /\ held' = Put(held, minted + 1, "bearer")
  /\ minted' = minted + 1
  /\ Answer(t)
  /\ UNCHANGED <<invites, clients, codes, tokens, lapsed, calls, history>>

\* revoke_oauth_client finds the client, revokes its tokens and deletes the
\* codes it has not used.
CutBegin(t) ==
  /\ Call(t)
  /\ \E client \in clients :
       /\ Continue(t, [op |-> "cut", at |-> "tokens", client |-> client])
       /\ cut' = cut \cup {client}
  /\ UNCHANGED <<tables, held, lapsed, minted, granted, spent>>

\* Mutant: the statement lost its condition on the client.
AllTokens(client) == {k \in DOMAIN tokens : ~tokens[k].revoked}

LiveTokensOf(client) ==
  {k \in DOMAIN tokens : tokens[k].client = client /\ ~tokens[k].revoked}

CutTokens(t) ==
  /\ At(t, "cut", "tokens")
  /\ LET doomed == LiveTokensOf(req[t].client) IN
       tokens' = [k \in DOMAIN tokens |->
                    [tokens[k] EXCEPT !.revoked = @ \/ k \in doomed]]
  /\ Goto(t, "codes")
  /\ UNCHANGED <<invites, chats, clients, codes, outside>>

CutCodes(t) ==
  /\ At(t, "cut", "codes")
  /\ codes' = Without(codes, {k \in DOMAIN codes :
                                codes[k].client = req[t].client /\ ~codes[k].used})
  /\ Answer(t)
  /\ UNCHANGED <<invites, chats, clients, tokens, outside>>

ExpiredCodes == DOMAIN codes \cap lapsed

ExpiredAccess == {k \in DOMAIN tokens \cap lapsed : tokens[k].kind = "access"}

\* _gc, on demand.
GcBegin(t) ==
  /\ Call(t)
  /\ Continue(t, [op |-> "gc", at |-> "codes"])
  /\ UNCHANGED <<tables, held, lapsed, minted, history>>

GcCodes(t) ==
  /\ At(t, "gc", "codes")
  /\ codes' = Without(codes, ExpiredCodes)
  /\ Goto(t, "tokens")
  /\ UNCHANGED <<invites, chats, clients, tokens, outside>>

GcTokens(t) ==
  /\ At(t, "gc", "tokens")
  /\ tokens' = Without(tokens, ExpiredAccess)
  /\ Answer(t)
  /\ UNCHANGED <<invites, chats, clients, codes, outside>>

-----------------------------------------------------------------------------

\* Invitations, sessions, codes and access tokens have a time; chat tokens and
\* refresh tokens have none.
Lapse(k) ==
  /\ \/ k \in DOMAIN invites /\ ~invites[k]
     \/ k \in Cookies \/ k \in DOMAIN codes
     \/ k \in DOMAIN tokens /\ tokens[k].kind = "access"
  /\ k \notin lapsed /\ Cardinality(lapsed) < MaxLapses
  /\ lapsed' = lapsed \cup {k}
  /\ UNCHANGED <<tables, req, held, minted, calls, history>>

\* The process dies with its handlers; the next one collects before it serves.
Crash ==
  /\ req' = [t \in Thread |-> Idle]
  /\ codes' = Without(codes, ExpiredCodes)
  /\ tokens' = Without(tokens, ExpiredAccess)
  /\ UNCHANGED <<invites, chats, clients, held, lapsed, minted, calls, history>>

Init ==
  /\ invites = empty /\ chats = empty /\ clients = {}
  /\ codes = empty /\ tokens = empty
  /\ req = [t \in Thread |-> Idle]
  /\ held = empty /\ lapsed = {} /\ minted = 0
  /\ calls = 0
  /\ granted = {} /\ spent = {} /\ cut = {}

OneStep ==
  \/ CreateInvite \/ Crash
  \/ \E kind \in {"session", "pending"} : SignIn(kind)
  \/ \E k \in Held("pending") : FinishSignIn(k)
  \/ \E code \in DOMAIN invites, chat \in Chat : Register(code, chat)
  \/ \E client \in Client : RegisterClient(client)
  \/ \E chat \in DOMAIN chats : RevokeChat(chat)
  \/ \E k \in 1..minted : Lapse(k)

Begin(t) ==
  \/ ApiBegin(t) \/ GrantBegin(t) \/ ExchangeBegin(t) \/ RefreshBegin(t)
  \/ RotateBegin(t) \/ CutBegin(t) \/ GcBegin(t)

Step(t) ==
  \/ LookUpChatToken(t) \/ ResolveAccessToken(t) \/ LookUpChat(t) \/ Done(t)
  \/ GrantClient(t) \/ GrantChat(t) \/ GrantInsert(t)
  \/ ExchangeSelect(t) \/ Burn(t) \/ Check(t) \/ RefreshSelect(t)
  \/ IssueAccess(t) \/ IssueRefresh(t)
  \/ RotateSelect(t) \/ RotateUpdate(t) \/ CutTokens(t) \/ CutCodes(t)
  \/ GcCodes(t) \/ GcTokens(t)

\* Every handler has answered and nobody calls.
Stop == (\A t \in Thread : req[t] = Idle) /\ UNCHANGED vars

Next == OneStep \/ (\E t \in Thread : Begin(t) \/ Step(t)) \/ Stop

Spec == Init /\ [][Next]_vars
-----------------------------------------------------------------------------
(* Properties.                                                             *)

IsTable(t, rows) == DOMAIN t \subseteq Nat /\ t \in [DOMAIN t -> rows]

ApiJob == [op: {"api"}, at: {"chats", "tokens", "speaks", "served", "refused"},
           secret: Nat, chat: Chat \cup {None}, alive: BOOLEAN]
GrantJob == [op: {"grant"}, at: {"client", "chat", "insert"}, client: Client,
             chat: Chat, cookie: Nat \cup {None}]
ExchangeJob == [op: {"exchange"}, at: {"select", "burn", "check", "access", "refused"},
                secret: Nat, presenter: Client, row: CodeRow \cup {None}, alive: BOOLEAN]
RefreshJob == [op: {"refresh"}, at: {"select", "access", "refused"}, secret: Nat,
               row: TokenRow \cup {None}]
IssueJob == [op: {"issue"}, at: {"refresh"}, row: CodeRow \cup TokenRow, access: Nat]
RotateJob == [op: {"rotate"}, at: {"select", "update"}, chat: Chat]
CutJob == [op: {"cut"}, at: {"tokens", "codes"}, client: Client]
GcJob == [op: {"gc"}, at: {"codes", "tokens"}]

\* Every table holds rows of its schema, no code or token names a chat that was
\* never registered, and every handler is at a statement of its own.
TypeOK ==
  /\ IsTable(invites, BOOLEAN) /\ clients \subseteq Client
  /\ DOMAIN chats \subseteq Chat /\ chats \in [DOMAIN chats -> ChatRow]
  /\ IsTable(codes, CodeRow) /\ \A k \in DOMAIN codes : codes[k].chat \in DOMAIN chats
  /\ IsTable(tokens, TokenRow) /\ \A k \in DOMAIN tokens : tokens[k].chat \in DOMAIN chats
  /\ req \in [Thread -> {Idle} \cup ApiJob \cup GrantJob \cup ExchangeJob \cup RefreshJob
                          \cup IssueJob \cup RotateJob \cup CutJob \cup GcJob]
  /\ IsTable(held, {"invite", "bearer", "pending", "session", "code", "refresh"})
  /\ lapsed \subseteq Nat /\ spent \subseteq Nat /\ cut \subseteq Client
  /\ granted \subseteq Client \X Chat
  /\ minted \in Nat /\ calls \in Nat

\* A client only ever holds codes and tokens for chats that a signed-in owner has
\* granted to it, whatever is granted, exchanged and revoked meanwhile.
GrantedOnly ==
  /\ \A k \in DOMAIN codes : <<codes[k].client, codes[k].chat>> \in granted
  /\ \A k \in DOMAIN tokens : <<tokens[k].client, tokens[k].chat>> \in granted

\* The old token dies on the spot: a request that begins when its secret has
\* been rotated, revoked or has expired, or its chat is revoked, is never served,
\* whatever the three lookups see.
DeadIsRefused == \A t \in Thread : At(t, "api", "served") => req[t].alive

\* And a secret that is still good when the request ends was good all along:
\* rotations, cuts and cleaning beside it do not make its request fail.
AliveIsServed == \A t \in Thread : At(t, "api", "refused") => ~Speaks(req[t].secret)

\* A replayed code fails even if what followed its first exchange was cut short
\* by a crash: nothing is issued to an exchange that begins after another one of
\* the same code has issued a token, or has ended.
ReplayFails == \A t \in Thread : At(t, "exchange", "access") => req[t].alive

Live(k) == k \in DOMAIN tokens /\ ~tokens[k].revoked

\* Cutting one client leaves the others working, and cleaning takes only what
\* has expired: a refresh token dies with its client and never otherwise.
DiesForAReason ==
  [][\A k \in DOMAIN tokens :
       Live(k) /\ ~Live(k)' =>
         tokens[k].client \in cut \/ (tokens[k].kind = "access" /\ k \in lapsed)]_vars
=============================================================================
