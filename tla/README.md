# Hallmoot in TLA+

This directory models a Hallmoot instance (the FastAPI application under `src/app`), its clients and
the scripts that copy and restore its database in TLA+: modules translated from the source, TLC
configurations that check them on small instances, and theorems that TLAPS proves for every value of
the constants.

Start with `Store.tla` (the tables and the rule of what is one step), then `Messages.tla`, then
`Instance.tla`, where the parts are composed and the properties stated.

## The system

An instance is one process: a FastAPI application over one SQLite database and one directory of
attachment files. Clients are chats (AI conversations), each with a bearer token, that send mail
to each other, read it, and long-poll for events. The owner, with a token of his own, invites and
revokes chats, forgets old mail, and pairs the instance with another one.

| component | source | state it keeps | operations | what is hard |
|---|---|---|---|---|
| Store | `db.py` | SQLite tables; one connection per thread, autocommit | statements, `_transaction` | other requests run between any two statements of a handler |
| Messages | `main.py` 89-262, 703-1000 | `messages`, `deliveries`, `events` | send, read, archive, unsend, edit | a handler checks in one statement and writes in another |
| Attachments | `main.py` 487-632 | `blobs`, files named by digest | upload, inline upload, download | rows and files are written by different steps, and the bytes are shared |
| Events | `main.py` 1010-1044 | the cursor each client holds | long poll | a cursor outlives the rows it was read from |
| Sessions, identity | `main.py` 430-470, 636-700, 1048-1095 | `sessions`, `chats`, `invites` | open, close, register, invite, rotate, revoke | an address is resolved before the mail is written |
| Housekeeping | `main.py` 247-331, 362-383, 1189-1209 | none of its own | retention, garbage collection, start | deletes in many autocommitted statements beside live requests, then unlinks files |
| Rate limiter | `ratelimit.py` | a bucket per key, under a lock | `allow` | the clock is read before the lock |
| Peering | `peering.py` | `peers`, `peer_invites`, `peer_exposures`, `peer-tokens.json` | invite, accept, expose, push, receive, revoke | two processes, lost answers, a file beside the database |
| OAuth, sign-in | `oauth.py`, `signin.py` | `oauth_clients`, `oauth_codes`, `oauth_tokens`; signed cookies | register, authorize, exchange, refresh, revoke | check and burn are separate statements |
| Mailbox views | `main.py` 846-932, 1003-1023 | none; the cursor of a page is the client's | list, page by page | mail arrives, moves and goes between two pages |
| MCP, stdio adapter | `mcp.py`, `adapters/mcp_stdio.py` | none | tool calls to routes | an answer is lost, or comes after the adapter gave up |
| Watcher | `scripts/watch.py` | a cursor, a log | poll, read, log | it ends at the first answer it did not expect |
| Backup, restore, maintenance | `scripts/` | dumps, safety copies, the database file and its log | dump, prune, drill, restore, clean | two scripts and a running instance share files; any of them is cut anywhere |

How they interact: every handler calls `authenticate` (tables `chats`, `oauth_tokens`), then the
rate limiter, then runs its own SQL statements on the connection of its thread. Parts share state
only through the tables and the attachment directory; `send` and `peer_inbox` write `events`
which the poll reads; housekeeping deletes from under everybody; peers talk over HTTP.

## What a step is

* Every request runs on a thread of the pool, with a connection opened in autocommit
  (`db.connect`, `db.Pool`): **one SQL statement is one step**, and other requests run between two
  statements of a handler. The statements between `BEGIN IMMEDIATE` and `COMMIT` (the write part
  of `send`, `peer_inbox`) are one step: SQLite serialises writers and readers see none of it
  before the commit.
* File operations are steps of their own; `write_bytes` is two (truncate, write), `os.replace` one.
* The multipart upload is a coroutine with no `await` between its check and its row, so two of
  these never interleave with each other (`LoopIsFree`), but do interleave with the routes on
  threads.
* `req[j]` holds what the handler of thread `j` has read and still uses: its local variables.
  A value read early and used late is therefore as stale in the model as in the code.
* `Crash` keeps the committed tables and the files, drops `req`, and starts `create_app` again,
  which cleans (`Main` runs `_apply_retention`) before it serves. It can fall anywhere, also into that cleaning.
* Time is a set, `aged`: the ids whose rows are older than the cleaning windows. It grows only
  when nothing is in flight, since the windows are hours and days and a request is not.

## Modules

| module | models | notes |
|---|---|---|
| `Store` | tables, statements, requests in flight | a table is a function from its key to its row; `EmitAll` is AUTOINCREMENT; `Accept` and `AcceptFrom` are `authenticate` |
| `Messages` | send, read, archive, unsend, edit, `deliver_to_peer` as the sender sees it, `peer_inbox` | `send`: resolve each address (two statements with a label), validate each attachment, the session, the parent, then one transaction or its rollback |
| `Attachments` | both uploads and both downloads | |
| `Identity` | open and close a session, revoke a chat | chats are registered beforehand |
| `Events` | the poll and the client's cursor | a client keeps the cursor of the last event of its page |
| `Housekeeping` | `_apply_retention`, `_gc` with `revoked=true`, crash and start | |
| `Instance` | all of the above composed; the properties; fairness | |
| `MCInstance` | constants and symmetry for TLC | |
| `Mailbox` | what an instance promises about a message, with no tables, statements or threads; a chat that is `gone` gets no more mail | implemented by `Instance`, crashes included, when the operations named in `ContractProofs!Uncrossed` take turns |
| `Views` | what one chat sees of its mail: boxes, pages, `read_message` | the routes that change mail are one step each here |
| `Clients`, `MCClients` | a walker through the pages, an assistant behind `mcp_stdio.py`, `watch.py`, and another conversation with the same token | composes with `Views`; see below |
| `RateLimit`, `MCRateLimit` | `TokenBucket.allow`, clock read before the lock | |
| `Pairing`, `MCPairing` | instances that pair: invitations, `accept_peer`, `handshake`, exposure, revocation, the table of tokens and its file, mail between instances | a network of calls and answers that may never arrive; see below |
| `Credentials`, `MCCredentials` | who may speak for a chat: invitations, registration, rotation and revocation of a chat's token, the three lookups of `authenticate`; sign-in cookies, and OAuth clients with their codes, tokens, exchange, refresh, revocation and expiry | see below |
| `Backup`, `MCBackup` | the database file and its write-ahead log, the night (`backup.py`, `restore.py --drill`, `maintenance.py`) and `restore.py --live` beside a running instance | see below |
| `InstanceProofs` | theorems about `Instance` that hold whatever overlaps | types, and what the tables keep |
| `OverlapProofs` | theorems about the promises of `Instance`, each with what it needs | extends `InstanceProofs` |
| `ContractProofs` | the theorem that `Instance` implements `Mailbox` | extends `OverlapProofs` |
| `RateLimitProofs`, `PairingProofs`, `CredentialProofs`, `BackupProofs`, `ClientProofs` | theorems about the other components | |

`Pairing` stands beside `Instance`: it has several instances, each with only the tables peering
uses. A call is a record in `posts` until a handler takes it up, and its answer a record in
`answers`; a caller gives up at any time (`GiveUp`: the connection was refused, the answer was
lost, or it came after `PEER_TIMEOUT_SECONDS`), so a call can be served after its caller gave up,
or never. Owners pass invitation codes to each other out of band, old ones too. A row of `peers`
is named by the token the other side presents to it; `tokens` is `app.state.peer_tokens`, and
`file` is `peer-tokens.json`, written in three steps (dump, truncate, write) that other handlers
interleave with. `Crash` restarts one instance: its handlers die, and `tokens` becomes what the
file says. `Messages` has what a mail from a peer does to the receiving instance's mail tables;
`Pairing` keeps of it only who it came from and for whom.

`Credentials` has one instance and only the tables that decide who a caller is: `invites`, `chats`,
`clients`, `codes` and `tokens`. A secret is a number that `minted` draws once, and stands for its
own hash; `held` is what was handed out, so that callers present secrets that exist or existed. A
statement is a step, with the row it read kept in `req`; `Register` alone is one step because the
code runs it in one transaction. Whether a secret's time is up is membership in `lapsed`: any
invitation, cookie, code or access token can run out between two statements of a handler. The
owner's sign-in leaves no row; its cookies are secrets in `held`, a pending one when a provider or
a code by mail makes it two requests. `Crash` drops the handlers and collects what has expired,
as `create_app` does. A client knows its own redirect address and PKCE verifier, so that checking
these is checking that the client presenting a code is the one it was issued to.

`Backup` looks at the database as a file. A commit goes to the log (`wal`), a checkpoint folds the
log into the file (`main`); both carry the generation of the database they belong to (`gen`), since
a log that outlives its file would be read into another one. Messages stand for all rows. The timer
runs three scripts one after the other, and so does `night`; `owner` is where `restore.py --live` is
in its steps. `docker compose stop` lets the process fold its log, kills it, or fails; nothing looks
at its result, so the script goes on in each case. Where it failed, the process keeps the file it has
open when `restore.py` unlinks it: `adrift` is what that file holds from then on, until the process is
restarted, and connections opened later are on the new file (`Send` has both). A backup under way
keeps the file it has opened, too (`source`). Dumps and safety copies are named by a stamp that
grows; a script cut while it writes leaves a file that is not `whole`, and so may `shutil.copy2`
beside a process that writes. `folded` is history: what a checkpoint brought into a database file.

`Clients` has one chat's mail in `Views` and four clients of it. Ids are numbers in the order
`list_messages` sorts by and arrive in any order, since a uuid7 is drawn before its transaction, and
at random within a millisecond. The walker follows `next_before`, through the inbox and then the
archive, or through what it sent. The assistant asks for the inbox (`inbox_list` takes no cursor, so
it only ever sees the first page), reads and archives what it finds; the adapter gives up on a call
(`GiveUp`) when the instance is unreachable or `MOOT_TIMEOUT` is over, and the request may be served
later (`Arrive`) or never. `watch.py` polls, moves its cursor and reads what is announced; it ends
at a message that answers 404 or 410, or when the network fails elsewhere than in its poll, and its
owner starts it again. `Together` says which clients run beside each other in one behaviour.

Some of the state is history that the code does not keep: in `Store`, `asked` (what the request
that sent each message asked for) and `uploaded` (the blob ids handed out, so that an id is never
reused); in `Pairing`, `opened` (every chat ever exposed to a pairing) and the field `invite` of a
peer (the invitation its row was made with); in `Credentials`, `granted` (the pairs of client and
chat a signed-in owner agreed to), `spent` (the codes an exchange has ended with, or issued for),
`cut` (the clients the owner revoked) and the field `alive` of a request (what its secret was worth
when it began); in `Backup`, `sent`, `folded`, `forgotten`, `ranOn` (has `docker compose stop` failed to end the
process?) and `trusted` (has a backup succeeded);
in `Clients`, `listed`, `twice`, `stay` and `shown`.
`PROJECT.json` maps every definition to the lines it translates.

## Runs

All runs of `MCInstance` share the specification and differ in `Workload` (which operations
clients call) and in bounds. `MaxServed` bounds how many requests a behaviour has: three are enough
for every two-request race plus what prepares it (a message to be read, a label to be declared, an
upload to be attached). Two threads are enough for a race of two handlers; chats and threads are
symmetric. `Apart` names pairs of operations that do not overlap in a run. It is empty in `mail` and
`liveness`. `files` has the pairs of `MCInstance!Turns`, each because its overlap breaks a property
of that run in the code as in the model: retention on demand beside an upload breaks `BytesKept`, as
`retention_race` shows, and takes the file from under a download; a read beside a withdrawal breaks
`ReadIsFinal`, as `recall_race` shows, a read beside a send `LadderUp`, an edit beside an unsend and a
revocation beside a send the contract. (A revocation runs beside nothing there, which is what the
theorem assumes; in `mail` and `liveness` it runs beside everything.) All other pairs overlap.

| run | workload and bounds | what it shows |
|---|---|---|
| `mail` | send, read, unsend, edit, open, close, revoke, retention, garbage collection; 2 chats, 1 label, 2 threads, up to 2 recipients, 3 requests | `Isolation`: a handler past the gate serves a party of the message. `DeliveredAsAsked`: all recipients or none. `MailAnnounced`, `ReceiptGiven`, `WithdrawalAnnounced`: nothing changes silently. `LabelDeclared`: a label on a delivery was declared by its chat. `NoStrandedDelivery`: the last DELETE of retention cannot fail. `ForgottenForAReason` |
| `files` | multipart upload, send, mail from and to a peer, read, unsend, edit, download, retention, garbage collection, revoke, poll; 2 chats, 2 threads, a crash anywhere and the start after it, a retention window, pages of 1, one content, 3 blob ids, 3 requests | `TypeOK`. `AttachedAsAsked`: all attachments or no message, although they are validated earlier and may be taken or deleted in between. `OwnAttachments`. `BytesKept`, `ServedWhole`, `NoStrandedAttachment` over the cleaning at every start and shared bytes. `NewEventsAreAhead`, `NothingSkipped`: cursors survive deletions. `LadderUp`, `ReadIsFinal`. `KeepsContract`: the instance implements `Mailbox`, by which messages appear and go whole, a crash in the midst of retention included, and nothing reaches a revoked chat |
| `liveness` | send, mail from and to a peer, read, archive, inline upload, retention, poll, revoke, all beside each other; 1 chat, 2 threads, a crash anywhere and the start after it, pages of 1, 3 requests; fairness | `EventHeard`, `EveryRequestAnswered` |
| `rate_limit` | 3 threads, ceiling 3, 5 ticks | `NeverOverspends`, `NeverInDebt` |
| `pairing` | 2 instances with 1 chat each, 2 nicknames, 2 threads, 4 calls of owners and chats, 2 restarts | `PairsOnce`: an invitation makes one peer. `Crossed`: the side that accepted holds the token the other gave it. `RecordedWasReceived`. `NothingByDefault` |
| `credentials` | 1 chat, 2 clients, 2 threads; 1 invitation, 1 sign-in, 2 expiries, 3 other requests, crashes without bound | `GrantedOnly`: codes and tokens of a client are for what the owner granted it. `DeadIsRefused`, `AliveIsServed`: three lookups decide as one would. `ReplayFails`: an exchange begun after another one of its code has issued, or ended, gets nothing, crashes included. `DiesForAReason`: a token dies with its client or its time |
| `backup` | 2 messages, `--keep 1`, 3 dumps or safety copies, 3 database files | `FoldedIsKept`: what was folded and not forgotten is in the database or a copy that opens, wherever a restore is cut, as long as `docker compose stop` works. `OneDatabase`: process, file and log are of one generation, but for a process that outlived `docker compose stop`, and nothing runs on half a copy. `LastGoodKept`: after a backup that succeeded a good dump is always there. `CopiedBeforeForgotten` |
| `clients` | 4 messages (a note to oneself, one received, one sent, one between others) in 2 threads, pages of 1, 2 lost calls, 1 death of the watcher by the network; fairness | `WalkComplete`: a walk to the end was given all the mail that stayed, and none twice in a box. `EventuallyShown`: lost answers and late calls keep no message from the assistant. `EveryMessageLogged` |

Four calls of `pairing` are an invitation, its acceptance, an exposure and a mail, or two invitations
and two acceptances; two threads are the two sides of a call, or two handlers of one instance once a
caller has given up. Two restarts let a process die between the row and the mark on the
invitation, and once more while the call is repeated.

In `credentials`, registering a chat or a client, signing in, revoking and expiring are one
statement each and are not counted among the calls. Three calls are a grant, its exchange, and one
more beside or after it: a replay, a refresh, a revocation of the client, cleaning, a rotation, a
request with the token. Longer histories are left to the theorems, which prove all five properties
for any number of calls. The second client is the one that must not be given, or lose, what is the
first one's.

In `backup`, three copies are a dump, the next one cut short or pruning it, and the safety copy of a
restore; `--keep 1` is where pruning bites. Three files are the first database and two restores, or
a restore that is cut and the empty database the next start makes. In `clients`, pages of one make
every message a page boundary; two lost calls are one that is served late and one that never is. The walker runs
beside the other conversation, which moves mail under its cursor; the assistant and the watcher run
on their own, each beside delivery, recall and forgetting.

Four runs show disagreements between the code and what the repository says of it; each checks the
one property the quoted line states.

| run | what happens | against |
|---|---|---|
| `recall_race` | a recipient reads between the check and the UPDATE of `unsend` or `edit` | `README.md:165`, `main.py:962` |
| `retention_race` | retention unlinks a file between an upload that found it and that upload's row | `README.md:226` |
| `lost_token` | two handshakes write `peer-tokens.json` at once and leave the tail of one text after the other: the file is no JSON, and the next start finds no token | `main.py:379` |
| `restore_loses` | the container is killed before it folds its log; the safety copy is of the main file, and the log is unlinked | `restore.py:13` |

What they refute holds, in the same model, as far as the passing runs state it: `ReadIsFinal` in
`files`, where reads and withdrawals take turns, `BytesKept` there, where retention on demand and
uploads do, `FoldedIsKept` in `backup` for what a checkpoint had folded. Other places where the model shows
the code fall short, listed as hazards with a note: with two threads, the reader's own answer can
commit `replied` between the SELECT and the UPDATE of `_bump_status`, and the status goes back to
`read` (`LadderUp` holds when they take turns, as in `files`; `README.md:73` says it never goes backwards); the
second of two inline uploads of the same bytes truncates the file of the first, and one that is cut
leaves a partial file (`ServedWhole` and `BytesKept` hold for multipart uploads only); x a message a peer has taken and whose local copy is still recalled or edited; a
crash between `read_at` and the receipt; `watch.py`, which always begins at the first event and so
ends, every time it is started, at the same message that was recalled. In `Pairing`, one side may
have paired and the other not,
when the answer of the handshake is lost: `Crossed` speaks of the side that accepted, since the
other cannot know. In `Credentials`, two exchanges of one code that overlap can both read it unused
and are both answered (`SECURITY.md:102` calls codes single-use), so `ReplayFails` speaks of
exchanges that begin later; and an exchange or a refresh already past its check stores new tokens
after `revoke_oauth_client` has revoked the ones there were, so no property says that a client that
was cut has none left. In `Backup`, every start of the process forgets old mail with no copy made
before (`CopiedBeforeForgotten` speaks of the night), and `--keep 0` would prune the only dump. When
`docker compose stop` fails, `restore.py:117` does not notice: the files are replaced under the
running process, which goes on with the unlinked ones and answers the health check in their name,
and what it commits is gone at its next start. `OneDatabase` says that there are two databases only
then, and only until that start.

## Fairness

`liveness` assumes weak fairness of each thread's `Step`, of the cleaning `Main` runs at start, and of
the `Poll` of each client that is not revoked. SQLite's writer lock is held for one statement or one
transaction, both a step here, and no handler waits for another one between its steps, so the
scheduler running a thread that can run is all that is needed. That a handler always has a next
statement, and an end, is what `EveryRequestAnswered` checks, with two threads and a crash: the rows
it has read are changed and deleted by the other one. Polling is the clients' part of the contract: a
client that stops polling hears nothing. Nothing is assumed of requests (`Begin`), crashes or the
passing of time, which need not happen; at most one crash does, since a process that keeps dying
answers nobody.

`clients` assumes weak fairness of the assistant's next call or answer (`Calling`) and of the
watcher's next step (`Following`). `urlopen` has a timeout, so a call of the adapter ends, and the
adapter answers one line after another. An assistant that goes on asking, and an owner who starts
the watcher when it is dead, are their parts of the contract. Calls that are lost (`MaxLost`) and
deaths by the network (`MaxDies`) are bounded because a network that never works again shows nobody
anything; that they happen is not assumed. Delivery, recall, forgetting, the other conversation and
the walker are not fair.

## Proofs

`InstanceProofs!TypeCorrect`: `Spec => []TypeOK`, for every set of chats, peers, threads, labels
and ids, any bounds. `StoreTypeOK` is inductive as it stands; the argument goes action by action,
through lemmas on the statements (`PutType`, `DropType`, `EmitAllType`: a statement keeps a table
a table) and on requests in flight (`RequestKinds`: the operation of a handler tells which local
variables it has). What it says of the code: no handler stores a row outside the schema (in
particular no event without a chat, the NOT NULL that an answer to a peer's message runs into),
and every handler is at one of its own statements with its own variables.

The rest of `InstanceProofs` has eight properties of `Instance`, for any chats, peers, threads, recipients,
attachments, requests and crashes, and whatever `Apart` is, so with every operation beside every
other. Its inductive invariant `Inv` is `TypeOK` with what the tables keep (`Rows`) and what each
handler still knows of what it has read (`Knowing`). `Rows` has that rows point to messages that
were asked for, that a message has the delivery of each recipient until he is revoked or it is old
(`Arrived`, why garbage collection never takes mail somebody is to read), and that numbers of events
and cursors are behind the counter (`Numbered`). `Known` is, for a reader, that it is a party of the
message; for a send, that the addresses it has resolved have their label and the attachments it has
validated are its own; for retention, that what it selected is old and, past their DELETE, without
deliveries. All that is known stays true for one reason, `Lasting`: sessions, senders and recipients
are never rewritten, blob ids never reused, no message gets a delivery later, and old stays old.
`StepKeeps` shows `Lasting` of every step, with what the action properties need (`Ahead`,
`Forgets`), and `Lasts` that `Lasting` keeps what a handler knows; so a handler's knowledge is
argued once, and not against each of the others' statements. `PagesAreComplete` says that a page is
a first part of what is new, which gives `PollsSkipNothing`.

`OverlapProofs` has the promises that do depend on what overlaps. Its invariant is `Care`, kept along
with `Inv`. `Orderly` says what is in flight: the start cleans alone, and operations that `Apart`
names, or that are not called, or that one thread serves, are not in flight together (`TakeTurns`).
`StartsOver` follows the cleaning of a start: until it is over, every old message is one it has
selected or is still to select. `Relying` is what a handler relies on that others could spoil: a read that the row it holds has the
message's sender and that a status found low is low, a withdrawal that a message found unread is
unread, retention that the attachments of what it deletes went first, an upload that the file it
found is there. `Promises` is what the tables keep, with the handler that has still to see to it: a
delivery that is read and whose sender was not told has a read in flight that will tell him
(`Receipts`), and so for withdrawals (`Withdrawals`) and for messages that retention takes apart
(`Going`). `Frame` and `Turnover` say once what no step does to the tables, and what takes rows
away, so that each part of `Care` is argued against these and not against every statement. What
each theorem needs is stated in it:

| theorem | property | holds when |
|---|---|---|
| `DeliveredAllOrNothing`, `AttachedAllOrNothing` | `DeliveredAsAsked`, `AttachedAsAsked` | whatever overlaps; once a process has died, a retention window is configured (`Resumes`): then the next start finishes what the crash cut, and without one a message stays without its attachments |
| `NoneStranded` | `NoStrandedAttachment` | always; the property itself leaves out what revoked chats sent |
| `BytesStay` | `BytesKept` | uploads are multipart, and take turns with retention on demand (`BytesAreSafe`) |
| `BytesServed` | `ServedWhole` | downloads take turns with it, too |
| `ReceiptsGiven`, `WithdrawalsAnnounced` | `ReceiptGiven`, `WithdrawalAnnounced` | whatever overlaps, until the process dies |
| `StatusClimbs` | `LadderUp` | reads and sends take turns |
| `ReadStaysFinal` | `ReadIsFinal` | reads and withdrawals take turns |

Without its condition each of these fails: the first two after a crash in the midst of retention,
`NoStrandedAttachment`, without its exception, by the DELETE at `main.py:324`, `BytesKept` by `retention_race` and by inline
uploads, `ServedWhole` by an unlink after the file was found, the receipts by a crash between
`read_at` and the receipt, `LadderUp` by a `replied` committed inside `_bump_status`, `ReadIsFinal`
by `recall_race`. The runs that check them satisfy the conditions: `Turns` and a window in `files`, one boot in `mail`.

`ContractProofs!ImplementsMailbox` is the refinement: `Spec /\ []Resumes => KeepsContract`, under
`Uncrossed`. The mail of `Mailbox` is what `Instance` has of each message that is kept and not being
forgotten (`Letter`, `Kept`), and `gone` the chats that are revoked. A start maps to no mail (`StartsEmpty`),
and every step is a step of `Mailbox` (`EveryStep`), where a step that changes no letter is
`Forget({})`. One lemma for each statement that writes mail names the step it takes: the
transactions of send and `peer_inbox` and the record of a mail to a peer are `Post`, the mark of a
read is `Read` and its status `Climb`, the UPDATE of a withdrawal `Withdraw`, the first DELETE of
garbage collection `Vacate`, a revocation `Leave`. All the rest is `QuietStep`: no letter that is
kept changes, and retention's messages leave the mail the moment it begins to take them apart, so
that its six statements are one `Forget`. On top of `Care` it needs `Sound`: the delivery a
read moves up it has marked, the message an edit rewrites is not recalled, and whom a send has
resolved is not revoked. `Uncrossed` is what these rest on: reads take turns with sends, unsends and
edits, unsends with edits, and a revocation runs beside nothing. One thread satisfies it, and so
does any number with those pairs in `Apart`; retention, garbage collection, uploads and polls may
overlap everything. Each part is needed: an edit that found its message not recalled rewrites what
an unsend recalled in between, and a chat revoked between the resolution of a recipient and the
transaction gets mail when it is already gone. A crash is a `Forget` of the old messages, which the
start it leads to cleans before it serves: what retention had begun to take apart is old, so it is
among them, and `StartsOver` has that none of them is left when the start is over (`StartEnds`), so
that nothing comes back into the mail (`KeptWas`). Hence the one condition on crashes, `Resumes`: a
retention window, or no crash. Without a window a start does not look at old messages, and what a
crash cut short stays half forgotten.

`RateLimitProofs!LimiterHolds`: `TypeOK`, `NeverOverspends` and `NeverInDebt`, for every ceiling,
refill and number of threads (`DebtIsCovered` states the last alone). `NeverOverspends` is not inductive: `Balanced` is the account every
step keeps (granted + left <= ceiling + refilled up to the last stamp), and `NeverInDebt` turns it
into the bound. Both must hold although stamps can move backwards.

`PairingProofs`: `PairInv` is the inductive invariant, `TypeOK` with four facts more. An invitation
that a handshake has selected stays in its table (`KnownCodes`), and codes are fresh
(`CodesMinted`), so that no later invitation takes its place. Nicknames are unique among all rows,
revoked ones too (`AliasesUnique`), and a row keeps the nickname of the invitation it was made with
(`MadeFrom`). From these, `InvitationPairsOnce`: a second row of one invitation would need a
nickname that is taken. Neither the lock nor the invitation's state is used, which is why it holds
across restarts between the two statements. `NothingExposedByDefault` rests on `OpenInv`: what is
exposed now was exposed once, and a handler about to commit a mail has seen its exposure. Both, and
`PairingTypeCorrect`, hold for any number of instances, threads and restarts and whatever is lost.

The second half of `PairingProofs` is about both sides of a call. `PeerInv` says, of every number that a caller still
waits for, what can come back for it: for an accept, a call that is on its way is its own, and a
token owed or answered to it is that of a row that fits it (`Understood`, `Fits`); for a mail,
there is an answer only if it was committed (`Delivered`). Numbers are fresh (`Past`), a handshake is
served where it was sent (`OnDuty`), and no two accepts present the same token (`Alone`). `Moves`
says what one handler's step may change under the others, and `OthersKnow` that it takes nothing they
know from them, so that only the handler that moves is left to look at. From it, `PairingsCross` and
`RecordedMailArrived`, for a network that loses, delays and answers to nobody, and any restarts.

`CredentialProofs`: `Ind` is the inductive invariant. It has the schema (`Stored`); that secrets in
the tables were drawn, once each (`Drawn`), since otherwise a new token could revive an old secret;
that a code that has issued, or whose exchange has ended, is marked used (`SpentIsUsed`); and, for
each kind of request, what its handler relies on between two statements (`JobOK`): a lookup that
found no chat token will find none later, a row read from `oauth_codes` was used or expired if its
secret was worthless, the chat an access token led to is the one its row still names, the client
whose tokens are about to be revoked is one the owner asked to revoke. With other
handlers running, such knowledge holds for one reason, which is `Grows`: secrets are never drawn
again, and revocation, use, expiry and grants are never undone. `JobOKStays` says so once, and
what remains is one lemma per action, about the tables and its own handler. The invariant gives
`ClientsActOnlyAsGranted`, `DeadSecretsRefused`, `GoodSecretsServed`, `ReplayedCodeFails`,
`CredentialsTypeCorrect` and, of every step that starts from it, `TokensDieForAReason`, for any
number of chats, clients, threads, requests and crashes.

`BackupProofs`: `BackupInvariant` has, with the types, what a restore has done so far (`Stage`: it
stopped the process or `ranOn` says that it did not, then removed the file, after which a process that
runs is adrift, then its log), `OneDatabase`, and that a log holds what its file holds (`LogGoesOn`).
`FoldedSafe` is why nothing that was folded is lost where the process was stopped: before the file is
removed a whole safety copy holds it, and no script ever deletes a safety copy. That the database's
rows reach a dump is `Dumped`: from the copy to the end of the night no row becomes old that the dump
does not have, because the window is days, or if the backup had opened a file that is gone by then,
the start that followed has cleaned the new one. `Newest` says the night's dump is the last one by
name, so that its own pruning keeps it; with `Dumped` it gives `ADumpIsKept` and
`MaintenanceFollowsTheCopy`. They hold for any set of messages, any `--keep` from 1, and any number of
copies, restores, cuts and failures of `docker compose stop`.

`ClientProofs`: what a page leaves for the next (`PageLeaves`) is that every message before the
cursor is on the page or before the next cursor, which rests on the least element of a finite set
(`Least`), proved from the library's theorems on finite sets. `OnItsWay` says that what was listed
for the box at hand is not before the cursor, and `Reached` that a message that stayed is listed, or
before the cursor of the box it is in, or in a box still to come; nothing leaves the archive
(`ArchivedStays`), so that a message that moves on is found there. `AWalkIsComplete` holds for any
set of ids, order of arrival and page size.

Assumptions are the named `ASSUME`s of the modules, which TLC evaluates in every run: ids of
different kinds are different, `Main` is not a thread of the pool, sets of chats are finite, bounds
are numbers.

Type correctness of `RateLimit`, `Pairing`, `Credentials`, `Backup` and `Clients` is proved and
not run as a property of its own.

Only model-checked: the liveness properties (`EventHeard`, `EveryRequestAnswered`, `EventuallyShown`,
`EveryMessageLogged`), which with ENABLED and fairness are out of the prover's reach, as is induction
over data; no recursive definition is used in what is proved. Every invariant and action property of
a passing run is the subject of a theorem. Those of `OverlapProofs` and the refinement have the
conditions they state as hypotheses; where these fail, nothing is claimed.

## Not modelled

`read_thread`, `message_status`, `directory`, `me`, `status`, `list_sessions` and `list_peers`, the filter by session
and `peek` (each one SELECT that nothing later depends on);
wording, limits of sizes, HTML, audit lines; MCP over HTTP, which calls the functions of the routes
with the arguments unvalidated by FastAPI's `Query` (`limit` and `timeout` have no ceiling there);
the tools of the adapter beyond listing, reading and archiving; the site, packaging and configuration;
signatures, providers and mail servers of sign-in, which are taken to answer rightly; `last_seen`
and other columns nothing decides on; the migration of older databases, which runs before anything
is served; backups of the code, and attachments in backups, of which there are none; a database
restored under a running client (cursors ahead of the counter, tokens that come back); of a process
that outlived `docker compose stop`, a thread that connects while no file has the database's name,
and which of the logs a backup of the unlinked file reads; a restart between the steps of a restore
after the stop; json.dumps meeting a table that changes while it iterates, other than by its size
(`Pairing!Dump`).
SQLite's own atomicity and durability are taken as its documentation states them.

## Plan

1. The core: `Store`, `Messages`, `Attachments`, `Events`, `Housekeeping`, `Identity`,
   `Instance`, `Mailbox`, `RateLimit`, with type correctness and the limiter proved. Done.
   `Pairing` between instances, with its type correctness and two invariants proved. Done.
2. `Credentials`: registration, invitations, rotation, OAuth clients, with its type correctness and
   all its properties proved. Done.
3. `Backup` and restore beside a running instance, `Views` and `Clients`, with their safety
   properties proved. Done.
4. Theorems about what an `Instance` keeps between two statements (`InstanceProofs`), about its
   promises while requests overlap (`OverlapProofs`), and that it implements `Mailbox`
   (`ContractProofs`). Done.
5. Migration of old databases; a restored database under clients that hold newer cursors and tokens.
