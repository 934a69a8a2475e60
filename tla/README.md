# PandaPay: verification development

TLA+ models of the parts of PandaPay where consent, money, leases and retries
meet concurrent commands; the TLC runs that check them on small instances; and
the TLAPS proofs of their main theorems. The reference for every definition is
the code under `src/`; `PROJECT.json` maps each definition to its lines.

Run `tlc -config <cfg> <MC module>` for a check and `tlapm <module>` for a
proof.

## The system

PandaPay is a card advisor and spend tracker: a Node product API over
PostgreSQL, a Node sign-in service, Flutter applications for users and
operators, and a scraper for card data. Most of its logic is sequential
(parsing, reward arithmetic, screens). Its hard behaviour is in a few places.

| component | state it keeps | operations | talks to | what makes it hard | what makes it correct | here |
|---|---|---|---|---|---|---|
| Shared expenses, ledger (`db/supabase/migrations/20261112210000`, `..220000`, `20261113000000`) | revisions, approvals, accepted heads, settlements, pair and member balances | `submit_proposal`, `respond_expense`, `report_settlement`, `respond_settlement` | membership (same tables), notifier | reviewers frozen at submission, competing edits, members who leave or are deleted, two tables kept by increments | nobody owes what they did not agree to; history is one chain; balances are what history says | `SplitLedger` |
| Shared expenses, membership (`20261113000000`, `20261114*`) | members, roles, invitations, group link, bindings | invite, claim, decline, approve, request, remove, leave, transfer, take over | ledger, accounts | callers are checked before the lock and act after it; links replaced while answered; accounts deleted | both sides agree to a seat; one open link per person; ends are final; the group keeps an owner | `SplitMembership` |
| Shared expenses, receipts, events and their reader (`_operation`, `_finish`, `_emit`, `shared_expenses/queries.js`, the app's `shared_sync.dart` and `shared_store.dart`) | operation receipts, one log per context, one stream per account; on the device queued commands, cursor, copy of the feed, hidden contexts | every command; claim, look up, execute, complete, fail; pull and apply a page | ledger and membership (each command appends an event) | lost answers, repeated commands, rows read later than their event, access lost meanwhile | each command applies once; the feed skips nothing; what was left stays hidden | `SplitSync` |
| Shared expenses, allocation and projection (`shared_expenses/domain.js`, `journal.js`) | none | pure functions | ledger | remainders, zero rows | shares add up; debts equal the difference of paid and share | not modelled |
| Notification outbox (`20261026110000`, `notification_outbox_worker.js`) | outbox rows with leases, three counters, worker cycles | `enqueue`, `claim`, `allowed`, `finish`, deadline, stop | provider, accounts, preferences | leases that run out during a call, crashes, calls that ignore cancellation | counters are exact; late results are dropped; at most eight attempts; every push ends | `NotificationOutbox` |
| Refresh tokens (`auth/.../tokenService.js`) | token rows; on each client the token and the id of its last refresh | issue, verify, rotate, recover, revoke | application, console gateway | lost answers, two handlers of one token, revocation beside a rotation | one successor per token; a client that keeps its id keeps its session | `RefreshRotation` |
| One-time codes (`auth/.../otpService.js`) | markers, codes, attempts | request, deliver, discard, verify | abuse store, provider | three separate writes to two stores | a code is consumed once; one open code at a time | `OtpChallenge` |
| Account deletion (`account_lifecycle_*.js`) | lifecycle rows, two journal copies, checkpoint, denials of the sign-in service | request, cancel, claim, append, commit, apply, finish, replay | sign-in service, operator's tool | journal and databases commit separately and are restored from backups | nothing is denied that is not in the journal, nothing is admitted before the journal is replayed | `AccountDeletion` |
| SMS rules, transaction sync, rewards, statements, mail polling, portable backup, routes, other outboxes of the app, console, scraper | | | | mostly sequential, data dependent or input and output | | not modelled |

The components interact through the database: membership decides who may
propose and review; account deletion clears `members.profile_id` and deletes
outbox rows by foreign keys; a committed command may enqueue a push and appends the
event that `SplitSync` delivers; a deletion is denied in the sign-in service,
which then refuses refreshes.

## Modules

| module | models | instances | proofs |
|---|---|---|---|
| `SplitLedger` | the money of one context | `MCSplitLedger` | `SplitLedgerProofs`, `FiniteSums` |
| `SplitMembership` | who belongs to one context and who owns it | `MCSplitMembership` | `SplitMembershipProofs` |
| `NotificationOutbox` | the outbox table and its workers | `MCNotificationOutbox` | `NotificationOutboxProofs` |
| `PushDelivery` | what the outbox promises of a push, abstractly | as `DeliveryIsImplemented` of `NotificationOutbox` | `Implementation` |
| `SplitSync` | one device, its commands and the change feed | `MCSplitSync` | `SplitSyncProofs` |
| `RefreshRotation` | the refresh tokens of one account and its clients | `MCRefreshRotation` | `RefreshRotationProofs` |
| `OtpChallenge` | the codes of one identifier and purpose | `MCOtpChallenge` | `OtpChallengeProofs` |
| `AccountDeletion` | requests, workers, journal, both databases, the operator | `MCAccountDeletion` | `AccountDeletionProofs` |

### SplitLedger

Every command is a SQL function that locks the context row first and commits
at once, so it is one action. What escapes the lock is the authorization
check, made before: `late` holds the accounts whose command was authorized
before they left. Membership is reduced to what money depends on: a slot is
`none`, `invited`, `active`, `declined` or `left`, with an account or without.
A bill is a record of who takes part, who is charged, who is listed as
contributor or by a linked source, and what each pair owes: the result of
`_project_snapshot`, whose arithmetic is not repeated. An edit names the head
it replaces; `Effect` is the new pair amounts less the replaced ones;
`PostPairs` increments both balance tables and refuses the whole command
above the gross cap. A void is a revision with no charge. Acceptance is part
of the action that gives the last approval, as in the code.

Left out: private cost facts, source funding (a revision with linked sources
waits, as with the flag off), formatting and hashes. Receipts and events are
in `SplitSync`.

### SplitMembership

A command of an owner or a member first reads who its caller is and only then
waits for the context lock. `Begin` and `OpenLink` are the first half and put
a snapshot on a connection (`waiting`); the command proper is the second
half and uses the snapshot wherever the code does not read again. A
connection that gives up is `Abort`. Claiming and accepting read everything
under row locks and are one action; `DeclineInvitation` takes no context lock.
Accounts disappear at any moment (`DeleteAccount`) and links expire
(`Expire`, `ExpireLink`).

Left out: rate limits, the cool-down of a declined invitation and the limit of
200 members, which only refuse commands.

### NotificationOutbox

A row is `pending`, `leased`, `delivered`, `dead` or `suppressed`, with the
number of attempts and a Boolean `due`: the time it waits for has come. The
number of the attempt stands for the lease token, because every claim draws a
new one. Each worker runs the cycle of `pollOnce`: `Claim` (with the three
clean-ups of the SQL function before it), `Check` (`allowed`), the call with
`Settle`, `Deadline`, `SettleAborted`, `Unresponsive`, then `Finish`; any
statement may fail (`CycleFails`), the process may die at any point
(`Restart`). A call to the provider is a record in `flights`; it may be
accepted while the worker still waits, after it was cancelled, and after its
process is gone. `accepted` and `refusals` are history variables. `Track` is
the trigger that keeps the three counters.

A lease may run out at any time, although 33 seconds of sending fit in 90
seconds of lease: waiting for a connection and a stopped process count too.
Two workers may therefore send one push at the same time; the code accepts
that ("provider response loss may repeat delivery"), and no property forbids
it.

Left out: the 250 row limit of one clean-up, the categories of preferences
(one preference per account), back-off lengths, heartbeat reports, the
locks of single transactions, and the HTTP requests `notification_service.js`
may repeat under one idempotency key within one send: `EverySendIsAnAttempt`
counts sends.

### PushDelivery

The abstract specification: per push a status (`none`, `waiting`, `delivered`,
`dropped`) and the set of attempts in which the provider took it. It has no
workers, leases, counters or time. `NotificationOutbox` maps `leased` and
`pending` to `waiting`, `dead` and `suppressed` to `dropped`, and its history
of accepted calls to `taken`; a clean-up or the deletion of an account moves
several pushes in one step.

### SplitSync

The service keeps a log per context, whose entries say what changed (`_emit`),
and per account a stream of references into the logs. A change by another
account is two steps, `BeginChange` with its locks taken and `CommitChange`,
so that a reader can come between; the account's own commands and those that
concern its membership are one step and wait for the same locks. A queued
command goes through `Claim`, `Lookup`, `Execute` and `Complete` or `Reject`,
as in `flush`; `Fail` and `Crash` leave a sent request behind in `late`, which
may run at any time (`LateExecution`). `Pull` computes a page as
`PROJECTION_FEED_SQL` does: the events from the cursor on, for each the rows
it concerns as they are now, ordered by event and rank, cut at the limit.
`ApplyPage` stores it. `Fence` hides a context beside a refresh that is under
way, after the account left or a read was denied.

A row is reduced to the revision it carries and the log entry it was last
changed by. Ranks stand for record keys: the row of the context, then items,
then the marker of a grant or revocation. The device under test owns, joins or
is invited to contexts; other members are the environment.

Left out: activity rows (one per event, no other event shares them), the byte
limit of a page, answers 401, commands refused for their content, renewed
leases within one process (one refresh runs at a time).

### RefreshRotation

Each handler of the service reads and verifies a token in one step and locks
and rotates it in later ones, as the code does outside and inside its
transaction; a successor that is not committed is invisible to others. Clients
are the mobile application, with its coordinator and the request id it keeps
with the token, and the console gateway. An answer may be lost, a client may
repeat, restart, sign out and in. `excused` marks devices whose session was
ended on purpose. Left out: what gates access tokens, risk scores, the limit
of disuse.

### OtpChallenge

The marker and the rows are two stores, and each read and write is a step.
`request` and `check` hold what each handler has read. Writes fail before or
after they took effect, deliveries fail although the code arrives, processes
die. Both protocols are modelled (newest live code, code named by its id).
Left out: quotas and limits that only refuse, and the skew between the
clocks of the service, which sets `expires_at` of the code, and of the store,
which ends the marker: in the model the marker never ends before its code.

### AccountDeletion

Transactions of users begin (`Begin`), pass the access fence (`Access`) and
readiness (`Admit`) and write; a request is due after its grace period, is
claimed with a lease, its intent is written to the first and the second copy of
the journal and the checkpoint saved, each a step; then the denial is committed,
applied by the other service and acknowledged. Workers fail or crash at every
step and leases run out.

The exclusive fence and the locked checkpoint row belong to the database session
of the claim, not to the worker. The server may end that session while the
worker encrypts, writes and syncs (`LoseSession`: 15 seconds idle in the
transaction, a failover, a connection taken for dead): transactions and other
claims then come in between, the worker goes on with its entry, which `append`
takes only at the position the claim was given (`expected`), and learns of the
loss when it would `Commit`. A transaction records only whether the grace period
was over when it began (`late`), since `now()` is the time of its BEGIN. The
reads of readiness are one step, taken when it reads the first copy.
 Either database is restored from a backup while the services are stopped
(`Quiesce`), and the operator's tool reviews and writes missing intents,
replays both sides and installs the checkpoint before `Resume`. Left out:
encryption and signatures, file permissions, clients from before the journal,
the session fence of exports.

## Checks

All runs are exhaustive within their bounds. `CHECK_DEADLOCK FALSE` where
the system may really stop: everybody has left, all ids are used, all accounts
are deleted.

| run | shows | bounds |
|---|---|---|
| `split_friends` | consent, one chain, pair changes by consent, for two competing revisions with an unregistered member, joins, departures, deletions and flags | 3 members, 2 revisions of one expense, 4 bills |
| `split_money` | heads and payments explain the pairs, pairs explain the members, cap | 3 members, 3 revisions of 2 expenses, 1 settlement, cap 3 |
| `split_leaver_owes` | a disagreement with the comment on leaving (below) | |
| `split_members` | one link per person, bindings are joins, one request per account, seats need both sides, ends are final, ownership is handed over, with two commands at once | 3 slots, 3 accounts, 2 connections, 2 invitations; one account deleted or one invitation expired |
| `split_owner_left` | a disagreement with "Owners cannot leave" (below) | |
| `split_sync` | types, the feed skips nothing, a context once left is hidden, rows are what the service said, commands run once, what the device says of a command is true | 2 contexts of 1 item, 3 commands, pages of 2 rows, windows of 2 events, 5 log entries, one late request or one hidden context at a time |
| `split_feed_stuck` | a page the device refuses (below) | as `split_sync` |
| `push_attempts` | the counters are the numbers of rows, one call per worker, sends are attempts, given up with cause, and every step is one of `PushDelivery` | 2 workers, 2 pushes, 2 attempts, one active at a time |
| `push_ends` | every push ends, with two workers that overtake each other | 2 workers, 1 push, 2 attempts |
| `session_refresh` | types, one successor, answers are of the request that is answered, sessions survive lost answers, late answers are dropped | 2 devices, 3 tokens, 2 handlers, 2 request ids |
| `otp_codes` | types, one winner, the marker guards an open code, wrong codes are bounded | 2 codes, 2 requests and 2 verifications at a time, 2 attempts |
| `account_deletion` | types, and how requests, journal, denials and admission agree through crashes, claims that lose their session, restores and replay | 2 accounts, 2 workers, 2 requests, 2 attempts, 2 journal entries |

Why the bounds suffice. Three members are the least with which a net balance
can be zero and a pair not, and with which a third party watches two others.
Two revisions of one head are the least that compete, three the least chain
in which an edit of an edit takes back the right amounts. Two connections are
the least with which a command overtakes another, two invitations the least
of which one replaces the other. Two contexts are the least that share the
stream of a member; a page of two rows cuts the rows of one event, and a
window of two events is smaller than the stream. One responding command does
not reach the case `AnsweredByAnother` of `AnswersAreTrue`; only the proof
covers two. Two workers and two attempts
are the least with which a late result meets a second lease; `push_attempts`
holds the table at one active push so that both caps and both attempts fit.
Two handlers are the least that verify one token before either rotates it, and
three tokens let a device rotate, sign in again and receive a late answer. Two
requests of one account are the least with which an older one is restored.
Symmetry is used on ids and accounts that the initial state and the bills do
not tell apart, and in no run with a liveness property.

Each property has at least one mutant in `PROJECT.json`: a definition replaced
by the operator marked "Mutant" before it, under which the run finds the
property violated.

### Fairness

Only `NotificationOutbox` states fairness, for `EveryPushEnds`: in the other
components every step is a user's, a client's or an operator's, who owe none.
It assumes (`Fairness`) that a worker's timers fire and its
statements end, well or not; that an unblocked worker polls; that leases and
back-offs run out; and that a due row is not passed over for ever, strongly
fair because rows are leased in the order of `available_at`. It assumes
nothing of the provider, of restarts or of the users. A blocked worker is
restarted by nothing in the code (readiness only fails), so `EveryPushEnds`
has the premise that the workers are not all blocked for good.

### Disagreements found

* `split_leaver_owes`: `leave_context` tests the member's net balance, so a
  member with two opposite debts leaves, against "settled up (zero balance,
  nothing pending)" and "A zero net member/group balance does not imply
  settled". The debts can then no longer be settled. It does not look for
  waiting settlement reports or edits either, which are answered after the
  member left and move the balance.
* `split_owner_left`: it decides with the member row it read before the lock;
  when ownership is transferred in between, an owner leaves.
* `split_feed_stuck`: the feed sends the row of a context once per event, and
  the device refuses a page that names one row twice, before it compares
  them, although only "equal-version/different-payload records fail". While the
  account can read the context the two are equal; in the trace of the run it no
  longer can, and they are revocations with the revisions of their two events.
  Two unread events of one context in a page, such as those of adding a friend,
  stop the feed of the device for good.

Met while modelling, without a run of their own:

* `RefreshRotation`: the console sends a hexadecimal digest as
  `refresh_request_id` (`consoleBrowser.js:69`), the service takes version 4
  UUIDs only (`validation.js:310`), so every refresh of the console is
  answered 400; `console_browser.test.js:209` expects that opening the console
  again restores the session, against a service of its own. The model sends
  what the code sends (`WellFormed`), and `SessionsSurvive` holds of the
  console because it keeps its token.
* `SplitSync`: full snapshots follow the events of creating and responding
  only; who joins by a link or an invitation (`membership.claimed`) gets the
  rows changed from then on, against `P03-status.md:44`.
* `SplitSync`: the sheet that follows the creation of a group reads its
  members; when the command has not been executed yet, the denied read hides
  the context and the command is never sent.
* `SplitSync`: labels taken from profiles change without a new revision; a
  row delivered again with the same revision and another label is refused
  (`projection_revision_conflict`). Labels are not in the model.
* `SplitSync`: a page fetched before the account left, applied after the context
  was hidden, shows it again until the event of leaving is read, against "a late
  authorized-at-start response must never resurrect revoked private data"
  (`shared_runtime.dart:92`). `LeftIsHidden` is the weaker statement that holds:
  once the event of leaving was read, the context is and stays hidden.
* `AccountDeletion`: the fence of a claim falls with its session
  (`account_lifecycle_worker.js:33`) while `append` (`:42`) writes on. A
  transaction admitted in between commits after the intent, and a cancellation
  begun before the grace period ended cancels the request whose intent is then in
  the journal, against "retaining the account transaction fence" and
  "irreversible [...] intent" (`security-followup-implementation-2026-10-24.md:30`).
  `replay_tombstone` refuses the cancelled request, and the replay stops until
  the operator intervenes. What holds is `AdmittedBeforeIntent` (nobody is
  admitted any more once the intent is in either copy) and `NobodyCommitsDenied`
  (no denial commits ahead of an older write).
* `AccountDeletion`: a database restored with an older request of the account,
  cancelled and made again since, refuses the journal's request
  (`account_lifecycle_one_active`); the replay stops until the operator ends
  the older one. The services stay stopped, so no property is violated.
* `OtpChallenge`: a request that stalls for longer than a code lives marks its
  successor's code deleted. No document promises that a delivered code works.
* `NotificationOutbox`: a row that ends locks the account's counter and then
  the global one, a row that is added the global one first; PostgreSQL ends
  the deadlock. Transactions are atomic in the model.

## Proofs

`SplitLedgerProofs` assumes the named assumptions on the constants (members
are integers, every end of an obligation is charged, members, expenses and
settlements are finite sets, the cap is a natural number). `Inv` strengthens type
correctness, consent and the chain by `RevisionsWellFormed` (a revision is
reviewed by everyone it or its predecessor charges), `ApprovalsWellFormed` (one
decision per member, from the frozen account) and `HeadsAreLast` (no accepted
revision replaces a current head, without which two revisions of the same
head could both be accepted). From it follow `TypeCorrect`, `Consent`,
`AcceptedChain` and, as an action property, `ConsentedPairs`.

The three invariants about money (`Money`) are proved from `Inv`, with the facts of
`FiniteSums` about sums over finite sets. `PostFacts` says what one posting
does: the incidence of the sum of two sets of pair amounts is the sum of
their incidences, all incidences of a context cancel (each pair is counted at
its low and its high end: `SumByClass`), and none exceeds the gross, since the
pairs where a member is low and those where it is high are disjoint.
`ExplanationOfHead` and `ExplanationOfPayment` say that one line of the
explanation moves by what was posted; that a head is a known revision, which
nobody rewrites, comes from `Inv`. From it follow `PairsExplained`,
`MembersBalance` and `CapHolds`.

`FiniteSums` starts from the definition of the community modules, a recursive
function over subsets whose element `CHOOSE` picks. That the recursion has a
solution (`SumsExist`) and that any element may be taken out first
(`SumTakesOut`) is shown by induction on the size of the set. The library's
induction theorems are about operators and cannot be instantiated here, so
`NatSetInduction` states induction for a SET of naturals, proved from the
well-foundedness of `<`, and `FiniteSetInduction` the same for a family of
finite sets; the other lemmas use only these two.

`SplitMembershipProofs` splits the steps into kinds (calm steps that touch no
invitation or binding, a new invitation, a group link request, a binding) and
proves each invariant once per kind. `Inv` adds `InvitedExist` (invitations
are to rows that exist) and `WaitingWereActive` (a waiting command belongs to
a row that was active, and such a row is now active or left): without the
second, a late departure could change a declined row. From it follow all the
membership properties the runs check.

`NotificationOutboxProofs` assumes that the set of pushes is finite and the
caps positive. It first says what one step may do to one row (`RowMoves`), to
a cycle (`JobMoves`), to a call (`CallMoves`) and to the history
(`HistoryMoves`), and proves each part of `Inv` from these. `TrackCounts` is
the arithmetic of the trigger: a set's size changes by what enters less what
leaves. `Inv` adds `CallsAreWaitedFor` (who may own a call),
`AttemptsAreUnique` and `AttemptsAreCounted` (a claim takes a number nobody
remembers), `ForgottenIsOver` (a push that may be enqueued again has no cycle
and no call left, so that its numbers may start again) and `ResultsAreTrue` (a
"permanent" result without a cause belongs to a lease that is lost, and a
lost lease is never had again). From it follow all the safety properties the
runs check.

`Implementation` is the refinement: each step of the outbox, seen through the
mapping, is a step of `PushDelivery` or a stutter. It follows from `RowMoves`,
`CallMoves` and `HistoryMoves`; that a push is delivered only after it was
taken, and that no attempt is taken twice, need the invariant. It contains
`Delivered` and `EndsStay`, which are proved as well.

`OtpChallengeProofs` assumes finite sets of codes and verifications and a
positive limit. `RowsStay` and `RowsCome` say what a step may do to a row: it
closes and never opens again, and it comes only from the one request whose turn
it is. `Inv` adds `RequestsApart` (an id belongs to one request, whose row
exists exactly after its insert, and which clears the marker only for a closed
row), `ChecksHaveRows` (the same for verifications), `WinnersAreConsumed`,
`Guarded` (the marker is held from the claim on, before the code is delivered)
and `Counted` (an open row has counted every answer, and what is about to be
counted was compared below the limit). From it follow all the properties the
run checks.

`RefreshRotationProofs` assumes that the absent value and the refusals are no
tokens, ids or answers. `Inv` adds that successors form chains (`RowsInOrder`:
a row is revoked when it has a successor, and no two rows share one), what a
handler has locked and read (`JobsInOrder`), that a client stores its own
device's tokens (`StoredAreOwn`), that nobody presents a successor before the
client has stored it (`SuccessorsUntouched`), that every refresh of the token a
client holds carries the id it kept (`IdsAreKept`), and that no revocation of a
device is under way whose session nobody ended (`EndingsAreExcused`). `SessionsSurvive` needs them all: a client may ask again
after any number of lost answers only because the successor it never saw was
not used by anyone else. From it follow all the properties the run checks, the
action property `LateAnswersAreDropped` among them.

`SplitSyncProofs` is for any number of contexts, items and commands, logs and
pages of any length. `Inv` has four parts besides the types. `Service`: a
command is in one log, that of its context, once; the account's stream has no
gaps but for the open transaction, which comes after all events, and refers to
each log in the log's order (`StreamInOrder`, `OpenIsLast`); nothing follows
the event of leaving (`FirstAndLast`). `Feed`: cursor and page pass events
only; a page has the rows of every event it passes, not older than the event
(`PageIsWhole`), and shows nothing of a context whose end it passes
(`PageHides`). `Copy`: the same of what the device has stored (`RowsAreKept`,
from which `NothingSkipped` follows). `Answers`: whatever was executed, sent or
told has its cause in membership and receipts. `Greatest` (a finite set with a
strict total order has a greatest element) is proved by comparing
cardinalities, not by induction; `LastChangeIs` and the cutting of pages
rest on it. The assumptions say that creating commands name contexts of their
own, as the application does, which draws a new uuid for each
(`CommandsAssumption`), and that the model values of absence differ from data.
From it follow all the properties the run checks.

`AccountDeletionProofs` is for any number of accounts, workers, requests and
attempts, and journals of any capacity. `Inv` has four parts. `Rows`:
each database, and its backup, has one request in force per account, denies
exactly the accounts whose request was committed, and denies all it has seen
of the journal. `Journals`: the second copy is contained in the first, the
checkpoint in the second; what the journal, the product and its backup
tell (`Intents`) is one request per account; the other service denies only what
the journal has. `Sides`: either the services work or the tool does; what the
other service denies or is asked to deny, the product denies; and a transaction
that has passed its fence belongs to an account that is neither denied nor being
claimed by a live session. `Works`: what a job has written by the step it is at;
that one claim is open at a time and, until someone writes after a claim, with
or without its session, the product has seen what the claim found
(`ClaimsFollow`); and that the tool has denied in both databases whatever left
its plan. A worker may write an intent because the journal is still at the
position its claim was given, so that the product has seen all of it and no other
request of the account can be in it; this holds even when the session is lost and
the fence with it. A restore is harmless because a backup tells only what the
journal or the product told before. From
it follow all the properties the run checks. `Max` over generations needs the
well-foundedness of the natural numbers, no induction.

Only model-checked: `EveryPushEnds` is a liveness property under fairness and
stays with TLC. The type invariants of `SplitLedger`, `SplitMembership`
and `NotificationOutbox` are proved and not in a run.

## Not modelled

* Allocation and projection (`domain.js`, `journal.js`): arithmetic without
  state, with fixtures and a second implementation in Dart to compare with.
* The ledger's source funding and private cost facts: behind a flag that is
  off; a revision with linked sources waits.
* SMS rules, parsing, rewards, statements: text and arithmetic over data
  files, sequential.
* Transaction sync, mail polling, backup, routes: one transaction or one loop
  each over data from outside.
* The application's older outboxes and its screens; the console, the scraper,
  scripts.

These are the largest files of the repository, and the reason why the modelled
lines are a small share of it.

## Plan

1. `SplitLedger`, `SplitMembership`, `NotificationOutbox`, `PushDelivery`,
   `OtpChallenge`: done, with proofs.
2. `SplitSync`, `RefreshRotation`, `AccountDeletion`: done, with proofs.
3. An abstract agreement (who consented to which pair amounts) implemented by
   `SplitLedger`, checked as a refinement and proved.
4. If room is left: template jobs and rule publication of `sms_v2`, the older
   mobile outboxes, the locks of the notification counters.
