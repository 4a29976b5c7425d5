# Temvia, modelled

TLA+ models of the server that the Temvia template generates
(`src/template/api`): a Go API over one PostgreSQL database, run as one or more
processes. Almost everything that can go wrong in it goes wrong *between* SQL
statements: transactions run under READ COMMITTED, handlers read in one
statement and write in another, a password hash takes a good part of a second
in between, mail leaves the database through an outbox, and a process may stop
anywhere. The models keep that: **one action is one SQL statement, one
transaction or one call that leaves the process**, and everything else may
happen between two actions.

Paths below are relative to `src/template/api/`; `pg/` stands for
`internal/auth/adapter/postgres/`, `httpapi/` for `internal/auth/adapter/httpapi/`
and `app/` for `internal/auth/application/`.

## 1. Inventory

| Part | State | Operations | Hard because | Correct when |
|---|---|---|---|---|
| Mail outbox and dispatcher (`pg/outbox.go`, `pg/mail_tasks.go`, `app/mail_dispatcher.go`) | `auth_mail_outbox`, `auth_mail_task_attempts`, `auto_retry_count`; per process one job and its lease token | enqueue, supersede, sweep, clean up, claim, deliver, mark sent / retry / dead-letter / discard, record late result; administrator's retry and delete | several dispatchers, crashes, lost SMTP replies, leases outrun, late results, rounds that restart a counter | results land on their own attempt; no success is invented or lost; history complete; duplicates only after faults; every task ends |
| Sessions and login (`pg/sessions.go`, `app/authentication.go`, `pg/online.go`) | `auth_sessions`, `auth_users.auth_version`, cookies | login, request, logout, kick, expiry, cleanup | version read long before the session is inserted; session and account read apart | no session survives a revocation, none revives |
| Password recovery (`pg/recovery.go`, `app/password_recovery.go`) | `auth_password_resets` | request, look up, preflight, complete, lapse | preflight, hashing and completion are apart | links work once, for the password they were issued for |
| Personal settings (`app/personal_settings.go`, `pg/personal_settings.go`) | account, email change requests | change password, change address, name, avatar | verification before the lock; what the history says of values written without a condition | no revocation is overwritten |
| Roles and user lifecycle (`pg/access.go`, `pg/user_lifecycle.go`) | roles, permissions, assignments, `disabled_at` | create / replace / delete role, assign, deactivate, reactivate, delete, kick | authority listed before it is locked; counting the last administrator; lock order | decisions still hold when written; an available super admin remains; nobody escalates; no deadlock |
| Invitations and addresses (`pg/access.go`, `app/access.go`) | invitations, invitation roles, advisory lock per address | create, resend, revoke, accept | two tables with one address space | one invitation becomes at most one account |
| Rate limiter (`pg/limiter.go`, `pg/cleanup.go`) | token buckets | take from several buckets, refill, clean up | row locks over several buckets, arithmetic of refill | budget never exceeded; cleanup does not hand out tokens |
| First-run setup (`app/setup.go`, `pg/store.go`) | startup token, first account | issue, complete | two processes, restart | one first administrator |
| Settings (`app/settings.go`, `app/identity.go`, `httpapi/system_identity.go`, their stores) | one row with a revision each, the mailer of a process, icons in caches | form, compare and set, reload, restart | read, work out and write are apart; two processes | secrets stay with their server, no edit undoes another, caches are sound |
| Operation log (`app/operation_log.go`, `httpapi/operation_logs.go` and the handlers) | rows of the history, status of a recorder, retention | record after the operation, clean up | state read before the transaction that changes it; best effort after commit | one true row for an operation, or a process that says it is missing |
| Server and shutdown (`cmd/server`) | listeners, dispatcher goroutine, active job | drain, stop, deadline | shutdown against an active delivery | active job is settled or left to its lease |
| HTTP adapter, domain values, hashing, SMTP, configuration, admin front end, generator | none of their own, or external | | | pure functions, I/O or sequential scripts: not modelled |

How they meet: every revoking operation adds one to `auth_version`, which the
session part compares; recovery, invitations and personal settings insert
outbox rows in their own transactions; the lifecycle operations touch sessions,
reset links, roles and the outbox in one transaction. The global lock order is
address (advisory) < roles by UUID < users by UUID < invitation or reset row.

`PROJECT.json` lists the hazards line by line with the properties that watch
them.

## 2. Modules

| Module | Models |
|---|---|
| `MailTask` | what the mail task page promises of a task: five states, the moves between them, sent only if SMTP took the message |
| `MailOutbox` | the outbox, its dispatchers, administrators, clocks and faults; implements `MailTask` |
| `MCMailOutbox` | instances for TLC |
| `MailOutboxProofs` | inductive invariant, six safety theorems and the refinement of `MailTask` |
| `MailCountsProofs` | retry budget, copies per fault, history against counter |
| `Sessions` | accounts, sessions, reset links and the requests in progress |
| `MCSessions` | instances for TLC |
| `SessionsProofs` | inductive invariant and all the safety properties of `Sessions` |
| `AccessControl` | roles, assignments, lifecycle and invitations as transactions with explicit row locks |
| `MCAccessControl` | instances for TLC |
| `AccessControlProofs` | inductive invariant and all the safety properties of `AccessControl` |
| `RateLimiter` | token buckets, the requests that charge them, configuration, cleanup |
| `MCRateLimiter` | instances for TLC |
| `RateLimiterProofs` | inductive invariant, all the properties of `RateLimiter`, no circular wait, the arithmetic of refills |
| `Settings` | mail settings and system identity: forms, saves, mailers, icons |
| `MCSettings` | instances for TLC |
| `SettingsProofs` | inductive invariant and all the safety properties of `Settings` |
| `AddressBook` | what sign-in addresses promise: one holder each, and four ways to change hands |
| `Emails` | first-run setup, invitations and changes of address; implements `AddressBook` |
| `MCEmails` | instances for TLC |
| `EmailsProofs` | inductive invariant, all the properties of `Emails` and the refinement |
| `OperationLog` | the recording handlers of the API, the history and its retention |
| `MCOperationLog` | instances for TLC |
| `OperationLogProofs` | inductive invariant and all the properties of `OperationLog` |

### MailOutbox

`row[t]` is a row of `auth_mail_outbox`. `status` folds `sent_at`, `dead_at` and
`canceled_at`; `round`, `tries` and `total` are `round_number`,
`round_attempt_count` and `attempt_count`; `lease` is the lease token,
represented by the ordinal of the claim among the claims of its row (the code
draws a UUID and compares it together with the row's id; the ordinal is as
unique). Timestamps are abstracted to whether they are null, past or future;
`LeaseLapses`, `BackoffPasses` and `LegacyLapses` are the passing of time.
`Legacy` tasks are rows without sealed material from before migration 12.

A worker walks through `ProcessOnce`: `idle -> cleanup -> claim -> deliver ->
decide -> ack -> record`, an action per statement. `Deliver` chooses among what
SMTP and composition may do, including a reply that is lost after the server
took the message; `Decide` is `handleDeliveryFailure` with the retry policy read
then; `Acknowledge` is the token-checked update, `RecordMailAttempt` the
late-result path. `LoseJob` is a crash, a failed database call, or a shutdown.
`SweepMail` runs several statements under READ COMMITTED in one transaction;
they touch disjoint rows of the model and are one action. Superseding of legacy
rows by a reset, an invitation, a deactivation or a deletion is `Supersede`.
Observers: `accepted` is what SMTP took, `faults` counts crashes, lost replies
and leases outrun by their worker.

### Sessions

`session[t].version` is the `auth_version` the login read, `account[u].version`
the present one. A request is the record `op[c]` with the handler's local
variables; `op[c].at` says after which statement it stands. Logins, authenticated
requests, password changes and completions of a link each take several actions.
`Revoke` is what all revoking operations share. Observers: `late` marks a
session or operation whose account was revoked after it read it, and a request
whose account is revoked between its reads of the session and of the account; `password` in a
session is what its login proved to know; `letter` remembers what each link was
issued for and how often it worked.
Not here: who may revoke (`AccessControl`), addresses, rate limits, mail, and
the arithmetic of idle and absolute expiry (a session is fresh or not).

### AccessControl

`tx[c]` is a transaction: `Begin` lists, unlocked, the rows to lock; `Lock`
takes one row lock at a time in the code's order and waits while another
transaction has it; `Decide` evaluates every check of the handler on what is
committed at that moment; `Commit...` writes and releases; `Abandon` is any
refusal, missing row, error or aborted wait. `PassOver` is the lifecycle's scan
of all roles, which skips a row deleted meanwhile where the others fail. Ids are
numbers in UUID order; roles get UUIDv7 ids and the built-in role is the first
row of the table, hence the smallest. An invitation is locked after users.
A resend of an invitation locks like a revocation and changes nothing modelled.
The checks of the application layer before the transaction refuse only what
`Decide` refuses as well and are left out.

### RateLimiter

`bucket[k]` is a row of `auth_rate_limit_buckets`, `k` its kind and identity;
the rows of two namespaces never meet, so a behaviour follows one. `request[r]`
is a transaction: `Begin` knows its buckets, `Lock` creates or locks one row at
a time (the source's first, the others by `rateLimitKindRank`), `Decide` refills
and charges all and commits, `DenyAtSource` stops at an exhausted source.
`Refilled` is the integer arithmetic of `refillRateLimitBucket`, remainder and
clipping included; a source-aware request reads its time at the first row and
may use it much later. `Loaded` and `Accepted` are the defaults, the parsing and
the validation of the environment at a start, in `time.Duration` arithmetic
scaled down to `MaxDuration`. `HasCleanupPolicy` is the list the cleanup joins
with. Observer: `spent`, when tokens of a bucket were taken.

### Settings

A save is `LoadForm`, `BeginSave...` (mutex of the process, read, compare,
resolve what the form keeps), `Commit...` (the conditional statement) and, for
mail, `Reload`; `Worked` is the record in between. A server stands for host,
port and account, what `sameSMTPIdentity` compares. A process may stop and start
anywhere (`LoadRuntime`). `ShowPage` and `FetchIcon` are the addresses of icons
and what caches may keep of them. Observers: where a password was entered, and
the icon of each revision.

### Emails

A transaction that gives an address to somebody is `Begin...` (the unlocked read
that finds the address), `May...` (advisory lock, row locks and all checks) and
`Commit...` (the writes). Locking and checking are one step: the checks read
only what is locked or what they read at that moment, so whatever another
transaction does between lock and check it could as well do before. Codes, links
and tokens are numbered as they are made; presenting one is presenting its
number, and a wrong guess is 0. `issued` remembers what each was made for, how
often it was missed and how often it served. Passwords, roles and mail of the
same transactions are in the other modules.

### OperationLog

A handler is the sequence of its stages, in the order of the code: checks, what
it reads of the object as it was, the one transaction that changes the object,
the record. Every recording handler of the API is one of these sequences, for one
object per behaviour. Of an object the model keeps how often each of its parts was
changed: the version that guards most writes and, of an account, name, avatar and
address. What a snapshot says of other objects (the roles of an account) is left
out.

Where a row's "before" comes from is modelled as it is: `Snapshot` (read outside
of the transaction), `Self` (`principal.User`, read with the session) and, for
roles deleted and invitations revoked or sent again, the transaction itself.
`Replace` and `Remove` are guarded by the revision, `Confirm` compares the
address; `Rename`, `SetAvatar` and `ClearAvatar` replace whatever is there.
Failures of saves of settings show the snapshot as well (`OfFailure`). The
client's revision is the object's at some time before the request, which is
complete when it is sent. A refused request is recorded, except where the handler
answers 404 first (`silent id`). Observers: `began` is the object when the
request began, `replaced` what its change really replaced, `due` whether its row
was ever too old for the retention of that time. Time counts days; reading the
clock and marking the recorder are one step. A request that dies with its process
after its change leaves neither row nor reported miss; the design accepts that
(`.scratch/operation-log/discussion.md:20`), and no property speaks of it.

## 3. Runs

All with two TLC workers; states are distinct states.

| Run | Bounds | Question | Size |
|---|---|---|---|
| `outbox` | 1 sealed task, 2 dispatchers, 2 rounds, retry count 0 or 1, 3 faults | all safety properties of the outbox and the refinement of `MailTask` | 354,446 |
| `outbox_life` | a sealed and a legacy task, 2 dispatchers, 1 round, 1 fault | every task ends, under fairness | 87,438 |
| `retry_budget` | 1 task, 1 dispatcher, retry count 0, 1 fault | expected violation, see Findings | found at once |
| `sessions` | 1 account, 2 requests, 2 tokens, 2 passwords, 1 link, 4 versions | all safety properties of sessions | 488,005 |
| `session_recovery` | 2 accounts, 2 links, 1 request, 1 token, 3 versions | links across accounts | 206,271 |
| `access_control` | 2 accounts, 2 roles, 1 invitation, 2 transactions, 2 versions; all operations but deactivation and reactivation | stable decisions, references, escalation, lock cycles | 1,384,478 |
| `administrator_races` | 3 accounts, 2 roles, 2 transactions, 2 versions; assign, deactivate, reactivate | the last available administrator | 958,993 |
| `rate_limiter` | 2 requests, 5 namespaces, 4 environments, 2 addresses and recipients, clock to 3, durations to 12 | budgets, joint charges, cleanup | 517,765 |
| `cleanup_policies` | the same, changes of address only | expected violation, see Findings | found early |
| `settings` | 2 processes, 2 administrators, 3 servers (one without account), 2 icons, 4 revisions | all safety properties of settings | 121,323 |
| `emails` | 2 accounts, 1 invitation, 2 addresses, 2 transactions, 2 guesses, 4 codes | the refinement of `AddressBook`, codes | 413,649 |
| `operation_log` | 2 processes, 2 requests, any two handlers on one object, retention of 1 or 2 days, 2 changes | truth and completeness of the history | 2,920,195 |

Why these bounds suffice. *Outbox*: tasks share nothing but the worker that
holds them, so one task shows all that concerns one row; two workers are enough
for a stale and a current token, three faults for crash, lost reply and outrun
lease in one behaviour, two rounds for the restart of the round counter.
`outbox_life` has a second task so that one task may keep the worker from the
other. *Sessions*: every property is about one account; two requests give every
pair of handlers, administrators being free to act at any time without a client;
four versions allow three revocations. The second run exchanges a request for a
second account and link. *AccessControl*: `access_control` starts with one super
admin and nothing else, so that every role, account and invitation the other
transactions rely on came about in the model. Two versions mean one change
per account, enough to make what another transaction read stale, but leave
nothing to follow a deactivation; the other run has those, with an account
disabled from the start. `administrator_races` needs
three accounts: the race is between a manager who is no super admin and
deactivates one administrator, and a second administrator who resigns. *RateLimiter*: the five namespaces are the
five shapes of lists of buckets; capacities of 1 and 2 and intervals of 1 and 2 run
empty and refill with a remainder within three ticks; the environments add
a slower policy, a value that does not parse and one whose retention overflows.
*Settings*: two administrators on the same or on two processes give every pair
of saves, four revisions a save between two others and a password older than its
row. *Emails*: two transactions for two addresses collide and cross; four codes
are enough to found an account, invite a second one, request a change and ask
for another code. *OperationLog*: two requests about one object are every pair of
handlers; two days outlast the shorter retention. Bounded
counters guard the actions that raise them (`MaxVersion`, `MaxRounds`,
`MaxFaults`, `MaxTime`, `MaxRevision`, `MaxCodes`, `MaxNow`). The `Sessions` runs set CHECK_DEADLOCK FALSE because versions,
tokens and links run out and deleted accounts do not come back; in the other runs
somebody can always move.

Symmetry: interchangeable workers, clients, tokens, links, passwords and accounts
in safety runs; none in the liveness run, none over the ids of
`AccessControl`, which are ordered, and none over the server without account.

### Properties

*MailOutbox.* `LeaseIdentity` (an acknowledgement that matches the token is
written under the round and counter of the attempt really made),
`HistoryComplete` and `HistoryMatchesCounter` (no attempt is missing, whatever
crashed), `SentIsBacked` (no success without SMTP's), `SentAttemptsStand` (none
rewritten), `DuplicatesNeedFaults` (each extra copy is the work of a fault),
`BudgetKept` (without faults the retry count holds), `DeletedStaysDeleted`,
`ImplementsMailTask`, `EveryTaskFinishes`.

*Sessions.* `LiveSessionsAreCurrent`, `RequestsAreEntitled`, `SessionsStayDead`,
`LinksServeOnce`, `PasswordsReplacedKnowingly`.

*AccessControl.* `DecisionsStand` (what a transaction was allowed to do it is
still allowed to do when it writes), `AdministratorRemains`, `NoEscalation`,
`AssignmentsHold`, `NoCircularWait`.

*RateLimiter.* `BudgetHolds` (between two charges of a bucket never more than its
capacity and what refills in between, on the database's clock),
`ChargedTogether` (an admitted request is charged everywhere, a refused one at
its source only), `CollectableIsFull` (deleting a row gives nobody a token).

*Settings.* `SecretsStayHome`, `KeptFieldsSurvive`, `RuntimeNeverGoesBack`,
`CachedIconIsItsRevision`.

*Emails.* `ImplementsAddressBook` (one holder per address across two tables;
addresses change hands in one step), `AddressesAreConfirmed` (an account comes
to an address only by the last code sent there, for this purpose, once),
`CodesWearOut`.

*OperationLog.* `BeforeIsFaithful` (what a row says was before is no older than
the request and no newer than what its change replaced, though it was read outside
of the transaction; a revision and an address are exactly those replaced),
`OperationsAreOnRecord` (one row per answered change, true, and kept as long as
the retention of any day it was there demanded; or a process that reports the
miss).

Each property of each passing run has a mutant: a definition next to the one it
replaces, with a plausible bug, under which TLC finds the property violated.

### Fairness

Only `outbox_life` assumes any, and only weak fairness: each dispatcher goes on
with `ProcessOnce` (`Run` is driven by a ticker, and every call it makes has a
deadline shorter than the lease); a lease that no worker holds any more runs
out, and a back-off passes (clocks advance). Nothing is assumed of
administrators, of faults or of SMTP.

## 4. Proofs

`MailOutboxProofs` with `MailCountsProofs`, `SessionsProofs`,
`AccessControlProofs`, `RateLimiterProofs`, `SettingsProofs`, `EmailsProofs` and
`OperationLogProofs` prove, for every value of the constants and from the
assumptions named in the modules, that an inductive invariant `IInv` holds and
with it the properties listed in `PROJECT.json`. Every safety and action property
of a passing run is a theorem of its component.

*MailOutbox.* The properties alone are not inductive. That a matching token
means the current attempt (`LeaseIdentity`) needs that a lease on a row is the
latest claim (`LeaseIsLatest`) and that jobs never run ahead of their rows
(`JobsBehindRows`), in the order of rounds and numbers `NotAfter`. That no
recorded success is overwritten needs that no two workers hold the same attempt
(`JobsDistinct`), that history is not ahead of its row (`AttemptsBehindRows`)
and that a job in hand has no success on record (`JobsNotRecordedSent`).
`SentIsBacked` follows once a worker about to write a success saw SMTP accept
(`SuccessWasAccepted`). There is a step per action and below it a step per
conjunct it can disturb.

Four more results each add an invariant to `IInv`. The refinement of `MailTask`
needs that a leased row is due (`DueRows`), so that no task is sent out of its
back-off. `BudgetKept`: without faults every lease has a worker that holds it
(`LeasesAreHeld`), so what a claim finds without a lease was given back under
the budget; a worker that is too late never owns its row again
(`LateWorkersDoNotOwn`). `DuplicatesNeedFaults`: taken and pending deliveries of
a task are charged to the faults so far, and one more only while a live lease
may still end in a success (`Hopeful`) or the task is over (`Covered`); a claim
is made when there is no such hope. `HistoryMatchesCounter`: the attempts on
record are as many as the lifetime counter says, or one less while the last one
is under way (`Counted`), as every result a worker holds is on record already or
is that last one (`JobsAreRecorded`).

*Sessions.* The core is `SessionsBehindAccounts` and `ReadsBehindAccounts`: no
session and no operation carries a version above its account's, and at equal
version it knows the present password and is not late. A revocation makes the
version strictly greater, so everything read before is dead by comparison.
`LateRequestsAreOld` carries this across the two reads of a request, between
which a revocation is noticed as well;
`LinksServeOnce` is inductive with the types.

*AccessControl.* A decision must still hold when its writes happen. Every
operation of an administrator locks the row of the built-in role (`Armed`), so
two of them are never both past their decision (`ActorsExclude`). Left are the
steps that lock less: completing an invitation adds an account and takes nothing
away (`AdmissionsStand`), is kept from revocation by the invitation's row, and
from another completion as well; a change of one's own account raises only its
version, and the lock on the target keeps it out where a version was compared
(`NewVersionsStand`). `AdministratorRemains` and `AssignmentsHold` are needed on
the way and so are part of `IInv`. `NoCircularWait`: each transaction's next lock comes
after those it has (`LocksInOrder`), the locks that exist are finitely many, so
among those wanted in a circle there is a last one (`LastLock`), and whoever
holds it waits for nothing in the circle. Ids are natural numbers, finitely many
(`IdsAssumption`); permissions are any set.

*RateLimiter.* A sum over the charges of a bucket would need induction over data.
Instead a row *pays* for each charge on record: what was charged from it on, and
the tokens left, come to no more than the capacity and one token for each
interval by which the row has moved on since (`Covered`, `Paid`). This is
`(n + tokens - capacity) * refill <= last - since + refill - 1` for the last `n`
charges, the first of them at `since`. A refill moves the row on by whole
intervals worth at most a token each (`PaidByRefill`); a charge exchanges a token
for an entry, and the new entry is paid because the row was refilled less than
an interval before its time (`PaidCharge`), however old that time is. The row of
a bucket without one is the one that would be created now: it is full, and pays
for everything its predecessor did because that one was deleted a whole retention
after its last refill (`PaidAfterRetention`). For this the deadline in a row that
was charged must be the one of the running configuration, which `Sound` says.
`BudgetHolds` is the sum at the moment of the last charge. What a request has
locked it holds alone (`RowsHeldOnce`), so the row it writes back is the one that
pays (`HeldRowsSound`), and a source was found with a token at the very time it
is charged for, so that no bucket goes below zero. `CollectableIsFull` needs only
that capacity + 1 intervals fill any row. `ChargedTogether`: only a decision takes
tokens. Beyond the runs: the source comes before the others and those in the
order of their ranks (`LocksInOrder`), so no set of requests waits in a circle
(`NeverDeadlocked`, what the comment in `pg/limiter.go` on the sorted order
claims); refilling twice is refilling once at the later time (`RefillsCompose`);
the retention of an accepted policy is a duration (`RetentionIsADuration`). The
constants are limited by `LimiterAssumption` only: any policies, also in the
environment, any identities and requests.

*Settings.* A record between read and write is what the row of its revision
implies: as long as the row still has that revision, what the record keeps is
what the row says. The revision grows with every write, so a conditional write
that succeeds was worked out from the row it replaces. A process reloads under
its mutex only, in the order of its own commits, and never above the row.

*Emails.* Two tables cannot share a unique index, so the argument is about
locks. Two transactions past their checks never have the same address, nor the
same account (`LocksExclude`); everybody who gives an address away is among
them, so what was checked about it still holds at the commit (`Prepared`) and no
address is ever in two rows (`Distinct`). A transaction that has no lock yet may
find its request or invitation gone or replaced, but never one for another
address under the same id (`Armed`). The code a row refers to is the last made
for it and was never used (`ChangeKnown`, `LinkKnown`, `TokenKnown`), and its
misses and the attempts left make `MaxAttempts`, which is `CodesWearOut`. The
refinement: each commit that moves an address is one action of `AddressBook`
(`SetupTakes` to `CompleteMoves`), everything else leaves all holders as they are
(`OthersMoveNobody`).

*OperationLog.* Every handler has one commit, early stages before it and at most
the record after it (`AllHandlers`); a request under way keeps that shape
(`Ahead`). Until it commits, what it saw lies, part by part, between the object at its start
and the present one (`Fits`), parts only rise, and a guarded commit wants form
and present part to be equal: of a guarded part, what was seen is what is
replaced. The form's version is not newer than the one the snapshot saw, and the
address never changes without the version. Rows agree with the history of their
request (`RowsFit`). No cleanup deletes a row that was never due: if a row is too
old for the days the cleanup has read, then it was marked when these days were the
retention, since time stands still while a cleanup runs (it has two seconds) and
`SaveRetention` and `Tick` mark rows at once (`Kept`, `AgedRequests`). A process
has not forgotten its last miss (`MissesAreKnown`).

*Only model-checked:* `EveryTaskFinishes`. Liveness under fairness and `ENABLED`
are beyond the prover, and so is induction over data. The two properties
that are expected to be violated are of course not proved.

## 5. Findings

`retry_budget`: `CONTEXT.md` calls the automatic email retry count "the maximum
number of automatic delivery retries after an email's initial sending attempt".
The budget is checked only when a failed delivery is handled
(`app/mail_dispatcher.go`); a claim raises the counter without looking at it
(`pg/outbox.go`). A worker that dies after its last permitted attempt leaves an
open row that is claimed and sent once more. With a retry count of 0 the run
reaches a second attempt of the first round. `BudgetKept` states what does hold:
without faults the count is a maximum.

`cleanup_policies`: the comment on `rateLimitCleanupPolicies` (`pg/cleanup.go`)
says the list mirrors the policies of the limiter, since otherwise "lengthening
an interval could delete a depleted bucket and let it recover immediately". The
list has no entry for the two buckets of `email-change`, whose limits can be
configured; for these the cleanup uses the deadline the older configuration
wrote. The run empties such a bucket, restarts with a longer interval and
deletes it before it is full. `CollectableIsFull` holds for all others.

Two disagreements have no run. `.scratch/operation-log/discussion.md:13` wants a
row to give meaningful and safe values before and after the change. Name and
avatar are taken "before" from the session's read of the account
(`httpapi/personal_settings.go:107,292,312`) and written without a condition
(`pg/personal_settings.go`), so two requests of one account may start from the
same value and both succeed: the row of the second shows what the first replaced.
The model has this behaviour, and `BeforeIsFaithful` says what does hold: the
value was there during the request.

The glossary (`CONTEXT.md:153`) has the operation log keep the outcome of account
activities, while a successful change of language, and requests with an id that
is not canonical, leave no row; it does not say which activities count.

That a request for a change of address outlives a change of the password is
intended (`app/personal_settings.go:50`), and the models have it.

## 6. Not modelled, and why

- Statement-level conflicts inside one transaction that PostgreSQL resolves by
  waiting or aborting (for instance a sweep that inserts the attempt a claim is
  inserting: one of them fails and the next tick repeats it).
- The sealing and composition of messages beyond whether they succeed; wording,
  locales, pagination and all listings (pure reads, except that the list of
  online users is read in two statements).
- Language: a write of one row without a condition. Of display name and avatar
  only that they change (`OperationLog`); the bytes of avatars and icons, and
  their validation.
- The arithmetic of idle and absolute session deadlines: a session is fresh or not.
- Shutdown: `cmd/server` starts its loops, waits for a signal, cancels and waits
  with a deadline, in sequence. What a stop leaves behind is in the other
  modules: a job is lost or settled (`MailOutbox`), a process restarts between
  any two steps (`Settings`, `OperationLog`, `RateLimiter`).
- The test message of the mail settings has no state but its task in the outbox.
- Password hashing, SMTP, cookies, parsing and status codes, canonical forms of
  addresses and names, the admin front end and the generator: external, pure
  functions, or sequential.

## 7. What is left

1. `SessionClock`: idle and absolute deadlines, renewal at most so often, lock
   before clock; a refinement of the `fresh` flag of `Sessions`.
2. The list of online users as two reads.
