# A TLA+ model of WebhookHub

WebhookHub receives webhooks over HTTP, stores them in PostgreSQL, and a pool of
workers forwards each to the target its source's rule names, retrying failures and
moving the hopeless ones to a dead-letter queue. Administrators edit rules, pause
sources, replay and delete events. This directory holds TLA+ models of the parts of
that program in which the order of events matters, the TLC runs that check them, and
proofs, checked by TLAPS, of their safety properties for any number of webhooks,
workers, rules, clients and processes, and any accepted durations.

Paths below are relative to the repository (`src/` here). `PROJECT.json` lists the
runs, the hazards, and for every definition the lines of code it stands for.

## 1. Inventory

| Component | State | Operations | Talks to |
|---|---|---|---|
| **Delivery queue** `internal/storage/db_retry.go`, `db_delivery.go` | tables `webhooks` (status, failure count, retry time, lease and its version, response, dead-letter time) and `delivery_attempts` | claim, create attempt, finish; each one transaction | called by the workers |
| **Delivery workers** `internal/forwarder/forwarder.go` | a claim, a rule, an attempt id and a result per goroutine | `runWorker`, `Forward`, the HTTP exchange | queue, rules, the target |
| **Replay and deletion** `internal/storage/db.go`, `db_bulk_replay.go`, handlers | none of its own | replay, bulk replay (up to 20), delete | the same rows as the workers |
| **Retention** `internal/storage/db_retention.go` | a ticker | deletes old settled rows in batches | the same rows |
| **Forwarding rules** `internal/storage/db_forwarding.go`, `internal/handler/forwarding.go` | table `forwarding_rules` | add, edit (read, merge form, upsert), pause, resume, delete | read by workers, the claim query and intake |
| **Intake** `internal/handler/webhook.go` | none | check source and size, verify the signature, persist | rules, `webhooks` |
| **Login limiter** `internal/handler/login_limiter.go` | in-memory map of attempts per client | reserve, finish, sweep | the login handler |
| **Sessions, CSRF** `internal/handler/auth.go` | signed cookies only | login, logout, checks | limiter, users |
| **Inspect page** `internal/handler/inspect.go` | none | shows a webhook with its attempts | both delivery tables |
| **Lists, DLQ, metrics, dashboard** `internal/handler/*`, `db_filtered.go`, `db_delivery_attempts.go` | none | filtered pages, counts | read only |
| **HMAC** `internal/hmacsig` | none | sign, verify | intake, workers |
| **Process** `cmd/webhookhub/main.go` | pool context, HTTP server | start, graceful shutdown, configuration | everything |

What is hard about it, and what makes each part correct:

* *Delivery.* Several workers (and, during a deployment, several processes) take rows
  from one table. Nothing but the lease version separates a worker that stalled from
  the one that took over. A crash may come between any two transactions; the pool may
  be cancelled after the target answered but before the answer is stored; the rule can
  change in mid-delivery; the operator can replay or delete at any moment. Correct
  means: an old owner never writes; the row says what its history says; no row is
  stuck; each failure is decided by the rule it was sent under and the retry budget holds;
  everything is settled in the end.
* *Rules.* An edit is a read and a write with the merge of a form in between. Correct
  means: no stale edit resumes a paused source, stored verification settings are usable,
  and a blank outgoing secret keeps the stored one.
* *Limiter.* Requests hold pointers into the map across a slow password check, while
  windows end and entries are swept. Correct means: failures and checks in flight never
  exceed the limit together, slots never leak, and old requests do not touch new windows.
* *Transactions.* PostgreSQL runs them under READ COMMITTED: a `SELECT ... FOR UPDATE` looks at
  a snapshot and locks its rows later. Correct means: they change the queue as if they
  were atomic, no attempt is left open behind a row, and they never wait for each other
  in a circle.
* *Process.* Two processes may start on an empty database; at the end the HTTP server,
  the workers and the database close in an order, under one deadline. Correct means: a single
  admin, who gets the configured password; a shutdown that is bounded, and cuts nothing off
  before its time is over.
* *Reads* (inspect, metrics, pages) combine rows written at different times.

## 2. Modules

| Module | What it is |
|---|---|
| `Delivery` | the delivery tables, the workers, operator requests, retention and process failures: the core |
| `LeasedQueue` | what the pipeline promises: a queue handed out under numbered leases, in a page |
| `DeliveryProofs` | inductive invariant and theorems about `Delivery`; it implements `LeasedQueue` |
| `DeliveryHistoryProofs` | theorems that relate the rows of `Delivery` to the histories of their attempts |
| `QueueTx` | the transactions on the delivery tables, statement by statement, with their row locks |
| `QueueTxProofs` | theorems about `QueueTx`: locks, no circle, fencing, and its refinement of `LeasedQueue` |
| `DeliveryTiming` | lease, timeout, reserve and retry delay as numbers, on machines whose clocks differ |
| `DeliveryTimingProofs` | inductive invariant and theorems about `DeliveryTiming` |
| `Intake` | one request to `/hook/{source}`, with the parsing and verification of its signature header |
| `ForwardingRules` | concurrent administration of rules |
| `LoginLimiter` | the limiter and the requests that use it |
| `Lifecycle` | `run()`: the admin account at start, serving, shutdown, exit, restart, for several processes |
| `IntakeProofs`, `ForwardingRulesProofs`, `LoginLimiterProofs`, `LifecycleProofs` | inductive invariants and theorems about these four |
| `MCDelivery`, `MCQueueTx`, `MCLifecycle`, `MCDeliveryTiming`, `MCIntake`, `MCForwardingRules`, `MCLoginLimiter` | constants and symmetry for TLC |

`Delivery` composes everything that touches the delivery rows; it carries of a rule
only what delivery reads (the attempt limit, the pause, whether it exists).
`ForwardingRules` carries the columns an edit merges. `LeasedQueue` is related to
`Delivery` and to `QueueTx` by the refinement mappings at their ends. That the
statements of `QueueTx` and the atomic transactions of `Delivery` both take its steps
justifies the atomicity in `Delivery` as far as `LeasedQueue` sees: the phase of a row, its lease
and who believes to hold it. For failure counts, responses and histories, which `QueueTx`
leaves out, atomicity rests on the row lock that each transaction takes before it
reads them.

### Delivery

A webhook row keeps `status`, `failure_count`, and of its times only what queries
compare: `next_retry_at` is none, waiting or due; `delivery_lease_until` is none, live or
expired. `delivery_lease_version` is a natural number. A response body is none, whole or
cut at 1 MiB. A deleted row keeps its id, as ids are never reused. Attempts are a
sequence per webhook.

Each database transaction is one action; between two transactions of a worker anything
else may happen:

| Action | Code |
|---|---|
| `Save` | the insert of `ReceiveWebhook` |
| `ClaimDeliverable` | `ClaimDeliverableWebhooks` with limit 1: eligibility, pause, closing of the interrupted attempt, new lease version |
| `LoadRule`, `CreateAttempt`, `Send`/`SkipDelivery`, `FinishDelivery` | `Forward`, in order |
| `RefuseAttempt`, `LoseResult` | its early returns on a lost lease, an open attempt, or cancellation |
| `Conclude` | cancellation overriding the answer (line 75) |
| `Fault` | any database error, expired preparation deadline or lost commit answer: `Forward` returns, the row stays |
| `RetryDue`, `LeaseExpires`, `LeaseOverrun` | the clock; an overrun is a lease ending under a worker that still works |
| `Stop`, `Restart`, `Crash` | of one process: cancellation of its pool, exit after the bounded wait, sudden death; it is started again |
| `Replay`, `BulkReplay`, `DeleteWebhook`, `Cleanup` | the operator's transactions and a retention batch |
| `SaveForwardingRule`, `SetForwardingPaused`, `DeleteForwardingRule` | single statements on rules |

`Pools` are the workers of each process. A process stops, ends and starts by itself: the
workers of the others go on, and its own begin with no memory; the tables stay.
`LimitDecides` speaks of the rule a worker loaded (`plan`), not of the stored one, which may have
changed since; the failure it counts is that of the row, not that of the claim.

`MaxInterference` bounds the faults, overruns, restarts and operator requests of one behaviour
together. It is what keeps the histories finite; nothing else does, since each delivery
without interference ends. `replayedAt` is a history variable: how long the history was
at the last replay, so that properties can speak of the attempts since.

Fairness (`FairSpec`): every worker keeps taking steps (goroutines run, and every
wait in `Forward` has a deadline inside the lease), retry times and abandoned leases
come due, and each stopped process is started again (`restart: unless-stopped` in
`docker-compose.yml`). A worker's fairness is that of its steps as a whole: a claim it
could make, or the next step of its delivery. Nothing is assumed of targets, or of `Stop`
and `Crash`.

### LeasedQueue

Items are new, queued, held, lapsed, done, dead or gone. Only the holder of the current lease
number reports; items held are neither requeued nor removed; a removed item never
returns. One item, asked for by name, may be requeued or removed in any phase in which nobody
has it (`OneIdle`: a replay or a deletion); several at once only when all are dead (a bulk
replay), or done or dead (retention). The mapping reads `phase` off status and lease, the lease
number off `delivery_lease_version`, and what a taker believes to hold off its in-memory claim.

### QueueTx

Each worker and each operator request (or retention) is in at most one transaction. A
transaction begins, looks at a snapshot (`Begin`, or `BeginClaim` and `Snapshot`), locks the rows it
found one at a time (`LockRow`), touches `delivery_attempts` (`TouchAttempts`), and changes the rows
with its commit (`CommitClaim`, ...) or ends without (`Refuse`, `RollBack`).

| In the model | In PostgreSQL and the code |
|---|---|
| `tx[t].todo` | the rows of the `SELECT`'s snapshot; `NextRows` is the `ORDER BY`: of ids in a bulk replay, of times (so any) in a claim |
| `Free`, `SkipsLocked` | row locks; a claim and retention have `SKIP LOCKED`, all others wait |
| `CanLock` | the `WHERE` clause is judged again on the latest version of the row once the lock is there; the subselect on the rules is not |
| `tx[t].row` | the row as the program read it |
| `open` | attempts with status `pending`; `tx[t].saw` are those the statement found |

Only what a transaction does with the lock held is visible at the commit: the row changes
are one step, as no other transaction sees or changes a locked row before. `RollBack`
is an error, an ended context, or the death of the process; the claim in memory is then given
up (`GiveUp`), or, if the process died, forgotten. `tx[w].held` is history: the sources
paused since a claim's transaction began. `MaxInterference` bounds requests, pauses,
resumes, rollbacks and lost answers together, `MaxClaims` the claims of one webhook.

`StepsOfTheQueue` says that every step is a step of `LeasedQueue` or none; a finish that
found its lease in order keeps the webhook until its commit, even when the lease
ends meanwhile, because it has the row locked.

### DeliveryTiming

One webhook row and several workers, with durations as numbers. A worker reads its
clock (`Poll`), claims with that time (`Claim`, `Eligible`), and computes the deadlines of
`Forward`: `PreparationEnd` (the lease less the reserve) and `ExchangeEnd` (also the timeout).
`EndExchange` decides the result, a retry's time included (`Retry`, line 71), and gives storing it
the reserve; `Finish` stores what was decided, up to that much later. `Tick` does not pass the deadline
of an operation in progress: Go's contexts end it. Everything not under a
deadline, such as the claim and the wait for its answer, takes any time, so a claim
may be made with an old clock reading.

`RetryDelay` is `retryDelay`: `Doubled` multiplies in `time.Duration`, which wraps (`Wrapped`, at 4
bits in the run), and the loop stops once a doubling reaches the cap. `failed` is history: when the
exchange ended whose retry waits, and with which backoff.

`offset` says how far each machine's clock is ahead. `Accepted` is what `loadConfig`
checks. The one assumption that is not in the code is that clocks differ by less than
the reserve (5 s); with a larger difference a machine that is ahead takes a lease over
during its owner's exchange.

### Intake

`ReceiveWebhook` in the order of its early returns: body, rule, verification, insert.
`ParsePart` is one round of `parseHeader`'s loop and `Judge` the rest of it with `VerifyHeader`.
A header is a sequence of parts (`t` with a number, `t` without one, `v1` with a
text, `v1` blank, anything else), so splitting and trimming are abstracted, and a signature is
the secret and timestamp it was made of. `Wrapped` is the arithmetic of `int64`, on 8
bits in the run. Any sequence of parts may arrive; the rule is read once, after the body.

`StoredIsGenuine` and `GenuineIsNotRefused` compare with `Genuine`, which says the same
without a loop. Both speak of ages below 292 years (`Representable`); beyond, the age
in nanoseconds wraps, which the run reaches and the properties exclude.

### ForwardingRules

`AddRule` is one upsert. An edit is `ReadRule` (read and merge) and `SaveRule` (upsert of
the merged copy), or `AbandonEdit` when the second call fails or the form is refused.
`MergeVerify` and `MergeOutgoing` are the branches of `parseForwardingRuleForm`;
`Upserted` is the `ON CONFLICT` clause that leaves `paused` alone. `MaxRequests` bounds
the requests of a behaviour.

### LoginLimiter

`Reserve` and `Refuse` are the whole of `reserve` under the mutex, sweep included;
`Finish` is the deferred `finish` with each outcome. An entry is a shared object that
reservations point to, so the model numbers the objects a key has had (`generation`)
and a reservation of an object that left the map would report to nobody. `Tick` moves the
clock, up to `Horizon`.

### Lifecycle

`pc` follows `run()`: `Start` reads the configuration; `FindByEmail`, `CountUsers`, `CreateAdmin`,
`AcceptAdmin` and `UpdateAdmin` are the statements of `EnsureAdmin` (under READ COMMITTED other
processes get in between); `Serve` starts the pool, retention and the server. A goroutine of
the pool is idle, claimed, exchanging, finishing or returned. `Signal` and `Recreate` begin
the shutdown, `StopWorkers` follows `server.Shutdown`, `Exit` follows `waitForWorkers`; `Tick` counts
the time of `shutdownCtx`. A claim is abandoned (`AbandonClaim`) when its rule cannot be loaded, its
attempt not be created, or the pool is cancelled. `StoreResult` runs under a context detached
from the pool's; `LoseResult` is its error path (line 85): a database error, a lost lease, the end
of its own reserve. `lost` is history: at which times stopping cut something off, that is, a
process left with a request in progress or a result not stored. What `LoseResult` gives up is not
counted there: it can happen at any time, and the lease brings the webhook back.

`Reconfigure` changes `.env` at any moment. Two processes may so start on an empty table with different
addresses and make two users (section 5). After that a start with a third address fails for
ever, so `AdminSettles` is said of behaviours without a second user. It speaks of the password, as
a new address alone is not applied (section 5 again). `MaxInterference` bounds signals, crashes, failed
finalizations and new configurations.

Fairness (`FairSpec`): a process keeps executing `run()`, its container is started whenever it
ended (`restart: unless-stopped`), and one with an old configuration is replaced, as
`docker compose up` does. Requests, targets and deliveries have no fairness: the deadline
ends the shutdown without them.

### Slips

Some operators carry a suffix, such as `Eligible_liveLeases`. They are plausible slips
of the definition they precede (a dropped condition, an off-by-one, a column not
reset). No action uses them; they document which slip each property notices, and
`PROJECT.json` pairs them.

## 3. Runs

| Run | Instance | Shows |
|---|---|---|
| `delivery_one` | 1 webhook, 2 processes of 1 worker, limits 1 and 2, 3 interferences | fencing, fresh claims, no stuck row, live leases are untouchable; status, failure count and response agree with the history; each failure is decided by its rule's limit; nothing after success; completed attempts are not rewritten; `LeasedQueue` is implemented |
| `delivery_settles` | 2 webhooks of 2 sources, 1 worker, the default limit 3, 2 interferences, fairness | everything settles, or waits behind its own pause; `LeasedQueue` with batches of replays and of retention |
| `delivery_timing` | 2 workers, clocks up to 1 tick apart; lease 6, timeout 3, reserve 2; backoffs 2 and 5, cap 3, 4-bit durations; 4 claims, 14 ticks | exchanges of one webhook never overlap; the reserve is whole whenever storing a result begins; with equal clocks the lease covers a delivery; a retry waits for its backoff |
| `queue_tx` | 2 webhooks of one source, 2 workers, 2 requests, 2 claims each, 2 interferences | statement by statement the queue changes as in `LeasedQueue`; no lock cycle; no attempt left open; a pause reaches all later claims |
| `lifecycle` | 2 processes, 1 delivery goroutine and 1 request each, retention enabled, 3 configurations, timeout 1, 2 interferences, fairness | shutdown is bounded, and cuts off nothing before its time is over; without a second user everybody ends up serving with the configured password |
| `lifecycle_two_admins` | 2 processes, 1 interference | *violated*: see 5 |
| `lifecycle_rename` | 1 process, 2 configurations with one password, 1 interference | *violated*: see 5 |
| `intake` | all headers of up to 3 parts, 2 secrets, 4 timestamps, tolerances 0 to 2, 8-bit numbers | what is stored has a genuine signature, and no genuine one is refused |
| `inspect_truncation` | 1 webhook, 1 worker, 1 interference | *violated*: see 5 |
| `forwarding_rules` | 1 rule, 2 edits at a time, 5 requests, 1 secret, 1 header | usable verification settings; pause is separate |
| `forwarding_blank_secret` | the same with 2 secrets and 3 requests | *violated*: see 5 |
| `login_limiter` | 2 clients, 3 requests, limit 2, windows of 2 ticks, 7 ticks | slots bounded and never leaked; late requests do not count; a block holds |

Why the bounds suffice. One old and one new owner of a lease are two workers;
each has a process of its own, so that one stops or dies while the other goes on. What a
property says of one webhook it says of its row and attempts, which no other webhook's steps
touch but for batches and starvation; those are in the run with two. Three interferences let a
replay follow a crash during a stop, or a rule change on either side of a fault; the lease
version reaches 6 and histories 6 attempts there. Limits 1, 2 and the default 3 put the
last attempt first, second and third. The liveness run needs one worker to show that a
paused source does not hold up the other, as the only worker would be the one held.
Fourteen ticks hold two whole leases and a retry; a timeout of three is cut short by the
reserve when a claim's answer comes late and is not when it comes at once. Three parts
are a timestamp, a second one and a signature, in every order, or two signatures and a
timestamp; the timestamps are now, at and beyond the tolerances, and one whose age wraps.
Edits interfere in pairs, and five requests allow add, read, delete, add again and
pause in between. Two requests and two workers in transactions at once make every pair of kinds of
transaction meet on two rows, in both orders of locking; a bulk replay against a bulk replay
is the pair that can close a circle. Two rows are enough for one: each holds what the other
wants. Three interferences were also run, without a violation (2.8 million states). Backoff 5
doubles beyond 7, the longest duration of four bits, and 2 reaches the cap of 3 at its first doubling, so
both the wrap and the cap are met. Two processes are a deployment; two disturbances let one
crash and the configuration change, or change twice; the three configurations differ in the
address, in the password, and in both. One tick of shutdown is before the deadline and at it.
With three requests and a limit of two the limiter sees a slot refused
because of checks in flight, and seven ticks hold three windows and two sweeps.

`CHECK_DEADLOCK FALSE` is set for `Delivery`, `QueueTx`, `DeliveryTiming`, `Intake` and `ForwardingRules`:
when all rows are settled or deleted and the budget is spent, the time is over, or the
request is answered, the modelled system has nothing left to do. Symmetry is used in safety runs only.

## 4. Proofs

Every safety invariant and action property of the passing runs but `RetriesBackOff` is a theorem, for
all values of the constants, under the assumptions that the modules name:

| Module | Assumptions |
|---|---|
| `Delivery` | each worker is in one pool, each webhook has a source, some limit of attempts can be configured, a target may fail to answer, the budget is a number |
| `QueueTx` | ids are numbers and there is a largest one, as ids have 64 bits (`HooksAreNumbers`); workers and requests have transactions of their own; a webhook can be claimed at least once |
| `DeliveryTiming` | what `loadConfig` checks (`Accepted`), and that clocks differ by less than the reserve |
| `LoginLimiter` | finitely many requests, a limit and a window of at least one |
| `ForwardingRules` | the blank is not a secret, and not a header |
| `Lifecycle` | a positive `SHUTDOWN_TIMEOUT` |
| `Intake` | the blank is not a secret; a second and the range of numbers are positive |

Bounds such as `MaxInterference` stay in the models as constants of any size, so the theorems hold for
each of them.

### DeliveryProofs

| Theorem | States |
|---|---|
| `TypeCorrect` | `Spec => []TypeOK` |
| `Fencing` | `Spec => []FencingTokens` |
| `NothingStuck` | `Spec => []RowsWakeUp` |
| `OpenAttempts` | `Spec => []OneOpenAttempt` |
| `FreshClaims` | `Spec => []ClaimIsFresh` |
| `ActiveDeliveries` | `Spec => ActiveDeliveryUntouched`, an action property |
| `Refinement` | `Spec => ImplementsQueue` |

All follow from one inductive invariant, `IInv`: the conjunction of `TypeOK`,
`FencingTokens`, `RowsWakeUp`, `OneOpenAttempt`, `ClaimIsFresh` and `NewRowsUnleased` (a row
that is not stored yet has lease version 0, so that storing it does not lower its
version). The conjuncts need each other. `OneOpenAttempt` survives a claim only because a row that is not processing
has no open attempt, and one that is has it closed by the claim; it survives a finish
because `CanFinish` names the newest attempt. `ClaimIsFresh` survives a failure counted
by somebody else because that somebody had the current version, and by `FencingTokens`
nobody else has it. `FencingTokens` survives a claim because no claim is ahead of its row.

The argument is laid out as: lemmas on the operators (`ClaimedRowType`,
`FinishedRowFields`, `InterruptedType`, ...), what every step does to types (`TypeStep`),
to rows (`RowSteps`: a step leaves a row alone or changes it in one of the listed ways)
and to claims (`ClaimSteps`), that versions only grow (`VersionsGrow`), one lemma per
conjunct, and `Invariance`, which puts them together. The lemmas on steps split on the
actions of `Next`; the lemmas on conjuncts then need no further look at them.

For `Refinement` there is one lemma for each step of `LeasedQueue` that a step of
`Delivery` takes (`ClaimTakes`, `FinishReports`, ...), and `QueueStutters` for the rest. `IInv` is needed
where a finish must be a report by the current holder, and a request must find an idle item.

### DeliveryHistoryProofs

| Theorem | States |
|---|---|
| `OutcomesMatch` | `Spec => []OutcomeMatchesHistory` |
| `SettledStays` | `Spec => []SettledIsFinal` |
| `FailuresCounted` | `Spec => []FailureCountMatchesHistory` |
| `BoundedRetries` | `Spec => []RetriesBounded` |
| `LimitsDecide` | `Spec => LimitDecides`, an action property |
| `ResponsesFollow` | `Spec => []ResponseFollowsHistory` |
| `AppendOnlyHistory` | `Spec => HistoryIsAppendOnly`, an action property |

The five invariants are conjuncts of `Accords(row, history, n)`, said of one row, one history and the
length it had at the last replay. Four lemmas show that each way to change the two keeps it: a change
that is none of the outcome's (`QuietChangeAccords`), an attempt opened (`OpenedAccords`), completed with
its row (`CompletedAccords`), or interrupted by a claim (`InterruptedAccords`), and a fresh start
(`FreshRowAccords`). `HistorySteps` says that every step does one of these to each webhook. What makes the
limits hold is `FailuresFollowPlans`: a failure in a worker's hands was decided from the rule it loaded and
the failure count of its claim, for a retry if one more failure is below that rule's limit. By
`ClaimIsFresh` that count is the one the row still has when the worker's lease is current
(`FailureIsDecided`), so the decision fits the count that the row then gets; and a retry leaves
room under the most patient rule's limit (`RetriesHaveRoom`).

### QueueTxProofs

| Theorem | States |
|---|---|
| `QueueTypes` | `Spec => []TypeOK` |
| `AttemptsCurrent` | `Spec => []OpenAttemptIsCurrent` |
| `PausesReach` | `Spec => []PauseReachesLaterClaims` |
| `LocksNeverCycle` | `Spec => []NoLockCycle` |
| `Fencing` | `Spec => []FencedInv`: claims are fenced, and the attempt of a current claim is stored |
| `TransactionsImplementTheQueue` | `Spec => StepsOfTheQueue` |

The argument is the discipline of the code: who changes a row has locked it. `QInv` says that locks are
exclusive and, of each transaction (`TxOK`), that the row it locked is still as it read it but for
the end of a lease, that the attempts it found are still those there are, and that a bulk replay has locked smaller
ids than it still wants. A step is checked against its own transaction only; `OthersKeep` covers all others,
since nothing they rely on can change under their locks. For the circle, `WaitingForTheWaiting`: a
transaction that waits and is waited for is a bulk replay, and the one that waits for it wants a smaller id than it
does; the one that wants the largest id in a circle could not be waiting. `Fencing` is the invariant the refinement
needs: a finish that passes its check reports for the holder of the current lease.

### DeliveryTimingProofs

For any workers and any durations under `TimingAssumption` and `BackoffAssumption`:

| Theorem | States |
|---|---|
| `TimingTypes` | `Spec => []TypeOK` |
| `ExchangesApart` | `Spec => []OneExchange` |
| `LeaseCovers` | `Spec => []LeaseCoversDelivery` |
| `WholeReserve` | `Spec => ReserveIsWhole`, an action property |

The inductive invariant says that claims have distinct versions not ahead of the row
(`Versions`), that the current claim's copy of the lease is the stored one (`CopyIsStored`),
that deadlines are kept (`DeadlinesKept`), and that the row is still the worker's while
its exchange may be in progress (`AttemptIsCurrent`) or, where clocks agree, while its result
may be stored (`FinishIsCurrent`). The heart is `AttemptIsCurrentStep`: who takes over
saw the lease ended on its own clock (`TakeoverIsLate`), which is at most `Skew` ahead of the
owner's (`ClocksAreClose`), and the owner's exchange ended `Reserve` before. `OneExchange`
follows since two workers cannot both hold the current version.

### The other components

| Module | Theorems |
|---|---|
| `ForwardingRulesProofs` | `RulesTypes`, `VerificationStaysWhole` (`VerificationIsWhole`), `PauseStaysSeparate` (`PauseIsSeparate`) |
| `LoginLimiterProofs` | `LimiterTypes`, `LimitHolds` (`SlotsBounded`), `NoSlotLeaks` (`SlotsAreReservations`), `OldRequestsNeverCount` (`OldRequestsDoNotCount`), `LockoutStays` (`LockoutHolds`) |
| `LifecycleProofs` | `LifecycleTypes`, `ShutdownStaysBounded` (`ShutdownIsBoundedAndOrderly`) |
| `IntakeProofs` | `IntakeTypes`, `StoredStaysGenuine` (`StoredIsGenuine`), `GenuineIsAccepted` (`GenuineIsNotRefused`) |

* *Rules.* The invariant speaks of the merged copies that edits hold as well as of stored rules, as a
  copy may be stored any time later.
* *Limiter.* The type invariant, `SlotsBounded` and `SlotsAreReservations` are inductive together: a sweep detaches no
  reservation because the entries it removes have no slot taken, and a slot taken is a
  reservation (`SlotsHeld`); so `pending` never goes below zero. A blocked client has none in flight,
  which is why nothing can lift the block (`LockoutStays`).
* *Process.* A deadline stands exactly from the start of a shutdown to its end and is never moved (`ClocksOK`);
  who waits for the goroutines has let all requests end, or is out of time (`Drained`). So what a process
  leaves unfinished at its exit it leaves at the deadline.
* *Intake.* `Parsed` is the loop invariant of `parseHeader`: what `foundTime`, `timestamp` and `candidates`
  say of the parts seen so far. `WrappedIsExact` and `Scaled` show that within `Representable` the arithmetic
  of `int64` is exact, so that `Expired` is the check of the documents (`ExpiredIsNotFresh`).

### Checked by TLC only

* `AllSettle` and `AdminSettles`: liveness under fairness, which is beyond the prover.
* `RetriesBackOff`: it speaks of powers of two of any exponent, for which the provers have no theory, and
  the facts on them need an induction over data.
* The four violated properties of section 5.

## 5. Where the code and its promises differ

* **A cut response shown as whole** (`inspect_truncation`). The inspect page takes the
  truncation note from the newest completed attempt that was not skipped
  (`internal/handler/inspect.go:187`). When a worker dies during a retry, the claim that
  takes over completes its attempt as `interrupted`, without a response, while the
  webhook still shows the cut body of the attempt before. `docs/reference.md` says the page
  indicates truncation.
* **A blank field overwrites a secret** (`forwarding_blank_secret`). `UpdateForwardingRule`
  writes all secret columns from the copy it read, so an edit of a rule with an outgoing
  secret, that field left blank, undoes a change of the secret made in between. For such a
  rule the form says "Leave blank to keep current secret". The verification secret has the
  same promise and the same merge; the property looks at the outgoing one.
* **Two admins** (`lifecycle_two_admins`). `EnsureAdmin` reads the users and inserts one if there is
  none, under READ COMMITTED (`internal/storage/db.go:87-96`). Two processes that start on an empty table
  with different addresses, because `.env` was edited in between, both insert; the unique index stops
  only a second user of the same address. Both accounts can log in from then on, and a start
  with a third address is refused. `docs/operations.md` speaks of "the single admin".
* **A changed admin address is ignored** (`lifecycle_rename`). `EnsureAdmin` takes the only
  user when none has the configured address, and returns without writing when that
  user's password matches (`internal/storage/db.go:107`). A change of `ADMIN_EMAIL` alone is never
  applied. `docs/operations.md` says that the account is updated to match the
  configured values; the test changes both values.

`RetriesBackOff` is stated for backoffs that can be doubled within a `time.Duration` (146 years);
the form accepts more, and the delay then wraps.

## 6. Abstractions and what is not modelled

* In `Delivery` transactions are atomic; `QueueTx` justifies it statement by statement, without
  failure counts, rules and histories. `ClaimDeliverable` may pick any eligible row, which
  covers both the order by time and skipped locked rows. The foreign key and indexes are left out.
* In `QueueTx` a claim that was skipped over, or a row that fails its check after a wait, is
  not looked for again in the same `SELECT`, as in PostgreSQL.
* `Lifecycle` has the phases of a delivery without its rows, and `Delivery` the rows without
  the deadline of the shutdown. Users are an email and a password; `is_admin` is always set,
  as nothing in the code creates or stores another user.
* In `Delivery` there is one clock and times are classes, not numbers: `LeaseExpires` applies
  to deliveries nobody works on, `LeaseOverrun` (budgeted) to the others. `DeliveryTiming`
  has the numbers and the clocks, for one row, without attempts and rules.
* `DeliveryTiming` takes Go's deadlines as kept to the tick: an operation is over when
  its context is. A delay in the runtime adds to `Skew`.
* `interrupted` attempts do not count toward the limit of attempts, as in the code.
* Payloads, headers, targets' URLs, error texts and durations are left out; a target
  answers with success or not and a body class.
* Not modelled, because they change no state: lists, filters, pages, metrics and dashboard
  (each a few statements that read; a page may combine moments, and nothing promises it does
  not); the date filter's resolution of local times (a search over the zone database of the
  library); health checks, rendering and browser code. Not modelled, because they keep no state
  on the server: sessions and CSRF (signed cookies). Opening and migrating the database is
  library calls that end before anything else runs. Of the configuration only the durations'
  checks are modelled (`Accepted`).
* The hazards without a property: a stale edit that stores a deleted rule again (reached by
  `ForwardingRules`, but code and docs do not say what should happen), and the date filter's
  search over zone intervals. Two properties leave out the numbers that wrap: ages and
  backoffs beyond a century (section 5 and `Intake`).

## 7. Plan

Every module has its theorems. What could follow:

1. `RetriesBackOff` as a theorem for a bounded number of failures, with lemmas on `Doubled`.
2. The steps that the liveness properties rest on (a delivery that takes a step comes
   closer to its end), as action properties of a measure.
3. Reads (`Pages`, `MetricsRead`, `DateFilter`) as operators with a reference
   definition, if code or docs come to promise something about them.
