# Aquifer in TLA+

Aquifer takes HTTP jobs from callers, stores them, and sends each one to its
target API at a pace the target can take, with retries, deadlines, streamed
progress and webhooks for results.  It also proxies WebSocket sessions to a
target that admits a limited number of connections.  This directory specifies
the parts whose correctness depends on the order of things: goroutines,
channels, timers, locks, storage, restart and shutdown.  TLC checks the
specifications on small instances; TLAPS proves the central theorems for every
instance.

## 1. Inventory

| Part | Source (under `src/internal/`) | State | Operations that change it | What makes it hard | Module |
|---|---|---|---|---|---|
| Account queue | `dispatch/account_queue.go`, `dead_target.go`, `jobs/job.go` | two bounded channels, queue, waiting list, counters, timers | reserve, handoff, sweeps, dispatch, execute, retry, idle retirement, Stop | senders, the loop and attempts interleave; slots are freed by messages; timers must be re-armed | `AccountQueue`, `JobLifecycle` |
| Target workers, admission, users' load | `dispatch/registry.go`, `url_worker.go`, `user_load.go`, `admission/fair.go` | map of workers, their queues, queueing mode, backlog budget and floor, per-user counts | enqueue, admission, idle retirement, mode and budget changes, counting, Close | a worker may retire between being resolved and used; the budget moves under held jobs; a job may end before it is counted | `TargetWorkers`, `FairAdmission` |
| Shared pace | `dispatch/shared_pace.go` | last slot, line of waiting queues | reserve | clock readings arrive out of order, the rate changes from call to call | `SharedPace` |
| Result delivery | `dispatch/broker.go`, `account_queue.go`, `core/server.go`, `proxy.go` | row, result, subscribers, confirmation | publish, subscribe, confirm, webhook | a stream comes, goes or stalls while the job finishes; shutdown and crash | `ResultDelivery` |
| Intake | `core/aquifer.go`, `proxy.go`, `server.go`, `storage/pebble.go` | key claims, rows, answers | prepare, insert, direct attempt, dispatch, expiry | requests of one key race; rejection deletes a row others may have seen | `Intake` |
| Drain mode | `dispatch/drain.go`, `registry.go`, `storage/pebble.go` | event journal, sequence, idle clock | record, list, deliver, acknowledge, wipe | three loops share one journal while jobs finish | `DrainMode` |
| Paged recovery | `dispatch/paged_recovery.go`, `core/runtime.go`, `storage/pebble.go` | stored keys, sources on disk, page cursor, reserved counts | recover, attach, refill, refuse a hand-off, sweep, reload after a panic | rows are handed over, loaded, finished and expired in any order | `PagedRecovery` |
| WebSocket scheduler | `websocket/queue.go`, `manager.go` | slots, waiters, positions, wake token | enqueue, grant, cancel, release, drain, Close | context ends while a grant is made; lost wake-ups | `WebSocketScheduler` |
| WebSocket transcript | `websocket/manager.go`, `stream.go`, `follower.go` | transcript, cursors, one shared subscription | append, replay, follow, close | entries trimmed, messages lost, subscribe and unsubscribe cross | `WebSocketTranscript` |
| Cluster routing | `cluster/router.go`, `valkey.go`, `core/server.go`, `cluster_routing.go` | assignments, heartbeats and counts in Valkey; cached members, local scopes and a sync pass per node | resolve, forward, fail over, track, release, rebalance, drain, Close | every node acts on a stale view of the others; store calls fail or time out half-way | `ClusterRouting` |
| Transcript export | `websocket/export.go` | consumer group, pending entries, batch limit | read, claim, post, split, acknowledge, sweep | a consumer dies at any point | `TranscriptExport` |

Not modelled: region redirects, inbound rate limiting, target pools, load
estimates, metrics, adapters.  Section 7 gives the reasons; `PROJECT.json` lists
every part.

The parts meet as follows.  In a cluster a request is first routed to the node
that owns its user (`ClusterRouting`).  There it goes through `Intake`, which ends with
`Dispatch`, i.e. `Registry.enqueue` of `TargetWorkers`; that reserves a place on
an account queue and hands the job over, where `AccountQueue` starts; before each
dispatch the queue also takes a slot of its target's `SharedPace`.  The
outcome of an attempt is stored, published and possibly turned into a webhook
job (`ResultDelivery`), which is itself enqueued on an account queue
(`AccountQueue` has that loop: `HookQueued`, `HookExecuted`).  Every finished job
is written to the drain journal (`DrainMode`).  After a restart `PagedRecovery` feeds
the stored jobs to the same run loop.  The WebSocket modules share only
the process with the rest.

Type invariants (`TypeOK`) have no run of their own: a run checks one as a conjunct
of the invariant that relies on it, and the proofs have their types in their
inductive invariants.

Each module keeps one boundary atomic: a critical section of a mutex, a store
call, a channel operation, a network call.  Between two such steps every other
process may run.

## 2. The modules

### AccountQueue (and JobLifecycle)

State: `cmds`, `done` are the two channels, `queue`, `waiting`, `nextDeadline`,
`inFlight`, `maxConc` the loop's fields of the same name, `retryTimer` and `armed`
its timers, `attempt[j]` and `report[j]` the goroutine of job `j` and the message
it will send, `row`, `createdAt`, `attempts` what the store holds.  `pc` is the
place of `run` in a pass: `sweep` (dropExpiredJobs), `sweepWaiting`
(dropExpiredWaiting), `dead` (failDeadTarget), `dispatch`, `resweep` (the sweep
the dispatch loop repeats for an expired head), `select`, `retry` (the retry
timer's case), `idle` (run returned), `retired`, `stopped`.

Actions: `Accept`/`Reserve` (enqueueOnWorker, reserve), `Handoff`,
`HandoffStopped`, `DropExpired`, `DropExpiredWaiting`, `FailDead*`, `Dispatch*`,
`Execute*` (each way an attempt ends: expired, completed, failed, retry,
cancelled, panicked), `HookQueued`, `HookSkipped` (the webhook hand-over),
`SendDone`, `ReadCmd`, `ReadDone`, `TimerFires`,
`RetryTimerFires`, `RequeueDue`, `IdleFires`, `Supervise`, `ReadStop`, `Stop`.
The clock `now` advances freely outside a sweep, because the code reads it once
per sweep.  The pace of dispatches is a flag that closes after a dispatch and
reopens some time later: its numeric value decides only when.

A panic is recovered at any point of an attempt before its message goes out:
`failed` is written over whatever the row held, no result is saved, and the message
says nothing of the target.  A webhook the attempt had already inserted stays the
only one, because `EnqueueWebhook`'s key makes the second a duplicate.

`JobLifecycle` is the abstract specification: a job is accepted, sent, settled,
retried within its limit, or given up.  An attempt has two parts, the request
(`sending`) and its winding up (`ending`); in the second one a panic may replace
the outcome by `failed`, and when it is over the outcome is final.  `AccountQueue`
implements it with `status <- row`, `retries <- attempts`, `sending` the jobs
whose request is out and `ending` those whose goroutine has not sent its message.

Properties: `CountsExact` (`inFlight` and `backlog` equal what they count, and
attempts stay within the configured concurrency), `JobsHeld` (every queued job is
in exactly one place), `TimersArmed` (a late `nextDeadline` would spin the dispatch
loop, a late retry timer would strand a job), `ImplementsLifecycle`, `EveryJobEnds`, `StopReturns`.

### TargetWorkers and FairAdmission

One target: `current` is the registry's map entry, `closed` the workers that
stopped, `queues[w]` the keys a worker has queues for, `pc[j]` the place of a
submission (`resolve` under `Registry.mu`, `reserve` under `URLWorker.mu`, `handoff`
under neither), `closer` the place of `Close`.  A queue retires in two steps (`Idle`,
then `OnIdle` under the lock) and the registry forgets a retired worker in a third
(`Forget`).  A worker nothing refers to gives its number to the next one made.

`settings[w]` holds what the worker was told: the sender's opt-in and the target's
mode (`Remember` is the registry's copy, made after the unlock), and the backlog
budget with its `shrinkFloor`.  `Advertise` changes the budget at any time, since the
header comes with an answer to a queued job or to a direct attempt.  `Reserve`
asks `DecideFairWithFloor`.  `load` is the tracker of users' work: `Count` raises it
after the hand-over, `Finish` lowers it, in either order, as in the code.
`counted` and `outran` only observe that order, `unlimited` whether a worker ever
had no budget.

`FairAdmission` holds the arithmetic as pure operators.  A decision with a random
draw is the set of answers some draw leads to, and fractions are multiplied out.

Abstractions: what a stopped worker is told is not kept, as nobody reads it again;
releasing a job's place and `users.done` are one step; deliveries stand for all
work that skips admission, recovered jobs included; webhooks owed by other targets
are constant (`Owed`).

Properties: `OneLiveWorker`, `NoJobStranded`, `AdmittedBounded` (however the budget
moves, admission lets in no more than the ceiling over the budget or over what was
held when it shrank), `LoadExact`, `CallsReturn`.

### SharedPace

`reserve` as it is under the lock: `Wait` and `Grant` with the time the caller read
before it took the lock, so times may arrive out of order, and with any interval
not shorter than that of the highest rate.  `mark` and `slots` observe: any one grant
may be marked, and the slots after it are counted.  Property: `CeilingHeld`, which is
proved; there is no run, because clock and intervals are unbounded and a bounded
instance would say less than the proof.

### ResultDelivery

One job and its streams.  `run` follows the goroutine that carries the job
(direct attempt, queue, attempt, save, publish, wait, webhook), `at[s]` the
handler of stream `s`; `confirm` is the channel PublishTerminal waits on;
`told[s]` what was flushed to the client.  An attempt may panic before it has an
outcome (`Panic`) or after it wrote one (`LatePanic`, up to the return of `execute`).
`PublishTerminal`'s wait itself does not panic.  Clients hang up at any time, a full
subscriber channel drops events, the registry may stop, and the process may
crash and recover.

Properties: `OutcomeDelivered` (a webhook is skipped only when a client was
told), `ToldIsStored` (what was told is what the store keeps, but for a completion
overwritten by a late panic), `OutcomeSettles`, `StreamEnds`; and
`DuplicateStreamEnds`, which the code violates (section 4).

### Intake

Requests of POST /jobs and POST /proxy that race for a key: `claimed` is
`keyClaims.held`, `row[k]` the job the store holds for a key, `at[r]` the place of
a handler.  The proxy path releases its claim before its direct attempt, the
other path after the job is queued or deleted; the model keeps that difference.
Rejection, remote hits, panics, redirects, drain, stop and restart are actions.
An insert may fail, which `CheckOrInsert` does not tell its caller (`unstored`).  A
row passes its ExpiresAt (`Lapse`) and is swept later, whatever its status
(`Expire`).  A row of a job that a queue holds does not lapse while the process
runs, since the queue fails the job at its deadline and the row outlives that by
`PendingRowGrace`; while the process is down any row may (`Crash`).  A direct attempt
that finds the deadline passed returns before `fallbackOutcome` (`DirectExpired`).
A panic of `AttemptDirect` itself, after `prepareJob` returned, is not modelled.

Properties: `DuplicateIsReal` (for jobs of POST /jobs), `NoGhostRow`,
`AcceptedKept`, `OneLivePerKey`, `Answered`.

### DrainMode

`events` is the journal, `seq` its counter, `loop[f]` and `batch[f]` the three
flushers (watchdog, batch loop, shutdown), `flushMu` the mutex they share,
`drainState` and `idle` the watchdog's view.  A job is stored first and reaches a
worker later (`Insert`, `Enqueue`), so the watchdog may find the node idle in
between.  Workers retire with their queues, jobs that have none (direct attempts)
notwithstanding.  `late` and `straddled` only observe: jobs that arrive or are under
way without a queue while the watchdog is flushing, and a wipe while another loop is
sending its batch.

Properties: `EventKept` and `BatchIsHead`, which except those two cases (section 4),
and `IdleIsUnassigned`.

### PagedRecovery

One queue and the rows that belong to it.  A job is its place in creation order,
so a cursor is a number.  `rec` is RecoverQueuedJobs, `sender` the goroutines that
hand jobs over (reserve, SetQueueKey, send), `spills` and `attached` the sources on
disk with their reserved and consumed counts, `present`, `memory` and `inFlight` what
the run loop holds; `running`, `finals` and `retries` are the attempts and their
messages, which outlive a panic of the loop.  `keyed` starts as any of `Keyings`: the
old jobs that are stored under the queue's own key, the others being moved to it.
Which rows are moved is decided at the start, as the pass over the moved keys runs
before any page; `acceptHandoff`'s test for a stored status other than queued is
`status[j] = "pending"`, as no row is marked in flight any more.
`leaked` only observes the refused hand-offs of jobs that recovery handed over.
The dispatch pass and the select share one place of the loop, as a pass that is
still dispatching and a loop that waits in select differ in nothing others see.

Properties: `NothingLost`, `BacklogExact`, `NotRunAgain`, `BacklogDrains`.

### WebSocketScheduler

`active`, `waiters`, `position`, `update`, `granted`, `ready`, `wake`, `loop` are the
scheduler's fields and the state of `run`; `st[s]` is the place of the handler of a
client in `ServeHTTP`, `connectUpstream` and `Admission.Wait`; `manager` the place
of `Manager.Close`.  A context ends at any time.

Properties: `ActiveExact`, `LineExact` (everyone who waits is in the line once, and
what a client was told or finds in its channel is its place), `SlotUsed`, `CloseEnds`.

### WebSocketTranscript

Connections of one session: `handler`, `cursor`, `delivered`, the trimmed prefix below
`oldest`, `subs` and `wanted`/`live` for the shared pub/sub connection.  Valkey and
go-redis are modelled from how the code uses them.  Two observing variables name
the two known races exactly: `outrun` (the transcript was trimmed past the place of a
connection, which it has from the cursor it came with or from its first read on) and
`crossed` (a new follower subscribed before the last one's Unsubscribe went out).

Properties: `NoSilentGap`, `FollowersSubscribed`, `CaughtUp`.

### TranscriptExport

One consumer group, two nodes: `owner` is the pending list, `batch`, `events`,
`limit`, `successes`, `scan` the exporter's fields, `gone` the consumer a sweep is
about to remove.  A node goes down with its consumer still listed, whether it stops
or crashes: the `DELCONSUMER` of a clean stop only removes what the sweep would.  The
sweep looks at nodes that are down; the code looks at consumers idle for an hour
with nothing pending, which one that keeps polling is not.  The receiver may answer 413, calls fail, nodes crash.
`forgotten` observes entries lost by a sweep between its look and its delete.

Properties: `NothingMissed`, `Exported`.

### ClusterRouting

Nodes that share a Valkey store.  `asg` is a scope's assignment, `zset[n]` the scopes
node `n` is charged for, `inst` and `listed` the heartbeat records; `view[n]`, `pruned[n]`,
`out[n]` and `age[n]` are the router's cached members, the members it skips, and its
local scopes with their outstanding counts.  `sub[s]` is the sender's side of a
submission (resolve, forward, fail over, relay), `hand[s][n]` the handler at node `n`,
`held` and `seen` what the node's registry and store know.  `sync[n]` walks `syncState`:
renewal and heartbeat, releases one by one under the scope's lock, the clean-up of
dead instances in a second call, and the hand-offs of `rebalance`.  A store call
succeeds, fails without effect, or fails after its effect.  A Release that failed may
moreover be carried out at any later time (`LateRelease`); the other calls are carried
out at once or never.

Time is four ages of a scope (`Fresh`, `Rested`, `Idle`, `Gone`).  `Settled` states the one
timing assumption the code makes: a handler gets from routing to tracking within the
rebalance grace.  `excused`, `gone`, `took` and `uncounted` observe.

Abstractions: the static provider, restart of a node and configuration are left out;
a draining node closes once it holds no work; the users counted in the record of a
draining node are ignored, as the readers skip it; the users of the other members
are carried by the rebalance that reads them; the limit of hand-offs per pass
(`rebalanceMaxPerPass`) is far above the two scopes of the instance; the heartbeat,
the renewals and the read of the members are one step of `syncState`, and their
failures one choice; the clean-up of dead instances is one transaction, and its
failure, which leaves it to the next pass, is left out; a forward expires at any time it is under way.

Properties: `OneOwnerWorks` (two nodes hold work of one scope only after an event the
code accepts), `AcceptedOnce`, `OutstandingExact`, `AssignmentCounted`.

## 3. The runs

| Run | Instance | What it shows |
|---|---|---|
| `account_queue` | two jobs, one retried once, one until its deadline; two slots the target may cut to one; one-slot channels; clock to 3 | all safety properties and the refinement of `JobLifecycle` |
| `account_queue_live` | a job and its webhook delivery on the same queue, one slot, a target that asks for more than configured | nobody waits forever, Stop returns |
| `target_workers` | three jobs of two accounts and users, one of them a delivery, three workers at a time, one sender that opts in, a budget that moves between 1 and 2, a ceiling of 3/2 | retirement, recreation, admission, users' load and Close against submissions |
| `result_delivery` | the caller of a proxy request and the stream of a duplicate, buffers of two, one retry, panic, stop, one crash | who is told, and by which way |
| `stream_of_duplicate_hangs` | the same without panic, stop and crash | violation of `DuplicateStreamEnds` |
| `intake` | POST /jobs, POST /proxy and a redirect hop with one key, one restart | idempotency keys |
| `drain_mode` | three jobs, one answered directly, batches of one, one failed delivery | journal and idle detection |
| `paged_recovery` | two stored jobs under the queue's key or moved to it, a new one, pages of one job, one slot, one trouble (retry, failed read, panic or passed deadlines) | recovery against senders, and drained in the end |
| `ws_scheduler` | two clients that reconnect, two slots that may become one | counting, positions, lost wake-ups, Close returns |
| `ws_transcript` | two overlapping connections, three entries (one of them a client's), one broken subscription | nothing skipped, everyone catches up |
| `cluster_routing` | two nodes, two submissions of one job, which belongs to a user's scope or to the shared one, other users at one node, one node that may drain; two submissions with one fault, or one with two | one owner, accepted once, exact counts |
| `ws_export` | two nodes, three entries, a stream bound of two, two faults, one entry too large for the receiver | at-least-once export |

Bounds.  Two jobs are the least for which a queue order, a second slot and a
sweep that must not stop early exist; the clock reaches past every deadline, so
each job may expire queued, waiting, or in flight.  One-slot channels make every
sender block.  Two clients that reconnect give the scheduler a head of the queue, one
behind it and one that leaves; the proofs cover any number.  Three export entries
against a bound of two make trimming happen; two faults let one node crash and one call fail.  Counters that
the code leaves unbounded are capped by named constants (`Horizon`, `AcceptUntil`,
`MaxCrashes`, `MaxFailures`, `MaxTroubles`, `MaxTries`, `MaxDrops`, `MaxFaults`, `MaxEntries`,
`MaxWorkers`, `Budget`).  Three jobs in one queue take too long for a routine check.

The ceiling of admission is 5/4 in the code and 3/2 in `target_workers`, so that it
bites with three jobs; the theorem holds for every ceiling of at least one.  With a
budget that may also be 0 the run has 1,281,621 states and passes as well, too slowly
for a routine check.  `Budget` in `cluster_routing` counts submissions and faults (drains
among them) together, and is 3.  One fault beside two submissions is enough for each
exception to happen: TLC refutes `OneOwnerWorks`, `AcceptedOnce` and
`AssignmentCounted` once their exceptions are taken out.  Two faults let a single submission
run out of owners.  With two submissions, a fault and a drain that is not counted as one
the run has 5,156,264 states and passes as well, too slowly for a routine check.

Two moved jobs with pages of one give a row that is handed over and also lies past
the cursor, and a new job that recovery finds in its first page; two own jobs give
a row that only the source knows.  Every page is then full or empty.  A page that is
neither needs three stored jobs and pages of two: with those, all under the queue's
key, and a new job, the run has 556,303 states and passes as well; `NothingLost` and
`NotRunAgain` are proved for every page size.

Deadlock is checked for the account queue, paged recovery and the cluster.  The other systems may come to rest
(every request answered, every client gone), so their configurations turn the
check off; their liveness properties say what must happen before that.

Fairness.  Weak fairness of every goroutine that has a step of its own: the Go
scheduler runs it, timers fire, and mutexes are granted.  Nothing is assumed of
callers, targets, operators or clients: they need not submit, answer, stop or
hang up, with these exceptions.  An attempt ends, because every HTTP request
has a timeout.  A drain delivery succeeds at last, because only finitely many may
fail (`MaxFailures`).  A flusher gets `flushMu` at last (strong fairness: Go's mutex
hands over to a starving waiter), and the scheduler's `select` takes its closed stop
channel at last (strong fairness: select chooses at random among ready cases).  In
`PagedRecovery` and `DrainMode` some steps are fair only as a union, which is weaker
than fairness to each and enough where each kind happens finitely often.  go-redis
reconnects.  The last exporter up stays up.  `ClusterRouting` is checked for safety
only and assumes no fairness.

## 4. Where the code and its documentation disagree

One disagreement has a run of its own:

* `stream_of_duplicate_hangs`: `streamExistingJob` (`core/server.go:645`) discards
  the fresh copy of the job that `SubscribeJob` returns, so a job that finishes
  between the duplicate check and the subscription leaves the stream waiting.

Others were met while modelling.  The models contain the behaviour, and the
properties name the exception instead of excluding the interleaving:

* a proxy request releases its key before the direct attempt
  (`core/aquifer.go:201`), so a duplicate may be told of a job that is withdrawn;
  `DuplicateIsReal` speaks of the other path only;
* the existing job of a duplicate may be gone when it is read (`core/proxy.go:93`
  against the comment at `:29`): the `noJob` answer of `Intake`;
* a webhook is lost when the registry stops between the outcome and
  `EnqueueWebhook` (`dispatch/registry.go:510` against `docs` "API.md:612"):
  `OutcomeDelivered` excepts stop and crash;
* a stream that confirms just after PublishTerminal gave up gets a second copy by
  webhook (`dispatch/account_queue.go:993`);
* an attempt that panics publishes nothing (`dispatch/account_queue.go:497`):
  `StreamEnds` excepts it;
* the recovery of a panic late in `execute` (in a recorder, the metrics or the webhook
  hand-over) writes `failed` over a completion that clients may already have been told
  (`dispatch/account_queue.go:497`): `ToldIsStored` excepts `overwritten`, and
  `JobLifecycle` has it as `Panic`;
* a redirect hop whose deadline has passed is answered 503 while its row stays
  (`core/proxy.go:95`), against "AttemptDirect already deleted the job row it inserted"
  (`core/server.go:517`); a restart would then run the job: `NoGhostRow` excepts `tooLate`;
* an insert that fails is answered like one that succeeded (`storage/pebble.go:347`), so
  an accepted job may be lost with the process, and a retry of its key is a new job:
  `AcceptedKept` and `OneLivePerKey` except `unstored`;
* a row that expires while the process is down is passed over by recovery and later
  swept, without an outcome or a webhook (`storage/pebble.go:710` against the comment at
  `jobs/job.go:347`): `AcceptedKept` excepts `expired`;
* until it is swept, an expired row still makes a request a duplicate
  (`storage/pebble.go:340`), of a job `GetJob` no longer gives;
* `attemptDrainFlushContext` (`dispatch/drain.go:188`) wipes the ledger after an
  empty listing without looking again, so a job that arrives meanwhile, or a direct
  attempt that is under way, loses its row or its event, against `docs/reference/DRAIN_MODE.md:103` ("deletes drain
  events only after the webhook returns 2xx"): `EventKept` excepts `late` jobs;
* the wipe does not take `drainFlushMu` and resets the drain sequence
  (`storage/pebble.go:822` against `jobs/job.go:80`, "a monotonic local sequence"),
  so a batch that was being sent acknowledges events it never had: `straddled`;
* a hand-off that is refused keeps its reservation (`dispatch/account_queue.go:526`).
  For a moved job whose row the source also counts, or a new job that recovery
  found in its first page, that is one count too many for good, against "so the
  backlog stays exact" (`dispatch/paged_recovery.go:48`): `leaked`;
* after a panic of the run loop the messages of attempts that were under way meet
  the reloaded copies of their jobs, so counts and attempts may be doubled, against
  "so nothing is counted twice" (`dispatch/paged_recovery.go:95`): `BacklogExact` and
  `NotRunAgain` speak of runs without a panic, `NothingLost` and `BacklogDrains` of all;
* a worker created for a direct attempt has no queue to retire it
  (`dispatch/registry.go:439`), and keeps the node from looking idle:
  `IdleIsUnassigned` excepts it;
* the target's queueing mode is remembered after the worker's lock is released
  (`dispatch/url_worker.go:486`), so two answers may be remembered in the wrong
  order: `RemembersLastChoice` in `TargetWorkers` states what would be expected,
  and TLC refutes it;
* a job may end before `users.add` counts it (`dispatch/registry.go:403`): with
  no other work of the user its count is lowered from nothing and raised afterwards,
  for good, against "counts each
  user's accepted-but-unfinished work" (`dispatch/user_load.go:18`).  Such a user stays
  active for ever in the eyes of `webhookBacklogDecision`, so another user may be
  throttled while alone (`:79`): `LoadExact` excepts users with a job in `outran`;
* a budget of 0 means none, but `setMaxBacklog` (`dispatch/url_worker.go:131`) compares
  it as the smallest: the step from none to a budget counts as a raise and leaves no
  floor, against the comment at `:120`: `AdmittedBounded` excepts `unlimited` workers;
* a caller who leaves after the forward was delivered makes the sender take the
  owner for failed (`core/server.go:722`), so two nodes may accept the submission,
  against the comment at `:723`: `AcceptedOnce` excepts `gone`;
* idle release and rebalance (`cluster/router.go:452`, `:532`) look at local scopes only,
  which do not show a forward on its way, nor the jobs of the shared scope, against
  "Only users with no local work are released" (`:528`): `Untracked`, one of the events
  `OneOwnerWorks` excepts;
* a Release that timed out may be carried out after the scope was assigned to its owner
  again (`cluster/router.go:600`): `OneOwnerWorks` excepts that too;
* `Members` (`cluster/valkey.go:115`) removes expired instances in a second call and
  so drops the counts of one whose heartbeat came in between: `uncounted`;
* a transcript may be trimmed between the cursor check and the read
  (`websocket/manager.go:199`): `outrun`;
* the last follower's Unsubscribe may follow a new one's Subscribe
  (`websocket/follower.go:131`): `crossed`; TLC refutes `EveryoneCaughtUp`;
* `sweepConsumers` deletes a consumer that read entries since the look
  (`websocket/export.go:267`): `forgotten`; TLC refutes `NeverForgotten`.

## 5. What is proved

Each theorem holds for every value of the constants that satisfies the named
assumptions of its module.  The bounds that only keep TLC's instances finite (faults,
failures, restarts, entries) are constants too, so no theorem depends on their size.
`TargetWorkersProofs`, `DeliveryProofs` and `WebSocketProofs` treat two modules each; the second
one has its own names for `Init`, `Next` and `Spec` (`PaceSpec`, `DrainSpec`,
`TranscriptSpec`), so that both can be extended.

`AccountQueue`, for any finite set of jobs, any hooks, deadlines, retry limits,
delays, channel capacities and concurrency limits.  Its five assumptions are what
configuration parsing guarantees: positive limits, deadlines that are times, a
delivery that has no delivery of its own.

* `AccountQueueProofs!TypeCorrect`: `Spec => []TypeOK`.  `TypeOK` is inductive.  The
  interesting parts are the lists (removing an element keeps a sequence,
  `WithoutSeq`), the timers (the earliest of a finite set of times exists,
  `EarliestIsLeast`) and the limit: whatever the target asks for, it stays between
  1 and the configured one.
* `AccountQueueProofs!HeldCorrect`: `Spec => []JobsHeld`, i.e. `HeldOnce` and `NoJobLost`.  Neither is
  inductive.  `HeldInv` adds `IdleEmpty` (a loop that returned idle holds nothing and
  runs nothing, or Supervise could drop jobs), `HookReport` (an attempt that hands
  over a webhook asks for no retry, or a finished job would be held again) and
  `AttemptKnown` (what is attempted was accepted).
* `!CountsCorrect`: `inFlight` and `backlog` are exact,
  attempts stay within the configured concurrency and a retired queue is empty.
  `CountInv` replaces `ConcurrencyBound` by `SlotInv`: attempts and unread messages
  together never exceed `inFlight`, which never exceeds the configured limit.  It needs
  `HeldInv`, since a job that were in two places would be counted twice.
* `!LifecycleImplemented`: `Spec => ImplementsLifecycle`, the refinement of
  `JobLifecycle`.  `Init` maps to its `Init`, and under `TypeOK` and `HeldInv` each step
  maps to a step of it or to a stutter: a job that is held is in one place, so
  an attempt that starts is the only one, and a job that expires is not out.  What it
  establishes is that no job is sent twice at once or after its outcome, and that an
  outcome is final once the attempt has sent its message; before that only a recovered
  panic changes it (`PanicImplements`), and only to failed.
* `!TimersCorrect`: `Spec => []TimersArmed`.  `TimersInv` adds that no retry is due at
  time 0, the value that means no timer is set; `RetryTimerFirst`, `TrackDeadlineTimers`
  and `DropExpiredEndTimers` treat the recomputations; after a removal a timer may be
  early but never late.

`TargetWorkers`, for any finite set of jobs, any keys, users, budgets and number of
workers, and any ceiling of at least one:

* `TargetWorkersProofs!OneWorker` and `!NoneStranded`: `Spec => []OneLiveWorker` and
  `Spec => []NoJobStranded`.  The inductive invariant is `TypeOK` with `Control`, which
  ties the places of submissions, queues and the closer together: among others, a
  running worker is the current one, and a reserved job keeps its queue from
  retiring.
* `!BudgetHolds`: `Spec => []AdmittedBounded`.  The bound is kept by a change of the
  budget because the floor covers what is held (`BudgetChangeBound`), and by an
  admission because the decision is made from the total (`AdmissionBound`); `FloorBound`
  shows that forgetting the floor is safe when the backlog is back within the budget.
* `!LoadCorrect`: `Spec => []LoadExact`.  `LoadInv` adds that what is counted was handed
  over, so that the sets the load is compared with change by one job at a time.

`SharedPace`, for any queues and any shortest interval:

* `TargetWorkersProofs!Ceiling`: `PaceSpec => []CeilingHeld`.  `PaceInv` says that slots
  start at least one interval apart and none in the future, although a grant may be
  decided with an old clock reading.

`Intake`, for any requests, keys and number of restarts (the assumptions: a request
has a key, `None` is neither a request nor an answer):

* `IntakeProofs!DuplicateCorrect`, `!RowsCorrect`, `!AcceptedCorrect` and `!OneLiveCorrect`:
  `DuplicateIsReal`, `NoGhostRow`, `AcceptedKept` and `OneLivePerKey`.  None is inductive
  alone; `IInv` adds who may touch what between the insert of a row and its
  hand-over: a request between claim and release holds the claim of its key
  (`ClaimsHeld`), an undecided or queued request has the row of its key unless its
  insert failed (`RowsKept`), a row is never a withdrawn request's (`RowsLive`), fates
  are final and a queued job's row has not expired (`FatesFinal`), and whoever was told
  of a job was told of one that is through (`ToldOfKept`).

`ResultDelivery`, for any streams, buffer sizes, retries and restarts:

* `DeliveryProofs!ToldCorrect` and `!DeliveredCorrect`: `ToldIsStored` and
  `OutcomeDelivered`.  `IInv` says that the row is queued exactly while the goroutine has
  no outcome; that whatever outcome a stream read, has in its buffer or wrote is the
  one in the row, or the completion a late panic wrote over (`Heard`); and that a closed
  confirmation is that of a client who was told (`Settled`).

`DrainMode`, for any jobs, batch size and number of failed deliveries (`Unlocked`,
the free mutex, is not one of the loops):

* `DeliveryProofs!EventKeptCorrect` and `!BatchIsHeadCorrect`: `DrainSpec => []EventKept` and
  `DrainSpec => []BatchIsHead`, both from `DrainInv`.  An acknowledgement deletes what was sent because the journal is
  in the order of its sequence (`Journal`), the loop that sends has the mutex (`Locked`) and
  its batch is the head (`AtHead`); `JournalHead` shows that the events up to the last
  one sent are then the batch itself.  A wipe loses nothing because the loop found the
  journal empty, and whatever came since is late (`Wiping`, `Stored`).

`PagedRecovery`, for any finite stored and new jobs, any page size, concurrency and number of
troubles (jobs are numbered in the order of the store's keys, stored ones first):

* `PagedRecoveryProofs!NothingLostCorrect`: `Spec => []NothingLost`.  `LostInv` adds that what
  is on the way or held has its row under the queue's key (`Handed`, `Backed`), so that the
  reload after a panic finds it, and that recovery's count covers the rows it has not
  read while it reads the first page (`Counting`), so that no source is left out.
  `AllAccounted` is `NothingLost` with the places spelled out.
* `!NotRunAgainCorrect`: `Spec => []NotRunAgain`.  `AgainInv` says that a job comes to the queue
  once (`ComesOnce`), that without a panic `present` is exactly what the queue has one
  copy of (`HeldOnce`), that stored jobs recovery has not seen are untouched (`Untouched`),
  and that the row of an attempt or of a hand-off still on its way is unfinished
  (`RunsUnfinished`); it uses `LostInv`.

`WebSocketScheduler`, for any finite set of sessions and any limits:

* `WebSocketProofs!SlotsCounted` and `!LineCorrect`: `ActiveExact` and
  `LineExact`.  Both follow from one invariant, because a session leaves the line
  exactly when it gets a slot; the lemmas on removing from a line without repetition
  carry the argument.

`WebSocketTranscript`, for any connections, entries, drops and size of a read:

* `WebSocketProofs!NoSilentGapCorrect`: `TranscriptSpec => []NoSilentGap`.  `PlaceInv` adds that the entry after
  the place of a connection that was not outrun is still in the stream (`Unread`), that
  a connection's first entry is not after its cursor (`Based`), that
  a connection that is not open has no place (`NoPlace`), and that only written entries
  were sent (`Written`).
* `!FollowersSubscribedCorrect`: `TranscriptSpec => []FollowersSubscribed`.  `FollowInv` says which handlers are
  in `subs` (`Followers`), that followers and an Unsubscribe on its way mean the two have
  crossed (`Crossing`), and that followers are served or one is about to subscribe
  (`Served`).  It needs no assumption.

`TranscriptExport`, for any nodes, entries, batch and stream bounds, receiver limit and
number of faults (`None` is not a node):

* `TranscriptExportProofs!NothingMissedCorrect`: `Spec => []NothingMissed`.  `ExportInv` adds that a batch about to
  be acknowledged was answered for (`Answered`), that what a node acknowledges it sent or
  it has left the stream (`Batched`), and that only appended entries are pending
  (`Numbered`).  `Kept` is stronger than the property: an entry that is being sent is also
  still in the stream.

`ClusterRouting`, for any nodes and scopes, any finite sets of jobs and submissions,
and any number of faults (`None` is neither a node nor a scope):

* `ClusterRoutingProofs!AssignmentsAgree`: `Spec => []AssignmentCounted`, which is
  inductive; each store call has a lemma and every other step leaves the store alone.
* `!AcceptedCorrect`: `Spec => []AcceptedOnce`.  `RequestInv` follows a submission: until
  its caller leaves it is at one node at most (`AtOneNode`), and nobody accepted it
  while it is still under way or being tracked (`AcceptedLate`).
* `!OutstandingCorrect`: `Spec => []OutstandingExact`.  The counts of `localScopes` are
  compared with `Tally`, the cardinalities of the handlers that track a scope and of
  the jobs registered under it; `TallyHandler` and `TallyJob` change them by one.
* `!OwnerCorrect`: `Spec => []OneOwnerWorks`.  `OwnerInv` says that only the node a scope is
  assigned to works on it, and that a submission a node handles for its own caller
  keeps the scope fresh there until it is tracked, so the release of idle scopes
  cannot take it; it needs `OutstandingExact`, because the release reads the counts.

The invariants were first checked with TLC on the instances of the runs.
Each step lemma treats one action; the last step of each theorem combines
`Init => IInv`, `IInv /\ [Next]_vars => IInv'` and `IInv => Inv` by temporal logic.

## 6. What is only model-checked

Liveness, because fairness is beyond the prover: `EveryJobEnds`, `CallsReturn`,
`OutcomeSettles`, `StreamEnds`, `Answered`, `BacklogDrains`, `SlotUsed`, `CaughtUp`, `Exported`,
`CloseEnds`, `StopReturns`, `IdleIsUnassigned`.

One safety invariant, `BacklogExact` of `PagedRecovery` (with its `TypeOK`, which bounds the
same counter).  It compares the backlog with a sum over the sources of a worker; what a
fold computes is shown by induction over data, which the prover cannot do.  Every other
safety property of the runs has a theorem.

## 7. What is not modelled

State that a later extension could take up:

* target pools (`dispatch/pool.go`, `registration.go`): membership by heartbeats and
  weighted picking by floating-point reputations;
* the inbound rate limit (`admission/inbound_rate.go`), a token bucket in floating
  point, and the breaker of a worker, a flag with an expiry that only chooses
  between a direct attempt and the queue, both of which `Intake` always allows;
* `enforceAggregateBudget` and the rates of single queues: numeric feedback that
  decides when a dispatch happens, never whether;
* that `SharedPace` leaves no slot unused for long: a statement about real time;
* `PagedRecovery` with a queue that retires or is replaced when the queueing mode
  changes while it has sources on disk;
* `ClusterRouting` with a node that restarts under its old name, and the jobs of a
  paged backlog, which the router does not track.

Out of reach or without state: encoding and compaction in the store, SQL text,
HTTP and Valkey themselves, floating-point estimates of load and rate (only reports
and redirects read them), metrics, configuration parsing, the MCP, A2A and L8
adapters, commands, benchmarks and examples.  A numeric pace is modelled as the
event that allows the next step.
