---------------------------- MODULE AccountQueue ----------------------------
(***************************************************************************)
(* One account queue of a target API: the goroutine that owns the queue    *)
(* (AccountQueue.run under AccountQueue.supervise), the callers that hand  *)
(* jobs to it (reserve, then handoff), the goroutines that make one        *)
(* attempt each (execute) and the goroutines that hand over webhooks.      *)
(*                                                                         *)
(* The run loop is one pass after another: sweep the expired queued jobs,  *)
(* then the expired waiting ones, then the ones a dead target strands,     *)
(* dispatch while the pace and the concurrency limit allow, and wait in a  *)
(* select.  "pc" is the place of the loop in that pass.  The clock stands  *)
(* still in a sweep because the code reads it once per sweep; everywhere   *)
(* else it may advance between two steps.                                  *)
(*                                                                         *)
(* Webhook deliveries are jobs.  Hook[j] is the delivery of user job j,    *)
(* and it is handed to this same queue, the case the code guards against.  *)
(* The pace (own rate, target-wide rate, empty pool) is abstracted to a    *)
(* flag that closes after a dispatch and reopens some time later.  Paged   *)
(* recovery (spill sources) and a panic of the loop are not in this        *)
(* module.                                                                 *)
(***************************************************************************)
EXTENDS Integers, Sequences, FiniteSets

CONSTANTS
    Jobs,            \* identifiers of user jobs and of webhook deliveries
    NoHook,          \* no webhook: the job has no webhook_url or is a delivery
    Hook,            \* Hook[j]: the webhook delivery of j, or NoHook
    ExecuteBefore,   \* ExecuteBefore[j]: the caller's deadline, 0 when not set
    MaxRetries,      \* MaxRetries[j]: retry limit, -1 for RetryUntilComplete
    QueuedTTL,       \* how long an unfinished job is kept
    Delays,          \* the delays retryDelay may return
    ConfiguredMaxConc,
    ConcSignals,     \* values of X-Aqueduct-Max-Concurrent, 0 when absent
    DeadAfter,       \* AQUIFER_DEAD_TARGET_FAIL_AFTER_SECONDS, 0 is off
    SweepEvery,      \* deadTargetSweepEvery
    CmdsCap,         \* capacity of the cmds channel
    DoneCap,         \* capacity of the done channel
    Horizon,         \* bound: the clock stops here
    AcceptUntil      \* bound: no user job is accepted after this time

Deliveries == {Hook[j] : j \in Jobs} \ {NoHook}

ASSUME JobsAssumption == NoHook \notin Jobs /\ IsFiniteSet(Jobs)
ASSUME HookAssumption ==
    /\ Hook \in [Jobs -> Jobs \cup {NoHook}]
    /\ \A j \in Deliveries : Hook[j] = NoHook
    /\ \A j, k \in Jobs : Hook[j] = Hook[k] /\ Hook[j] # NoHook => j = k
ASSUME DeadlineAssumption ==
    /\ ExecuteBefore \in [Jobs -> Nat]
    /\ QueuedTTL \in Nat \ {0}
    /\ DeadAfter \in Nat
    /\ SweepEvery \in Nat
ASSUME RetryAssumption ==
    /\ MaxRetries \in [Jobs -> Nat \cup {-1}]
    /\ Delays \subseteq Nat
ASSUME LimitAssumption ==
    /\ ConfiguredMaxConc \in Nat \ {0}
    /\ ConcSignals \subseteq Nat
    /\ CmdsCap \in Nat \ {0}
    /\ DoneCap \in Nat \ {0}
    /\ Horizon \in Nat
    /\ AcceptUntil \in Nat

VARIABLES
    now,          \* the wall clock
    row,          \* the stored status of each job, "none" before its insert
    createdAt,    \* Job.CreatedAt
    attempts,     \* Job.Attempts: retries so far
    backlog,      \* AccountQueue.backlog
    handing,      \* reserved jobs whose sender is still in handoff
    hookers,      \* jobs whose webhook waits in a goroutine of its own
    cmds, done,   \* the two channels the loop reads
    pc,           \* where the loop is
    queue,        \* run's queue
    waiting,      \* run's waiting: jobs backing off before a retry
    nextDeadline, \* AccountQueue.nextDeadline
    inFlight, maxConc,
    pace,         \* "ready" when the pace allows a dispatch
    timers,       \* which of dispatchTimer, positionTicker and idle may fire
    retryTimer,   \* when retryTimer fires, 0 when it is not set
    attempt,      \* attempt[j]: where the goroutine that executes j is
    report,       \* report[j]: the done message that goroutine will send
    failingSince, lastDeadSweep,
    stop          \* whether the stop channel is closed

envVars == <<now, failingSince, stop>>
jobVars == <<row, createdAt, attempts>>
chanVars == <<handing, hookers, cmds, done>>
heldVars == <<queue, waiting, nextDeadline>>
slotVars == <<inFlight, maxConc, pace>>
timerVars == <<timers, retryTimer>>
goVars == <<attempt, report>>
loopVars == <<pc, heldVars, slotVars, timerVars, lastDeadSweep>>
vars == <<envVars, jobVars, backlog, chanVars, loopVars, goVars>>

Health == {"failed", "reached", "none", "panic"}
Report == [retryAt : Nat, health : Health]
NoReport == [retryAt |-> 0, health |-> "none"]

\* The message of a recovered panic says nothing of the target.
PanicReport == [retryAt |-> 0, health |-> "panic"]
JobDoneMsg == [job : Jobs, retryAt : Nat, health : Health]
WaitingJob == [job : Jobs, at : Nat]

Statuses == {"none", "queued", "completed", "failed"}
Places == {"sweep", "resweep", "sweepWaiting", "dead", "dispatch", "select",
           "retry", "idle", "retired", "stopped"}
Timers == {"dispatch", "position", "idle"}
Sweeping == {"sweep", "resweep", "sweepWaiting", "dead", "retry"}

\* One type invariant.  The limit in force never leaves the configured range,
\* whatever the target asks for, and only jobs with a webhook hand one over.
TypeOK ==
    /\ now \in Nat \ {0}
    /\ row \in [Jobs -> Statuses]
    /\ createdAt \in [Jobs -> Nat]
    /\ attempts \in [Jobs -> Nat]
    /\ backlog \in Int
    /\ handing \in SUBSET Jobs
    /\ hookers \in SUBSET {j \in Jobs : Hook[j] # NoHook}
    /\ cmds \in Seq(Jobs)
    /\ done \in Seq(JobDoneMsg)
    /\ pc \in Places
    /\ queue \in Seq(Jobs)
    /\ waiting \in Seq(WaitingJob)
    /\ nextDeadline \in Nat
    /\ inFlight \in Int
    /\ maxConc \in 1..ConfiguredMaxConc
    /\ pace \in {"ready", "wait"}
    /\ timers \in SUBSET Timers
    /\ retryTimer \in Nat
    /\ attempt \in [Jobs -> {"none", "run", "hook", "handoff", "send"}]
    /\ \A j \in Jobs : attempt[j] \in {"hook", "handoff"} => Hook[j] # NoHook
    /\ report \in [Jobs -> Report]
    /\ failingSince \in Nat
    /\ lastDeadSweep \in Nat
    /\ stop \in BOOLEAN

-----------------------------------------------------------------------------
(* Deadlines and the two slices the loop filters. *)

QueueDeadline(j) ==
    IF ExecuteBefore[j] > 0 THEN ExecuteBefore[j]
    ELSE IF createdAt[j] > 0 THEN createdAt[j] + QueuedTTL ELSE 0
QueueExpired(j) == QueueDeadline(j) > 0 /\ now >= QueueDeadline(j)
ExecutionExpired(j) == ExecuteBefore[j] > 0 /\ now >= ExecuteBefore[j]
RetryDeadline(j) ==
    IF ExecuteBefore[j] > 0 THEN ExecuteBefore[j] ELSE createdAt[j] + QueuedTTL
HasRetriesLeftOneMore(j) == MaxRetries[j] = -1 \/ attempts[j] <= MaxRetries[j]
HasRetriesLeft(j) == MaxRetries[j] = -1 \/ attempts[j] < MaxRetries[j]

\* s without its i-th element.
Without(s, i) ==
    [k \in 1..(Len(s) - 1) |-> IF k < i THEN s[k] ELSE s[k + 1]]

\* i is the first position of s that is in I.
IsFirst(i, I) == i \in I /\ \A k \in I : i <= k

\* The least element of a set of naturals, 0 when it is empty.
Earliest(S) == IF S = {} THEN 0 ELSE CHOOSE m \in S : \A n \in S : m <= n

TrackDeadlineFirst(next, j) == IF next = 0 THEN QueueDeadline(j) ELSE next
TrackDeadlineNever(next, j) == next

\* trackDeadline: nextDeadline once job j has joined the queue.
TrackDeadline(next, j) ==
    IF QueueDeadline(j) > 0 /\ (next = 0 \/ QueueDeadline(j) < next)
    THEN QueueDeadline(j) ELSE next

\* resetRetryTimer: when the timer fires for a given waiting slice.
ResetRetryTimer(w) == Earliest({w[i].at : i \in DOMAIN w})

\* The job has a webhook to send and is not a delivery itself.
SendsHook(j) == Hook[j] # NoHook

-----------------------------------------------------------------------------
(* Handing a job over: URLWorker.reserve and AccountQueue.handoff. *)

\* A queue's locals when run starts.
FreshRun ==
    /\ pc' = "sweep"
    /\ queue' = <<>>
    /\ waiting' = <<>>
    /\ inFlight' = 0
    /\ maxConc' = ConfiguredMaxConc
    /\ pace' = "ready"
    /\ timers' = {}
    /\ retryTimer' = 0

\* The worker finds the queue of the job's key, or starts a new one when the
\* last one retired, and reserves backlog on it, all under its lock.
Reserve(j) ==
    /\ row[j] = "none"
    /\ row' = [row EXCEPT ![j] = "queued"]
    /\ createdAt' = [createdAt EXCEPT ![j] = now]
    /\ backlog' = backlog + 1
    /\ handing' = handing \cup {j}
    /\ IF pc = "retired"
       THEN FreshRun /\ nextDeadline' = 0 /\ lastDeadSweep' = 0
       ELSE UNCHANGED loopVars

\* A caller's job is stored and reserved.
Accept(j) ==
    /\ j \notin Deliveries
    /\ ~stop
    /\ now <= AcceptUntil
    /\ Reserve(j)
    /\ UNCHANGED <<envVars, attempts, hookers, cmds, done, goVars>>

\* The attempts whose goroutine waits for delivery h to be handed over.
AfterHandoff(h) ==
    [j \in Jobs |-> IF attempt[j] = "handoff" /\ Hook[j] = h
                    THEN "send" ELSE attempt[j]]

\* handoff: the job goes into cmds ...
Handoff(j) ==
    /\ j \in handing
    /\ Len(cmds) < CmdsCap
    /\ handing' = handing \ {j}
    /\ cmds' = Append(cmds, j)
    /\ attempt' = AfterHandoff(j)
    /\ UNCHANGED <<envVars, jobVars, backlog, hookers, done, loopVars, report>>

\* ... or the queue has stopped and the reservation is given back.
HandoffStopped(j) ==
    /\ j \in handing
    /\ stop
    /\ handing' = handing \ {j}
    /\ backlog' = backlog - 1
    /\ attempt' = AfterHandoff(j)
    /\ UNCHANGED <<envVars, jobVars, hookers, cmds, done, loopVars, report>>

\* EnqueueWebhook's early returns: the registry stops, or the idempotent key of
\* the delivery, which names the job it reports on, was inserted before.
HookSkipped(j) == stop \/ row[Hook[j]] # "none"

\* EnqueueWebhook from the goroutine that failed a queued job.
HookQueued(j) ==
    /\ j \in hookers
    /\ hookers' = hookers \ {j}
    /\ IF HookSkipped(j)
       THEN UNCHANGED <<row, createdAt, backlog, handing, loopVars>>
       ELSE Reserve(Hook[j])
    /\ UNCHANGED <<envVars, attempts, cmds, done, goVars>>

\* EnqueueWebhook from the goroutine that executed the job.
HookExecuted(j) ==
    /\ attempt[j] = "hook"
    /\ IF HookSkipped(j)
       THEN /\ attempt' = [attempt EXCEPT ![j] = "send"]
            /\ UNCHANGED <<row, createdAt, backlog, handing, loopVars>>
       ELSE /\ attempt' = [attempt EXCEPT ![j] = "handoff"]
            /\ Reserve(Hook[j])
    /\ UNCHANGED <<envVars, attempts, hookers, cmds, done, report>>

-----------------------------------------------------------------------------
(* One attempt: execute, in a goroutine of its own. *)

\* The goroutine of j ends its attempt with status s and message m.  streamed
\* is publishTerminal's answer: a client that streamed the final event gets
\* no webhook.
EndAttempt(j, s, m) ==
    /\ row' = [row EXCEPT ![j] = s]
    /\ report' = [report EXCEPT ![j] = m]
    /\ \E streamed \in BOOLEAN :
          attempt' = [attempt EXCEPT
                        ![j] = IF SendsHook(j) /\ ~streamed THEN "hook" ELSE "send"]
    /\ UNCHANGED <<envVars, createdAt, attempts, backlog, chanVars, loopVars>>

\* The caller's deadline passed between the dispatch and the attempt.
ExecuteExpired(j) ==
    /\ attempt[j] = "run"
    /\ ExecutionExpired(j)
    /\ EndAttempt(j, "failed", NoReport)

\* The request was sent before the deadline and answered, not necessarily
\* before it.
ExecuteCompleted(j) ==
    /\ attempt[j] = "run"
    /\ EndAttempt(j, "completed", [retryAt |-> 0, health |-> "reached"])

\* A retryable failure with no retry left, or whose retry would land at or
\* after the job's deadline.  h is "none" when the request could not be built.
ExecuteFailed(j) ==
    /\ attempt[j] = "run"
    /\ \E d \in Delays : ~HasRetriesLeft(j) \/ now + d >= RetryDeadline(j)
    /\ \E h \in {"failed", "none"} :
          EndAttempt(j, "failed", [retryAt |-> 0, health |-> h])

\* A retryable failure that will be retried.
ExecuteRetry(j) ==
    /\ attempt[j] = "run"
    /\ HasRetriesLeft(j)
    /\ \E d \in Delays, h \in {"failed", "none"} :
          /\ now + d < RetryDeadline(j)
          /\ report' = [report EXCEPT ![j] = [retryAt |-> now + d, health |-> h]]
    /\ attempts' = [attempts EXCEPT ![j] = @ + 1]
    /\ attempt' = [attempt EXCEPT ![j] = "send"]
    /\ UNCHANGED <<envVars, row, createdAt, backlog, chanVars, loopVars>>

\* The request was cancelled by Stop: the job stays queued in the store.
ExecuteCancelled(j) ==
    /\ attempt[j] = "run"
    /\ stop
    /\ row' = [row EXCEPT ![j] = "queued"]
    /\ report' = [report EXCEPT ![j] = NoReport]
    /\ attempt' = [attempt EXCEPT ![j] = "send"]
    /\ UNCHANGED <<envVars, createdAt, attempts, backlog, chanVars, loopVars>>

\* execute panicked, during the request or anywhere after it recorded an outcome
\* or a retry: the recovery writes failed over whatever the row has, sends the
\* webhook whoever streams the job, and reports neither a retry nor the target.
\* A cancelled attempt does nothing after its write that could panic.
ExecutePanicked(j) ==
    /\ attempt[j] \in {"run", "hook", "send"}
    /\ report[j].health # "panic"
    /\ attempt[j] = "run" \/ row[j] # "queued" \/ report[j].retryAt > 0
    /\ row' = [row EXCEPT ![j] = "failed"]
    /\ report' = [report EXCEPT ![j] = PanicReport]
    /\ attempt' = [attempt EXCEPT ![j] = IF SendsHook(j) THEN "hook" ELSE "send"]
    /\ UNCHANGED <<envVars, createdAt, attempts, backlog, chanVars, loopVars>>

\* The goroutine's last step: the done channel takes its message, or the
\* queue has stopped and nobody reads it.
SendDone(j) ==
    /\ attempt[j] = "send"
    /\ \/ /\ Len(done) < DoneCap
          /\ done' = Append(done, [job |-> j, retryAt |-> report[j].retryAt,
                                   health |-> report[j].health])
       \/ stop /\ done' = done
    /\ attempt' = [attempt EXCEPT ![j] = "none"]
    /\ report' = [report EXCEPT ![j] = NoReport]
    /\ UNCHANGED <<envVars, jobVars, backlog, handing, hookers, cmds,
                   loopVars>>

-----------------------------------------------------------------------------
(* The sweeps at the top of a pass. *)

FailQueuedKeepsBacklog(j) ==
    /\ row' = [row EXCEPT ![j] = "failed"]
    /\ backlog' = backlog
    /\ hookers' = IF SendsHook(j) THEN hookers \cup {j} ELSE hookers

\* failQueuedJob: the job is failed in the store, leaves the backlog, and a
\* goroutine of its own hands its webhook over.
FailQueued(j) ==
    /\ row' = [row EXCEPT ![j] = "failed"]
    /\ backlog' = backlog - 1
    /\ hookers' = IF SendsHook(j) THEN hookers \cup {j} ELSE hookers

QueuedWith(P) == {i \in DOMAIN queue : queue[i] \in P}
WaitingWith(P) == {i \in DOMAIN waiting : waiting[i].job \in P}
Expired == {j \in Jobs : QueueExpired(j)}

\* Fail and drop the first queued, or the first waiting, job that is in P.
DropQueued(P) ==
    /\ \E i \in DOMAIN queue :
          /\ IsFirst(i, QueuedWith(P))
          /\ FailQueued(queue[i])
          /\ queue' = Without(queue, i)
    /\ UNCHANGED <<envVars, createdAt, attempts, handing, cmds, done, pc,
                   waiting, nextDeadline, slotVars, timerVars,
                   lastDeadSweep, goVars>>
DropWaiting(P) ==
    /\ \E i \in DOMAIN waiting :
          /\ IsFirst(i, WaitingWith(P))
          /\ FailQueued(waiting[i].job)
          /\ waiting' = Without(waiting, i)
    /\ UNCHANGED <<envVars, createdAt, attempts, handing, cmds, done, pc,
                   queue, nextDeadline, slotVars, timerVars,
                   lastDeadSweep, goVars>>

\* The loop moves on and nothing else changes.
Goto(place) ==
    /\ pc' = place
    /\ UNCHANGED <<envVars, jobVars, backlog, chanVars, heldVars, slotVars,
                   timerVars, lastDeadSweep, goVars>>

\* dropExpiredJobs scans only when nextDeadline says something may be due.
ScanDue == queue # <<>> /\ nextDeadline # 0 /\ now >= nextDeadline

\* dropExpiredJobs fails the expired jobs one by one ...
DropExpired ==
    /\ pc \in {"sweep", "resweep"}
    /\ ScanDue
    /\ DropQueued(Expired)

\* ... and then knows the earliest deadline of the ones it kept.
DropExpiredEnd ==
    /\ pc \in {"sweep", "resweep"}
    /\ ScanDue => QueuedWith(Expired) = {}
    /\ nextDeadline' =
          IF queue = <<>> THEN 0
          ELSE IF ScanDue
               THEN Earliest({QueueDeadline(queue[i]) : i \in DOMAIN queue} \ {0})
               ELSE nextDeadline
    /\ pc' = IF pc = "sweep" THEN "sweepWaiting" ELSE "dispatch"
    /\ UNCHANGED <<envVars, jobVars, backlog, chanVars, queue, waiting,
                   slotVars, timerVars, lastDeadSweep, goVars>>

DropExpiredWaiting == pc = "sweepWaiting" /\ DropWaiting(Expired)

\* failDeadTarget's early return.
TargetDead ==
    /\ DeadAfter > 0
    /\ failingSince # 0
    /\ now - failingSince >= DeadAfter
    /\ lastDeadSweep = 0 \/ now - lastDeadSweep >= SweepEvery

DropExpiredWaitingEnd ==
    /\ pc = "sweepWaiting"
    /\ WaitingWith(Expired) = {}
    /\ IF TargetDead
       THEN pc' = "dead" /\ lastDeadSweep' = now
       ELSE pc' = "dispatch" /\ UNCHANGED lastDeadSweep
    /\ UNCHANGED <<envVars, jobVars, backlog, chanVars, heldVars, slotVars,
                   timerVars, goVars>>

\* failDeadTarget: the jobs that have waited as long as a target may be dead.
Stranded == {j \in Jobs : createdAt[j] > 0 /\ createdAt[j] <= now - DeadAfter}

FailDeadQueued == pc = "dead" /\ DropQueued(Stranded)

FailDeadWaiting ==
    /\ pc = "dead"
    /\ QueuedWith(Stranded) = {}
    /\ DropWaiting(Stranded)

FailDeadEnd ==
    /\ pc = "dead"
    /\ QueuedWith(Stranded) = {}
    /\ WaitingWith(Stranded) = {}
    /\ Goto("dispatch")

-----------------------------------------------------------------------------
(* The dispatch loop. *)

\* The condition of the dispatch loop.
CanDispatch == queue # <<>> /\ inFlight < maxConc

\* The head expired since the sweep at the top: sweep again, then retry.
DispatchExpired ==
    /\ pc = "dispatch"
    /\ CanDispatch
    /\ QueueExpired(Head(queue))
    /\ Goto("resweep")

\* The pace does not allow it yet: set dispatchTimer and go and wait.
DispatchPaced ==
    /\ pc = "dispatch"
    /\ CanDispatch
    /\ ~QueueExpired(Head(queue))
    /\ pace = "wait"
    /\ timers' = timers \cup {"dispatch"}
    /\ pc' = "select"
    /\ UNCHANGED <<envVars, jobVars, backlog, chanVars, heldVars, slotVars,
                   retryTimer, lastDeadSweep, goVars>>

\* Dispatch the head: a goroutine executes it.
Dispatch ==
    /\ pc = "dispatch"
    /\ CanDispatch
    /\ ~QueueExpired(Head(queue))
    /\ pace = "ready"
    /\ queue' = Tail(queue)
    /\ inFlight' = inFlight + 1
    /\ pace' = "wait"
    /\ attempt' = [attempt EXCEPT ![Head(queue)] = "run"]
    /\ UNCHANGED <<envVars, jobVars, backlog, chanVars, pc, waiting,
                   nextDeadline, maxConc, timerVars, lastDeadSweep,
                   report>>

DispatchEnd == pc = "dispatch" /\ ~CanDispatch /\ Goto("select")

-----------------------------------------------------------------------------
(* The cases of the select. *)

\* case job := <-q.cmds
ReadCmd ==
    /\ pc = "select"
    /\ cmds # <<>>
    /\ cmds' = Tail(cmds)
    /\ queue' = Append(queue, Head(cmds))
    /\ nextDeadline' = TrackDeadline(nextDeadline, Head(cmds))
    /\ timers' = timers \ {"idle"}
    /\ pc' = "sweep"
    /\ UNCHANGED <<envVars, jobVars, backlog, handing, hookers, done, waiting,
                   slotVars, retryTimer, lastDeadSweep, goVars>>

\* A limit the target asks for is kept within the configured one; 0 is none.
NewMaxConc(c) ==
    IF c = 0 THEN maxConc
    ELSE IF c < ConfiguredMaxConc THEN c ELSE ConfiguredMaxConc

\* A retry gives its slot back too: it waits without one.
InFlightAfter(m) == inFlight - 1

\* case msg := <-q.done.  c is the concurrency the target asked for, 0 if none.
ReadDone ==
    /\ pc = "select"
    /\ done # <<>>
    /\ done' = Tail(done)
    /\ inFlight' = InFlightAfter(Head(done))
    /\ IF Head(done).retryAt > 0
       THEN /\ waiting' = Append(waiting, [job |-> Head(done).job, at |-> Head(done).retryAt])
            /\ retryTimer' = ResetRetryTimer(waiting')
            /\ UNCHANGED backlog
       ELSE /\ backlog' = backlog - 1
            /\ UNCHANGED <<waiting, retryTimer>>
    /\ failingSince' = IF Head(done).health = "reached" THEN 0
                       ELSE IF Head(done).health = "failed" /\ failingSince = 0
                            THEN now ELSE failingSince
    /\ \E c \in ConcSignals : maxConc' = NewMaxConc(c)
    /\ timers' = timers \ {"idle"}
    /\ pc' = "sweep"
    /\ UNCHANGED <<now, stop, jobVars, handing, hookers, cmds, queue,
                   nextDeadline, pace, lastDeadSweep, goVars>>

\* case <-dispatchTimer.C and case <-positionTicker.C: the next pass sweeps the
\* queue and dispatches.
TimerFires(t) ==
    /\ pc = "select"
    /\ t \in timers
    /\ timers' = timers \ {t}
    /\ pc' = "sweep"
    /\ UNCHANGED <<envVars, jobVars, backlog, chanVars, heldVars, slotVars,
                   retryTimer, lastDeadSweep, goVars>>

\* case <-retryTimer.C: every due job goes back to the tail of the queue, ...
RetryTimerFires ==
    /\ pc = "select"
    /\ retryTimer # 0
    /\ now >= retryTimer
    /\ retryTimer' = 0
    /\ pc' = "retry"
    /\ UNCHANGED <<envVars, jobVars, backlog, chanVars, heldVars, slotVars,
                   timers, lastDeadSweep, goVars>>

DueWaiting == {i \in DOMAIN waiting : waiting[i].at <= now}

StillWaiting(i) == Without(waiting, i)

RequeueDue ==
    /\ pc = "retry"
    /\ \E i \in DOMAIN waiting :
          /\ IsFirst(i, DueWaiting)
          /\ queue' = Append(queue, waiting[i].job)
          /\ nextDeadline' = TrackDeadline(nextDeadline, waiting[i].job)
          /\ waiting' = StillWaiting(i)
    /\ UNCHANGED <<envVars, jobVars, backlog, chanVars, pc, slotVars,
                   timerVars, lastDeadSweep, goVars>>

\* ... and the timer is set for the next one.
RequeueEnd ==
    /\ pc = "retry"
    /\ DueWaiting = {}
    /\ retryTimer' = ResetRetryTimer(waiting)
    /\ timers' = timers \ {"idle"}
    /\ pc' = "sweep"
    /\ UNCHANGED <<envVars, jobVars, backlog, chanVars, heldVars, slotVars,
                   lastDeadSweep, goVars>>

LoopEmptyButRetries == queue = <<>> /\ inFlight = 0
LoopEmpty == queue = <<>> /\ inFlight = 0 /\ waiting = <<>>

\* case <-idle.C: run returns only when the loop holds nothing.
IdleFires ==
    /\ pc = "select"
    /\ "idle" \in timers
    /\ timers' = timers \ {"idle"}
    /\ pc' = IF LoopEmpty THEN "idle" ELSE "sweep"
    /\ UNCHANGED <<envVars, jobVars, backlog, chanVars, heldVars, slotVars,
                   retryTimer, lastDeadSweep, goVars>>

\* onIdle's condition, read under the worker's lock.
MayRetire == backlog <= 0 /\ cmds = <<>>

\* supervise after run returned: stop, retire the queue, or run again.
Supervise ==
    /\ pc = "idle"
    /\ IF stop
       THEN pc' = "stopped" /\ UNCHANGED <<heldVars, slotVars, timerVars,
                                           lastDeadSweep>>
       ELSE IF cmds = <<>> /\ MayRetire
            THEN pc' = "retired" /\ UNCHANGED <<heldVars, slotVars, timerVars,
                                                lastDeadSweep>>
            ELSE FreshRun /\ UNCHANGED <<nextDeadline, lastDeadSweep>>
    /\ UNCHANGED <<envVars, jobVars, backlog, chanVars, goVars>>

\* A slip: the loop first waits for the attempts in flight.
ReadStopDrained ==
    /\ pc = "select"
    /\ stop /\ inFlight = 0
    /\ backlog' = 0
    /\ pc' = "stopped"
    /\ UNCHANGED <<envVars, jobVars, chanVars, heldVars, slotVars, timerVars,
                   lastDeadSweep, goVars>>

\* case <-q.stop: clearBacklog, and run and supervise return.
ReadStop ==
    /\ pc = "select"
    /\ stop
    /\ backlog' = 0
    /\ pc' = "stopped"
    /\ UNCHANGED <<envVars, jobVars, chanVars, heldVars, slotVars, timerVars,
                   lastDeadSweep, goVars>>

-----------------------------------------------------------------------------
(* The environment: the clock, the pace, and Stop. *)

Tick ==
    /\ now < Horizon
    /\ pc \notin Sweeping
    /\ now' = now + 1
    /\ timers' = IF pc \in {"retired", "stopped"} THEN timers
                 ELSE timers \cup {"position", "idle"}
    /\ UNCHANGED <<failingSince, stop, jobVars, backlog, chanVars, pc,
                   heldVars, slotVars, retryTimer, lastDeadSweep,
                   goVars>>

PaceElapses ==
    /\ pace = "wait"
    /\ pace' = "ready"
    /\ UNCHANGED <<envVars, jobVars, backlog, chanVars, pc, heldVars, inFlight,
                   maxConc, timerVars, lastDeadSweep, goVars>>

\* Stop cancels the requests in flight and closes the stop channel.
Stop ==
    /\ ~stop
    /\ stop' = TRUE
    /\ UNCHANGED <<now, failingSince, jobVars, backlog, chanVars, loopVars,
                   goVars>>

\* A stopped queue stays stopped, a retired one that gets no job stays
\* retired, and nothing is left to wait for when the clock has stopped.
Finished ==
    /\ pc \in {"stopped", "retired"} \/ (pc = "select" /\ now = Horizon)
    /\ UNCHANGED vars

-----------------------------------------------------------------------------
Init ==
    /\ now = 1
    /\ row = [j \in Jobs |-> "none"]
    /\ createdAt = [j \in Jobs |-> 0]
    /\ attempts = [j \in Jobs |-> 0]
    /\ backlog = 0
    /\ handing = {}
    /\ hookers = {}
    /\ cmds = <<>>
    /\ done = <<>>
    /\ pc = "retired"
    /\ queue = <<>>
    /\ waiting = <<>>
    /\ nextDeadline = 0
    /\ inFlight = 0
    /\ maxConc = ConfiguredMaxConc
    /\ pace = "ready"
    /\ timers = {}
    /\ retryTimer = 0
    /\ attempt = [j \in Jobs |-> "none"]
    /\ report = [j \in Jobs |-> NoReport]
    /\ failingSince = 0
    /\ lastDeadSweep = 0
    /\ stop = FALSE

Sender(j) ==
    \/ Handoff(j)
    \/ HandoffStopped(j)
    \/ HookQueued(j)
    \/ HookExecuted(j)

Execute(j) ==
    \/ ExecuteExpired(j)
    \/ ExecuteCompleted(j)
    \/ ExecuteFailed(j)
    \/ ExecuteRetry(j)
    \/ ExecuteCancelled(j)

Pass ==
    \/ DropExpired \/ DropExpiredEnd
    \/ DropExpiredWaiting \/ DropExpiredWaitingEnd
    \/ FailDeadQueued \/ FailDeadWaiting \/ FailDeadEnd
    \/ DispatchExpired \/ DispatchPaced \/ Dispatch \/ DispatchEnd
    \/ RequeueDue \/ RequeueEnd
    \/ Supervise

Select ==
    \/ ReadCmd \/ ReadDone
    \/ TimerFires("dispatch") \/ TimerFires("position") \/ RetryTimerFires
    \/ IdleFires \/ ReadStop

Next ==
    \/ \E j \in Jobs :
          \/ Accept(j) \/ Sender(j)
          \/ Execute(j) \/ ExecutePanicked(j) \/ SendDone(j)
    \/ Pass
    \/ Select
    \/ Tick \/ PaceElapses \/ Stop \/ Finished

Spec == Init /\ [][Next]_vars

\* The run loop and the goroutines are scheduled, a request ends because the
\* client has a timeout, and time passes.  No fairness between the cases of
\* the select is needed.
Fairness ==
    /\ WF_vars(Pass) /\ WF_vars(Select)
    /\ WF_vars(Tick) /\ WF_vars(PaceElapses)
    /\ \A j \in Jobs :
          WF_vars(Sender(j)) /\ WF_vars(Execute(j)) /\ WF_vars(SendDone(j))

FairSpec == Spec /\ Fairness

-----------------------------------------------------------------------------
(* What the queue promises. *)

Attempting == {j \in Jobs : attempt[j] # "none"}

\* The members of a slice of jobs, and the jobs of a slice of records.
Members(s) == {s[i] : i \in DOMAIN s}
JobsOf(s) == {s[i].job : i \in DOMAIN s}
DistinctMembers(s) == \A i, k \in DOMAIN s : s[i] = s[k] => i = k
DistinctJobs(s) == \A i, k \in DOMAIN s : s[i].job = s[k].job => i = k

\* The jobs the queue still has to work on: reserved, held, being attempted, or
\* reported as to be retried.
Working == {j \in Jobs : \/ attempt[j] = "run"
                         \/ attempt[j] = "send" /\ report[j].retryAt > 0}
ToRetry(s) == {s[i].job : i \in {k \in DOMAIN s : s[k].retryAt > 0}}
Held == handing \cup Members(cmds) \cup Members(queue) \cup JobsOf(waiting)
        \cup Working \cup ToRetry(done)

\* inFlight counts the goroutines of the loop's dispatches whose message the
\* loop has not read, no more and no less, until the queue is stopped.
InFlightExact ==
    ~stop => inFlight = Cardinality(Attempting) + Len(done)

\* AccountQueue.backlog, which admission, fairness, retirement and shutdown
\* all read, counts exactly the jobs reserved for, held by or dispatched by
\* this queue, until it is stopped.
BacklogExact ==
    ~stop => backlog = Cardinality(handing) + Len(cmds) + Len(queue)
                       + Len(waiting) + inFlight

\* However the target moves its limit, no more attempts run at once than
\* configured: a slot is freed by the message and not by the outcome.
ConcurrencyBound == Cardinality(Attempting) <= ConfiguredMaxConc

\* No job is lost between two steps of the queue: one whose row says queued is
\* in some place the queue will look at, until the queue is stopped, and one in
\* such a place always has such a row, even while the queue stops.
NoJobLost ==
    /\ Held \subseteq {j \in Jobs : row[j] = "queued"}
    /\ ~stop => {j \in Jobs : row[j] = "queued"} \subseteq Held

\* No job is in two places, or twice in one: it can not be attempted twice at
\* once, nor again after its last attempt.
Apart(sets) ==
    \A p, q \in DOMAIN sets : p < q => sets[p] \cap sets[q] = {}
HeldOnce ==
    /\ DistinctMembers(cmds) /\ DistinctMembers(queue)
    /\ DistinctJobs(waiting) /\ DistinctJobs(done)
    /\ Apart(<<handing, Members(cmds), Members(queue), JobsOf(waiting),
               Attempting, JobsOf(done)>>)

\* nextDeadline is never later than the deadline of a queued job.  The sweep
\* trusts it to skip its scan, and the dispatch loop repeats the sweep until
\* its expired head is gone: a later value would spin that loop forever.
DeadlineTracked ==
    \A i \in DOMAIN queue :
        QueueDeadline(queue[i]) > 0 =>
            nextDeadline # 0 /\ nextDeadline <= QueueDeadline(queue[i])

\* While a job backs off, retryTimer is set, and not for later than the job.
RetryArmed ==
    pc # "retry" => \A i \in DOMAIN waiting :
                       retryTimer # 0 /\ retryTimer <= waiting[i].at

\* What the dispatch loop compares with its limit, and what admission, fairness
\* and retirement read, is never off by one: a path that sends no message, or
\* two, would leak a slot or free one twice.
CountsExact == InFlightExact /\ BacklogExact /\ ConcurrencyBound

\* Every job the store has as queued is in exactly one place of the queue.
JobsHeld == NoJobLost /\ HeldOnce

\* No job waits past the time the loop should look at it: nextDeadline and
\* retryTimer are kept by every path that adds, moves or drops a job.
TimersArmed == DeadlineTracked /\ RetryArmed

\* A queue the worker forgot has nothing left, not even a sender about to hand
\* a job to it: onIdle's check and reserve share the worker's lock.
RetiredEmpty ==
    pc = "retired" /\ ~stop =>
        handing = {} /\ cmds = <<>> /\ queue = <<>> /\ waiting = <<>>
        /\ Attempting = {} /\ done = <<>>

\* Every accepted job, and every webhook delivery, ends up completed or failed
\* unless the queue is stopped: no timer is missed, no sender and loop wait
\* for each other, and no limit the target sets wedges the queue.
EveryJobEnds ==
    \A j \in Jobs : row[j] = "queued" ~> row[j] \in {"completed", "failed"} \/ stop

\* Stop returns: the loop exits, and so does every goroutine it waits for.
StopReturns ==
    stop ~> pc \in {"stopped", "retired"} /\ Attempting = {}

\* The queue implements JobLifecycle: with all its channels, timers and sweeps
\* it never sends a job twice at once or after its outcome, nor retries it
\* past its limit.  An outcome is final once its attempt's goroutine has sent its
\* message; until then the recovery of a panic may turn it into failed, also when
\* it was completed, and nothing else may touch it.
Lifecycle == INSTANCE JobLifecycle WITH
                 status <- row, retries <- attempts,
                 sending <- {j \in Jobs : attempt[j] = "run"},
                 ending <- {j \in Jobs : attempt[j] \in {"hook", "handoff", "send"}}
ImplementsLifecycle == Lifecycle!Spec
=============================================================================
