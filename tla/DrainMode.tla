----------------------------- MODULE DrainMode ------------------------------
(***************************************************************************)
(* Drain mode: the journal of finished jobs, the three loops that send it  *)
(* away (the watchdog once the instance is idle, the periodic batches, the *)
(* last flush of a shutdown), and the wipe of the local ledger that makes  *)
(* the instance free for another tenant.                                   *)
(*                                                                         *)
(* The store calls are atomic (ClearIdempotentKeys takes every shard lock, *)
(* the journal is under drainMu); between them jobs come and finish.       *)
(***************************************************************************)
EXTENDS Integers, Sequences

CONSTANTS
    Jobs,
    Direct,       \* jobs that proxy mode answers directly
    Unlocked,     \* drainFlushMu is free
    BatchMax,     \* AQUIFER_DRAIN_BATCH_MAX_EVENTS
    MaxFailures   \* failed deliveries, a bound

Flushers == {"watchdog", "batch", "shutdown"}

ASSUME DrainAssumption ==
    /\ Direct \subseteq Jobs
    /\ Unlocked \notin Flushers
    /\ BatchMax \in Nat \ {0}
    /\ MaxFailures \in Nat

VARIABLES
    workers,     \* Registry.workers: none, bare (no queue), or with queues
    arriving,    \* jobs stored and not yet given to a worker
    held,        \* jobs stored, queued or being attempted
    rows,        \* jobs with a row in the store
    finished,    \* jobs with an outcome
    events,      \* the journal: drain:seq
    seq,         \* drain_sequence
    sink,        \* the jobs whose events the receiver was sent
    drainState,
    idle,        \* becameIdleAt: no, waiting, or TimerSeconds ago
    loop,        \* where each loop is
    batch,       \* the events it is sending, <<>> between two batches
    flushMu,     \* drainFlushMu
    closing,     \* the node is shutting down
    failures,
    late,        \* observes: jobs under way while the watchdog was flushing
    straddled    \* observes: a wipe while another loop was sending its batch

jobVars == <<workers, arriving, held, rows, finished>>
journalVars == <<events, seq>>
flushVars == <<loop, batch, flushMu>>
observed == <<late, straddled>>
drainVars == <<jobVars, journalVars, sink, drainState, idle, flushVars, closing, failures, observed>>

Event == [seq : Nat \ {0}, job : Jobs]

\* One type invariant.  The journal's sequence numbers grow and stay within
\* drain_sequence.
DrainTypeOK ==
    /\ workers \in {"none", "bare", "queues"}
    /\ held \in SUBSET Jobs /\ arriving \in SUBSET held
    /\ late \in SUBSET Jobs /\ straddled \in BOOLEAN
    /\ rows \in SUBSET Jobs
    /\ finished \in SUBSET Jobs
    /\ events \in Seq(Event)
    /\ seq \in Nat
    /\ \A i \in DOMAIN events : events[i].seq <= seq
    /\ \A i, k \in DOMAIN events : i < k => events[i].seq < events[k].seq
    /\ sink \in SUBSET Jobs
    /\ drainState \in {"active", "draining", "unassigned"}
    /\ idle \in {"no", "waiting", "elapsed"}
    /\ loop \in [Flushers -> {"out", "rest", "list", "deliver", "ack", "clear"}]
    /\ batch \in [Flushers -> Seq(Event)]
    /\ flushMu \in Flushers \cup {Unlocked}
    /\ closing \in BOOLEAN
    /\ failures \in 0 .. MaxFailures

-----------------------------------------------------------------------------
(* Jobs. *)

\* CheckOrInsert.  The watchdog may be flushing.
Insert(j) ==
    /\ j \notin rows \cup held \cup finished
    /\ ~closing
    /\ rows' = rows \cup {j}
    /\ held' = held \cup {j}
    /\ arriving' = arriving \cup {j}
    /\ late' = IF loop["watchdog"] = "rest" THEN late ELSE late \cup {j}
    /\ UNCHANGED <<workers, finished, journalVars, sink, drainState, idle, flushVars,
                   closing, failures, straddled>>

\* The job reaches its target's worker.  A direct attempt makes the worker but
\* no queue.
Enqueue(j) ==
    /\ j \in arriving
    /\ arriving' = arriving \ {j}
    /\ workers' = CASE j \notin Direct -> "queues"
                    [] workers = "none" -> "bare"
                    [] OTHER -> workers
    /\ UNCHANGED <<held, rows, finished, journalVars, sink, drainState, idle, flushVars,
                   closing, failures, observed>>

\* recordDrainEvent.
Record(j) ==
    /\ events' = Append(events, [seq |-> seq + 1, job |-> j])
    /\ seq' = seq + 1

\* UpdateStatus does nothing for a row that is gone.
Complete(j) ==
    /\ j \in held \ arriving
    /\ held' = held \ {j}
    /\ finished' = finished \cup {j}
    /\ IF j \in rows THEN Record(j) ELSE UNCHANGED journalVars
    /\ UNCHANGED <<workers, arriving, rows, sink, drainState, idle, flushVars, closing,
                   failures, observed>>

\* The last queue idles out and takes the worker with it, also while the worker
\* makes a direct attempt.
Retire ==
    /\ workers = "queues" /\ held \ arriving \subseteq Direct
    /\ workers' = "none"
    /\ UNCHANGED <<arriving, held, rows, finished, journalVars, sink, drainState, idle,
                   flushVars, closing, failures, observed>>

-----------------------------------------------------------------------------
(* The loops. *)

\* drainWatchdogLoop, one tick.
Tick ==
    /\ loop["watchdog"] = "rest"
    /\ \/ /\ workers # "none"
          /\ idle' = "no" /\ drainState' = "active"
          /\ UNCHANGED <<loop, late>>
       \/ /\ workers = "none" /\ drainState # "unassigned" /\ idle = "no"
          /\ idle' = "waiting" /\ drainState' = "draining"
          /\ UNCHANGED <<loop, late>>
       \/ /\ workers = "none" /\ drainState # "unassigned" /\ idle = "elapsed"
          /\ loop' = [loop EXCEPT !["watchdog"] = "list"]
          /\ late' = late \cup held
          /\ UNCHANGED <<idle, drainState>>
    /\ UNCHANGED <<jobVars, journalVars, sink, batch, flushMu, closing, failures,
                   straddled>>

TimerElapses ==
    /\ idle = "waiting"
    /\ idle' = "elapsed"
    /\ UNCHANGED <<jobVars, journalVars, sink, drainState, flushVars, closing, failures, observed>>

BatchTimer ==
    /\ loop["batch"] = "rest"
    /\ loop' = [loop EXCEPT !["batch"] = "list"]
    /\ UNCHANGED <<jobVars, journalVars, sink, drainState, idle, batch, flushMu,
                   closing, failures, observed>>

BeginDrain ==
    /\ ~closing
    /\ closing' = TRUE
    /\ UNCHANGED <<jobVars, journalVars, sink, drainState, idle, flushVars, failures, observed>>

\* WaitIdle has returned; FlushForShutdown.
ShutdownFlush ==
    /\ closing /\ held = {} /\ loop["shutdown"] = "out"
    /\ drainState' = "draining"
    /\ loop' = [loop EXCEPT !["shutdown"] = "list"]
    /\ UNCHANGED <<jobVars, journalVars, sink, idle, batch, flushMu, closing, failures, observed>>

\* A slip: the batch is read without drainFlushMu.
ListUnlocked(f) ==
    /\ loop[f] = "list"
    /\ LET b == SubSeq(events, 1, IF Len(events) < BatchMax THEN Len(events) ELSE BatchMax)
       IN /\ batch' = [batch EXCEPT ![f] = b]
          /\ flushMu' = IF b = <<>> THEN Unlocked ELSE f
          /\ loop' = [loop EXCEPT ![f] = IF b # <<>> THEN "deliver"
                                         ELSE IF f = "batch" THEN "rest" ELSE "clear"]
    /\ UNCHANGED <<jobVars, journalVars, sink, drainState, idle, closing, failures, observed>>

\* flushDrainEventBatch takes the mutex and lists the journal; the idle and
\* the shutdown flush go on to the wipe once it is empty.
List(f) ==
    /\ loop[f] = "list" /\ flushMu = Unlocked
    /\ LET b == SubSeq(events, 1, IF Len(events) < BatchMax THEN Len(events) ELSE BatchMax)
       IN /\ batch' = [batch EXCEPT ![f] = b]
          /\ flushMu' = IF b = <<>> THEN Unlocked ELSE f
          /\ loop' = [loop EXCEPT ![f] = IF b # <<>> THEN "deliver"
                                         ELSE IF f = "batch" THEN "rest" ELSE "clear"]
    /\ UNCHANGED <<jobVars, journalVars, sink, drainState, idle, closing, failures, observed>>

Sent(f) == {batch[f][i].job : i \in DOMAIN batch[f]}

Deliver(f) ==
    /\ loop[f] = "deliver"
    /\ sink' = sink \cup Sent(f)
    /\ loop' = [loop EXCEPT ![f] = "ack"]
    /\ UNCHANGED <<jobVars, journalVars, drainState, idle, batch, flushMu, closing,
                   failures, observed>>

\* A slip: a failed delivery returns with the mutex held.
DeliverFailsLocked(f) ==
    /\ loop[f] = "deliver"
    /\ failures < MaxFailures
    /\ failures' = failures + 1
    /\ sink' \in {sink, sink \cup Sent(f)}
    /\ loop' = [loop EXCEPT ![f] = "rest"]
    /\ batch' = [batch EXCEPT ![f] = <<>>]
    /\ UNCHANGED <<jobVars, journalVars, drainState, idle, flushMu, closing, observed>>

\* The delivery fails, with or without the receiver having got it.
DeliverFails(f) ==
    /\ loop[f] = "deliver"
    /\ failures < MaxFailures
    /\ failures' = failures + 1
    /\ sink' \in {sink, sink \cup Sent(f)}
    /\ flushMu' = Unlocked
    /\ loop' = [loop EXCEPT ![f] = "rest"]
    /\ batch' = [batch EXCEPT ![f] = <<>>]
    /\ UNCHANGED <<jobVars, journalVars, drainState, idle, closing, observed>>

\* A slip: the acknowledgement empties the journal.
AcknowledgeAll(f) ==
    /\ loop[f] = "ack"
    /\ events' = <<>>
    /\ flushMu' = Unlocked
    /\ loop' = [loop EXCEPT ![f] = IF f = "batch" THEN "rest" ELSE "list"]
    /\ batch' = [batch EXCEPT ![f] = <<>>]
    /\ UNCHANGED <<jobVars, seq, sink, drainState, idle, closing, failures, observed>>

\* AcknowledgeDrainEventsThrough the last sequence of the batch: the events are
\* deleted in the order of their keys, up to the first of a later sequence.
Acknowledge(f) ==
    /\ loop[f] = "ack"
    /\ LET last == batch[f][Len(batch[f])].seq
       IN \E n \in 0 .. Len(events) :
             /\ \A i \in 1 .. n : events[i].seq <= last
             /\ n < Len(events) => events[n + 1].seq > last
             /\ events' = SubSeq(events, n + 1, Len(events))
    /\ flushMu' = Unlocked
    /\ loop' = [loop EXCEPT ![f] = IF f = "batch" THEN "rest" ELSE "list"]
    /\ batch' = [batch EXCEPT ![f] = <<>>]
    /\ UNCHANGED <<jobVars, seq, sink, drainState, idle, closing, failures, observed>>

\* ClearIdempotentKeys, whatever came since the journal was found empty and
\* whoever has drainFlushMu.
Clear(f) ==
    /\ loop[f] = "clear"
    /\ rows' = {} /\ events' = <<>> /\ seq' = 0
    /\ drainState' = "unassigned"
    /\ loop' = [loop EXCEPT ![f] = "rest"]
    /\ straddled' = (straddled \/ flushMu # Unlocked)
    /\ UNCHANGED <<workers, arriving, held, finished, sink, idle, batch, flushMu, closing,
                   failures, late>>

DrainInit ==
    /\ workers = "none" /\ arriving = {} /\ held = {} /\ rows = {} /\ finished = {}
    /\ events = <<>> /\ seq = 0 /\ sink = {}
    /\ drainState = "active" /\ idle = "no"
    /\ loop = [f \in Flushers |-> IF f = "shutdown" THEN "out" ELSE "rest"]
    /\ batch = [f \in Flushers |-> <<>>]
    /\ flushMu = Unlocked
    /\ closing = FALSE /\ failures = 0 /\ late = {} /\ straddled = FALSE

Flush(f) == List(f) \/ Deliver(f) \/ Acknowledge(f) \/ Clear(f)

DrainNext ==
    \/ \E j \in Jobs : Insert(j) \/ Enqueue(j) \/ Complete(j)
    \/ \E f \in Flushers : Flush(f) \/ DeliverFails(f)
    \/ Retire \/ Tick \/ TimerElapses \/ BatchTimer \/ BeginDrain \/ ShutdownFlush

DrainSpec == DrainInit /\ [][DrainNext]_drainVars

\* Tickers and timers fire, jobs end and their queues retire (each finitely
\* often, so fairness to the union is enough), and the receiver answers at
\* last: only finitely many deliveries fail.
DrainFairness ==
    /\ WF_drainVars(Tick) /\ WF_drainVars(TimerElapses)
    /\ WF_drainVars(Retire \/ \E j \in Jobs : Enqueue(j) \/ Complete(j))
    /\ \A f \in {"watchdog", "batch"} : SF_drainVars(Flush(f))

DrainFairSpec == DrainSpec /\ DrainFairness

-----------------------------------------------------------------------------
(* Properties. *)

\* A finished job is in the journal until the receiver has been sent its event:
\* neither a partial batch, a failed delivery, two loops at work nor the wipe
\* of attemptDrainFlush loses it.  Two cases are excepted.  A job that is under
\* way while the watchdog is flushing, without a queue yet or with none, loses its row or its event to the wipe, which
\* does not look at the journal again.  And a wipe while another loop is
\* sending starts the sequence over, so that loop's acknowledgement may take a
\* later event.
EventKept ==
    straddled \/ \A j \in finished \ late :
        j \in sink \/ (\E i \in DOMAIN events : events[i].job = j)

\* What a loop is sending is still the head of the journal, so acknowledging
\* through its last sequence removes exactly what was sent; only a wipe, which
\* does not take drainFlushMu, comes between, and only for a late job.
BatchIsHead ==
    /\ DrainTypeOK
    /\ straddled => late # {}
    /\ ~straddled => \A f \in Flushers :
          loop[f] \in {"deliver", "ack"} =>
             /\ Len(batch[f]) <= Len(events)
             /\ \A i \in DOMAIN batch[f] : batch[f][i] = events[i]

\* An instance that goes idle for good becomes unassigned: drainWatchdogLoop
\* sees it idle and keeps flushing until the receiver has everything.  A worker
\* that only ever served direct answers has no queue to retire it, and keeps the
\* instance from ever looking idle.
IdleIsUnassigned ==
    <>[](held = {} /\ ~closing /\ workers # "bare") => <>[](drainState = "unassigned")
=============================================================================
