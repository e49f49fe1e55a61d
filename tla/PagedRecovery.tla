--------------------------- MODULE PagedRecovery ---------------------------
(***************************************************************************)
(* Recovering a large backlog: RecoverQueuedJobs (internal/core/runtime.go)*)
(* hands one page of a queue's stored jobs to the queue and attaches the   *)
(* rest as a source on disk.  The queue loads page after page as it drains *)
(* (internal/dispatch/paged_recovery.go), while other senders hand it new  *)
(* jobs that are stored under the same key.                                *)
(*                                                                         *)
(* A job is its place in (CreatedAt, ID) order, so a PageCursor is a       *)
(* number, and 0 is before every job.  One action is one store call, one   *)
(* channel operation, one page or one sweep.  The order of the jobs in     *)
(* memory, the time a retry waits, a dead target and the queue's end are   *)
(* the subject of AccountQueue.                                            *)
(***************************************************************************)
EXTENDS Integers, Sequences, FiniteSets, FiniteSetsExt, Functions

CONSTANTS
    Old,         \* jobs in storage at the restart
    Live,        \* jobs created since: webhooks, and requests once serving
    Keyings,     \* the old jobs stored under the queue's key; the others are
                 \* under a key whose jobs now route to this queue
    PageSize,    \* AQUIFER_RECOVERY_PAGE_SIZE
    MaxConc,     \* the queue's concurrency
    MaxTroubles  \* bound: retries, failed page reads, panics and deadlines

Jobs == Old \cup Live

ASSUME RecoveryAssumption ==
    /\ Old # {} /\ Keyings \subseteq SUBSET Old
    /\ IsFiniteSet(Jobs) /\ Jobs = 1..Cardinality(Jobs)
    /\ \A o \in Old, l \in Live : o < l
    /\ {PageSize, MaxConc} \subseteq Nat \ {0}
    /\ MaxTroubles \in Nat

VARIABLES
    status,    \* the stored rows: none, pending or done
    keyed,     \* rows stored under this queue's key
    aged,      \* the jobs up to this one are past their queue deadline
    sender,    \* the job each sender is handing over, and its next call
    cmds,      \* q.cmds
    backlog,   \* q.backlog
    rec,       \* RecoverQueuedJobs: its place and its locals
    attached,  \* q.spillPending
    spills,    \* q.spills
    present,   \* q.present
    recent,    \* now is before q.pagedOwnUntil
    backoff,   \* now is before q.refillRetryAt
    loop,      \* where run is
    memory,    \* copies of each job in run's queue and waiting slices
    inFlight,  \* run's count of attempts
    running,   \* attempts of each job under way
    finals,    \* final messages of each job in q.done
    retries,   \* messages in q.done that ask to retry the job
    troubles,  \* retries, failed reads, panics and deadlines so far
    panicked,  \* observes: the run loop has panicked
    leaked     \* observes: refused hand-offs of jobs recovery handed over

storeVars == <<status, keyed, aged>>
sendVars == <<sender, cmds>>
pageVars == <<attached, spills, present, recent, backoff>>
attemptVars == <<inFlight, running, finals, retries>>
used == <<troubles, panicked>>
vars == <<storeVars, sendVars, backlog, rec, pageVars, loop, memory, attemptVars,
          used, leaked>>

Senders == {"recovery", "live"}
Idle == [job |-> 0, call |-> "none"]
Source == [after : Nat, reserved : Nat, consumed : Nat, through : Nat]
Cutoff == Max(Old) + 1

\* PageCursor.Covers: a page read after cursor c leaves out job j.
Covers(c, j) == j <= c

FirstOf(S, n) == {j \in S : Cardinality({k \in S : k < j}) < n}

\* The pending rows of the queue's key after a cursor, and one page of them.
OnDisk(after) == {j \in keyed : status[j] = "pending" /\ ~Covers(after, j)}
QueuedPage(after) == FirstOf(OnDisk(after), PageSize)

\* A slip: a row created since the restart uses up a reserved count.
CountedAny(src, rows) == FirstOf(rows, src.reserved - src.consumed)

\* spillSource.counts for rows handled in order: each counted row uses up one
\* of the reserved counts.
Counted(src, rows) ==
    FirstOf({j \in rows : j < Cutoff /\ ~Covers(src.through, j)},
            src.reserved - src.consumed)

QueueExpired(j) == j <= aged
Trouble == troubles < MaxTroubles /\ troubles' = troubles + 1
Held == SumFunction(memory) + inFlight

None == [j \in Jobs |-> 0]
Plus(f, j) == [f EXCEPT ![j] = @ + 1]
Less(f, j) == [f EXCEPT ![j] = @ - 1]

-----------------------------------------------------------------------------
(* Senders: a reservation, the row's key, the channel.                     *)

\* Under the worker's lock, before the hand-off.
Reserve(w, j) ==
    /\ sender[w] = Idle
    /\ backlog' = backlog + 1
    /\ sender' = [sender EXCEPT ![w] = [job |-> j, call |-> "key"]]

SetQueueKey(w) ==
    /\ sender[w].call = "key"
    /\ keyed' = keyed \cup {sender[w].job}
    /\ sender' = [sender EXCEPT ![w].call = "send"]
    /\ UNCHANGED <<status, aged, cmds, backlog, rec, pageVars, loop, memory,
                   attemptVars, used, leaked>>

Send(w) ==
    /\ sender[w].call = "send"
    /\ cmds' = Append(cmds, sender[w].job)
    /\ sender' = [sender EXCEPT ![w] = Idle]
    /\ UNCHANGED <<storeVars, backlog, rec, pageVars, loop, memory, attemptVars,
                   used, leaked>>

\* A new job: stored without a key, which no page reads, then reserved.
Create(j) ==
    /\ status[j] = "none"
    /\ \A k \in Live : k < j => status[k] # "none"
    /\ status' = [status EXCEPT ![j] = "pending"]
    /\ Reserve("live", j)
    /\ UNCHANGED <<keyed, aged, cmds, rec, pageVars, loop, memory, attemptVars,
                   used, leaked>>

-----------------------------------------------------------------------------
(* RecoverQueuedJobs.                                                      *)

RecoveryIdle == sender["recovery"] = Idle

RecoveryStep(r) ==
    /\ RecoveryIdle
    /\ rec' = r
    /\ UNCHANGED <<storeVars, sendVars, backlog, pageVars, loop, memory,
                   attemptVars, used, leaked>>

\* Its enqueue: a job it has seen is skipped.
RecoverJob ==
    /\ rec.todo # {}
    /\ LET j == Min(rec.todo) IN
          IF j \in rec.seen
            THEN RecoveryStep([rec EXCEPT !.todo = @ \ {j}])
            ELSE /\ Reserve("recovery", j)
                 /\ rec' = [rec EXCEPT !.todo = @ \ {j}, !.seen = @ \cup {j}]
                 /\ UNCHANGED <<storeVars, cmds, pageVars, loop, memory,
                                attemptVars, used, leaked>>

\* The moved jobs are handed over.  The keys are counted again if any key had
\* moved jobs, this queue's or another's.
Recount ==
    /\ rec.at = "moved" /\ rec.todo = {}
    /\ \/ RecoveryStep([rec EXCEPT !.at = "page", !.count = Cardinality(OnDisk(0))])
       \/ /\ rec.seen = {}
          /\ RecoveryStep([rec EXCEPT !.at = "page"])

\* The first page; what the count has beyond a full page stays on disk.
FirstPage ==
    /\ rec.at = "page"
    /\ LET page == QueuedPage(0)
           rest == rec.count - Cardinality(page)
       IN  RecoveryStep([rec EXCEPT
              !.at = "first",
              !.todo = page,
              !.last = IF page = {} THEN 0 ELSE Max(page),
              !.count = IF Cardinality(page) < PageSize \/ rest < 0 THEN 0 ELSE rest])

\* RecoverQueuedJobs returns; only what it has seen is still asked about.
Recovered == [rec EXCEPT !.at = "done", !.last = 0, !.count = 0]

NothingLeft ==
    /\ rec.at = "first" /\ rec.todo = {} /\ rec.count = 0
    /\ RecoveryStep(Recovered)

\* attachSpill reserves the rest one by one before it attaches the source.
ReserveRest ==
    /\ rec.at = "first" /\ rec.todo = {} /\ rec.count > 0
    /\ RecoveryIdle
    /\ rec' = [rec EXCEPT !.at = "attach"]
    /\ backlog' = backlog + rec.count
    /\ UNCHANGED <<storeVars, sendVars, pageVars, loop, memory, attemptVars,
                   used, leaked>>

NewSource(after, reserved) ==
    [after |-> after, reserved |-> reserved, consumed |-> 0, through |-> 0]

AttachSpill ==
    /\ rec.at = "attach"
    /\ attached' = Append(attached, NewSource(rec.last, rec.count))
    /\ rec' = Recovered
    /\ UNCHANGED <<storeVars, sendVars, backlog, spills, present, recent, backoff,
                   loop, memory, attemptVars, used, leaked>>

-----------------------------------------------------------------------------
(* The run loop: expired jobs, pages, dispatches, then one select case.    *)

\* A slip: a quarter of a small page is nothing.
LowRounded == PageSize \div 4

\* Below a quarter page, or one job for a small page.
Low == Max({PageSize \div 4, 1})
WantsPage == ~backoff /\ Held < Low /\ spills # <<>>

\* A pass goes on with a page, if one is wanted, or with the dispatches.
ThenRefill == loop' = IF WantsPage' THEN "refill" ELSE "select"

\* dropExpiredJobs and dropExpiredWaiting, then takeSpills.
LoopTop ==
    /\ loop = "top"
    /\ LET late == {j \in Jobs : memory[j] > 0 /\ QueueExpired(j)} IN
          /\ status' = [j \in Jobs |-> IF j \in late THEN "done" ELSE status[j]]
          /\ memory' = [j \in Jobs |-> IF j \in late THEN 0 ELSE memory[j]]
          /\ backlog' = backlog - SumFunctionOnSet(memory, late)
          /\ present' = present \ late
    /\ spills' = spills \o attached
    /\ attached' = <<>>
    /\ UNCHANGED <<keyed, aged, sendVars, rec, recent, backoff, attemptVars, used, leaked>>
    /\ ThenRefill

\* One page of the first source.  A counted row that is held already gives
\* its reserved count back; a short page ends the source (finishSpill), which
\* gives back the counts it never handed over.
RefillPage ==
    /\ loop = "refill"
    /\ LET src == Head(spills)
           page == QueuedPage(src.after)
           counted == Counted(src, page)
           new == [src EXCEPT !.consumed = @ + Cardinality(counted),
                              !.after = IF page = {} THEN @ ELSE Max(page)]
           dry == Cardinality(page) < PageSize
       IN  /\ backlog' = backlog - Cardinality(counted \cap present)
                         - (IF dry THEN new.reserved - new.consumed ELSE 0)
           /\ spills' = IF dry THEN Tail(spills) ELSE <<new>> \o Tail(spills)
           /\ memory' = [j \in Jobs |-> memory[j] + IF j \in page \ present THEN 1 ELSE 0]
           /\ present' = present \cup page
           /\ recent' = (recent \/ page # {})
    /\ UNCHANGED <<storeVars, sendVars, rec, attached, backoff, attemptVars, used, leaked>>
    /\ ThenRefill

RefillFails ==
    /\ loop = "refill"
    /\ Trouble /\ UNCHANGED panicked
    /\ backoff' = TRUE
    /\ loop' = "select"
    /\ UNCHANGED <<storeVars, sendVars, backlog, rec, attached, spills, present,
                   recent, memory, attemptVars, leaked>>

\* The dispatch pass, which ends when a select case is taken: nothing left, no
\* slot, or the pace says wait.
Dispatch(j) ==
    /\ loop = "select"
    /\ memory[j] > 0 /\ inFlight < MaxConc /\ ~QueueExpired(j)
    /\ memory' = Less(memory, j)
    /\ inFlight' = inFlight + 1
    /\ running' = Plus(running, j)
    /\ UNCHANGED <<storeVars, sendVars, backlog, rec, pageVars, loop, finals, retries,
                   used, leaked>>

\* A slip: the stored status is never looked at.
AcceptUnchecked(j) ==
    /\ j \notin present
    /\ spills # <<>> => Covers(Head(spills).after, j)

\* ownSpill is the cursor of the first source, as every source has this key.
\* No row is marked in_flight any more, so a row that is not done is queued.
AcceptHandoff(j) ==
    /\ j \notin present
    /\ spills # <<>> => Covers(Head(spills).after, j)
    /\ recent => status[j] = "pending"

\* A refused job keeps its reservation.
ReadCmd ==
    /\ loop = "select" /\ cmds # <<>>
    /\ LET j == Head(cmds) IN
          IF AcceptHandoff(j)
            THEN /\ present' = present \cup {j}
                 /\ memory' = Plus(memory, j)
                 /\ UNCHANGED leaked
            ELSE /\ leaked' = leaked + IF j \in rec.seen THEN 1 ELSE 0
                 /\ UNCHANGED <<present, memory>>
    /\ cmds' = Tail(cmds)
    /\ loop' = "top"
    /\ UNCHANGED <<storeVars, sender, backlog, rec, attached, spills, recent, backoff,
                   attemptVars, used>>

ReadFinal(j) ==
    /\ loop = "select" /\ finals[j] > 0
    /\ finals' = Less(finals, j)
    /\ inFlight' = inFlight - 1
    /\ present' = present \ {j}
    /\ backlog' = backlog - 1
    /\ loop' = "top"
    /\ UNCHANGED <<storeVars, sendVars, rec, attached, spills, recent, backoff, memory,
                   running, retries, used, leaked>>

ReadRetry(j) ==
    /\ loop = "select" /\ retries[j] > 0
    /\ retries' = Less(retries, j)
    /\ inFlight' = inFlight - 1
    /\ memory' = Plus(memory, j)
    /\ loop' = "top"
    /\ UNCHANGED <<storeVars, sendVars, backlog, rec, pageVars, running, finals, used,
                   leaked>>

\* sweepSpilled: source i fails the late rows after its cursor that are not
\* held and that no earlier source has failed.
Swept(i) ==
    {j \in OnDisk(spills[i].after) :
        /\ j \notin present /\ QueueExpired(j)
        /\ \A k \in 1..(i - 1) : Covers(spills[k].after, j)}

Sweep ==
    /\ loop = "select" /\ spills # <<>>
    /\ LET all == UNION {Swept(i) : i \in DOMAIN spills} IN
          /\ all # {}
          /\ status' = [j \in Jobs |-> IF j \in all THEN "done" ELSE status[j]]
          /\ backlog' = backlog - Cardinality(all)
          /\ spills' = [i \in DOMAIN spills |-> [spills[i] EXCEPT
                           !.consumed = @ + Cardinality(Counted(spills[i], Swept(i)))]]
    /\ loop' = "top"
    /\ UNCHANGED <<keyed, aged, sendVars, rec, attached, present, recent, backoff, memory,
                   attemptVars, used, leaked>>

\* The ticker with nothing to sweep, the dispatch and retry timers, spillWake.
Wake ==
    /\ loop = "select"
    /\ loop' = "top"
    /\ UNCHANGED <<storeVars, sendVars, backlog, rec, pageVars, memory, attemptVars, used,
                   leaked>>

\* The sources of reloadAfterPanic, and its slip: a source goes on from where
\* the lost loop had read.
RestartedAfter(src) == src.after
Restarted(src) == 0

\* A panic loses what run holds.  reloadAfterPanic starts every source over,
\* with one for the queue's own key if there is none.
Panic ==
    /\ Trouble /\ panicked' = TRUE
    /\ LET sources == spills \o attached
           again == [i \in DOMAIN sources |->
                        [sources[i] EXCEPT
                            !.after = Restarted(sources[i]),
                            !.through = Max({@, sources[i].after})]]
       IN  spills' = IF sources = <<>> THEN <<NewSource(0, 0)>> ELSE again
    /\ attached' = <<>>
    /\ present' = {}
    /\ recent' = TRUE
    /\ memory' = None
    /\ inFlight' = 0
    /\ loop' = "top"
    /\ UNCHANGED <<storeVars, sendVars, backlog, rec, backoff, running, finals, retries,
                   leaked>>

-----------------------------------------------------------------------------
(* Attempts and time.                                                      *)

AttemptEnds(j) ==
    /\ running[j] > 0
    /\ running' = Less(running, j)
    /\ UNCHANGED <<keyed, aged, sendVars, backlog, rec, pageVars, loop, memory, inFlight,
                   leaked>>

\* execute stores the outcome before the message is sent.
Finish(j) ==
    /\ status' = [status EXCEPT ![j] = "done"]
    /\ finals' = Plus(finals, j)
    /\ AttemptEnds(j)
    /\ UNCHANGED <<retries, used>>

RetryLater(j) ==
    /\ Trouble /\ UNCHANGED panicked
    /\ retries' = Plus(retries, j)
    /\ AttemptEnds(j)
    /\ UNCHANGED <<status, finals>>

OnTheWay == Range(cmds) \cup {sender[w].job : w \in Senders}

\* Time passes the deadlines of the jobs up to j.  They are a day away, so a
\* new job has reached the queue by then.
Age(j) ==
    /\ aged < j
    /\ \A k \in 1..j : status[k] # "none" /\ (k \in Live => k \notin OnTheWay)
    /\ Trouble
    /\ aged' = j
    /\ UNCHANGED <<status, keyed, sendVars, backlog, rec, pageVars, loop, memory,
                   attemptVars, panicked, leaked>>

\* recentPageWindow: a hand-off takes less than five minutes.
WindowEnds ==
    /\ recent /\ cmds = <<>> /\ \A w \in Senders : sender[w] = Idle
    /\ recent' = FALSE
    /\ UNCHANGED <<storeVars, sendVars, backlog, rec, attached, spills, present, backoff,
                   loop, memory, attemptVars, used, leaked>>

BackoffEnds ==
    /\ backoff
    /\ backoff' = FALSE
    /\ UNCHANGED <<storeVars, sendVars, backlog, rec, attached, spills, present, recent,
                   loop, memory, attemptVars, used, leaked>>

-----------------------------------------------------------------------------
Init ==
    /\ status = [j \in Jobs |-> IF j \in Old THEN "pending" ELSE "none"]
    /\ keyed \in Keyings
    /\ aged = 0
    /\ sender = [w \in Senders |-> Idle]
    /\ cmds = <<>> /\ backlog = 0
    /\ rec = [at |-> "moved", todo |-> Old \ keyed, seen |-> {}, last |-> 0,
              count |-> Cardinality(keyed)]
    /\ attached = <<>> /\ spills = <<>> /\ present = {}
    /\ recent = FALSE /\ backoff = FALSE
    /\ loop = "top"
    /\ memory = None /\ inFlight = 0
    /\ running = None /\ finals = None /\ retries = None
    /\ troubles = 0 /\ panicked = FALSE
    /\ leaked = 0

Handing == \E w \in Senders : SetQueueKey(w) \/ Send(w)
Recovering ==
    RecoverJob \/ Recount \/ FirstPage \/ NothingLeft \/ ReserveRest \/ AttachSpill
Dispatching == \E j \in Jobs : Dispatch(j)
ReadDone == \E j \in Jobs : ReadFinal(j) \/ ReadRetry(j)
Looping ==
    \/ LoopTop \/ RefillPage \/ RefillFails
    \/ ReadCmd \/ Sweep \/ Wake
    \/ Dispatching \/ ReadDone
Attempting == \E j \in Jobs : Finish(j) \/ RetryLater(j)

Next ==
    \/ Handing \/ Recovering \/ Looping \/ Attempting
    \/ \E j \in Live : Create(j)
    \/ \E j \in Jobs : Age(j)
    \/ Panic \/ WindowEnds \/ BackoffEnds

\* Goroutines run on, a failed read is tried again, and select does not pass
\* over ready cases, nor the pace over queued jobs, forever.  Each kind of step
\* but the loop's own happens finitely often, so fairness to the unions is
\* enough, and weaker than fairness to each.
Fairness ==
    /\ WF_vars(Recovering \/ Handing \/ Attempting \/ BackoffEnds)
    /\ WF_vars(Looping)
    /\ SF_vars(ReadCmd \/ ReadDone \/ Dispatching)

Spec == Init /\ [][Next]_vars /\ Fairness

-----------------------------------------------------------------------------
TypeOK ==
    /\ status \in [Jobs -> {"none", "pending", "done"}]
    /\ keyed \subseteq Jobs /\ present \subseteq Jobs
    /\ aged \in Jobs \cup {0}
    /\ sender \in [Senders -> [job : Jobs \cup {0}, call : {"none", "key", "send"}]]
    /\ cmds \in Seq(Jobs) /\ {backlog, inFlight} \subseteq Int
    /\ {attached, spills} \subseteq Seq(Source)
    /\ {recent, backoff} \subseteq BOOLEAN
    /\ loop \in {"top", "refill", "select"}
    /\ {memory, running, finals, retries} \subseteq [Jobs -> Nat]
    /\ rec \in [at : {"moved", "page", "first", "attach", "done"}, todo : SUBSET Jobs,
                seen : SUBSET Jobs, last : Nat, count : Nat]
    /\ troubles \in 0..MaxTroubles /\ panicked \in BOOLEAN /\ leaked \in Nat

\* Jobs recovery has still to enqueue or to leave to a source.
LeftToRecovery ==
    CASE rec.at \in {"moved", "page"} -> Old
      [] rec.at \in {"first", "attach"} ->
            rec.todo \cup (IF rec.count > 0 THEN OnDisk(rec.last) ELSE {})
      [] OTHER -> {}

Loadable == UNION {OnDisk(src.after) : src \in Range(spills \o attached)}
InMemory == {j \in Jobs : memory[j] + running[j] + finals[j] + retries[j] > 0}

\* A job that is not finished is held, on the way to the queue or still to be
\* read by recovery or from a source, whatever hand-off is refused and even
\* after a panic of the run loop.
NothingLost ==
    \A j \in Jobs : status[j] = "pending" =>
        j \in InMemory \cup OnTheWay \cup LeftToRecovery \cup Loadable

\* Without a panic the backlog never falls short of the unfinished jobs once
\* recovery is over, and with no job on disk or on the way it is what the
\* queue holds, but for the refused hand-offs of jobs recovery handed over.
BacklogExact ==
    TypeOK /\ (~panicked /\ rec.at = "done" =>
        /\ backlog >= Cardinality({j \in Jobs : status[j] = "pending"})
        /\ OnTheWay = {0} /\ spills \o attached = <<>> => backlog = Held + leaked)

\* Without a panic the queue holds a job once and never runs one whose row is
\* finished, unless recovery read the row of a job that a live sender was
\* handing over.  A moved job the sweep has failed may still be held when its
\* hand-off arrives; it is past its deadline, so it is not dispatched.
NotRunAgain ==
    ~panicked => \A j \in Jobs \ (Live \cap rec.seen) :
        /\ memory[j] + running[j] + finals[j] + retries[j] <= 1
        /\ memory[j] > 0 => status[j] = "pending" \/ QueueExpired(j)

\* Every recovered job and every new one comes to an end, also after a panic.
BacklogDrains == []<>(\A j \in Jobs : status[j] # "pending")
=============================================================================
