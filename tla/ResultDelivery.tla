--------------------------- MODULE ResultDelivery ---------------------------
(***************************************************************************)
(* How the outcome of one job reaches whoever waits for it: the row and    *)
(* result in the store, the broker's subscriber channels, the SSE streams  *)
(* that read them, the direct answer of proxy mode, and the webhook that   *)
(* is sent when no client confirmed the final event.                       *)
(*                                                                         *)
(* `run' follows the goroutine that carries the job to its outcome, `at'   *)
(* the handler of each stream.  One action is one store call, one critical *)
(* section of Broker.mu, or one write to a client.                         *)
(***************************************************************************)
EXTENDS Integers, Sequences

CONSTANTS
    Streams,      \* connections that may follow the job
    Caller,       \* the stream of a proxy request whose direct attempt fails
    Duplicates,   \* streams opened by a duplicate proxy request
    None,
    Buffer,       \* capacity of a subscriber's channel
    MaxRetries,   \* retries the job may use
    Panics,       \* whether an attempt may panic
    MayStop,      \* whether the registry may be closed
    MaxCrashes    \* restarts of the process, a bound

ASSUME DeliveryAssumption ==
    /\ Caller \in Streams
    /\ Duplicates \subseteq Streams \ {Caller}
    /\ Buffer \in Nat \ {0}
    /\ MaxRetries \in Nat
    /\ MaxCrashes \in Nat
    /\ Panics \in BOOLEAN
    /\ MayStop \in BOOLEAN
    /\ None \notin {"completed", "failed", "queued"}

VARIABLES
    row,        \* the status the store holds
    result,     \* whether the store holds the result
    hook,       \* the outcome in the webhook delivery job the store holds
    run,        \* where the goroutine carrying the job is
    way,        \* what finished the job
    attempts,   \* Job.Attempts, 0 again once the job has an outcome
    confirm,    \* Broker.delivered[job]: none, open, or closed by a stream
    subs,       \* Broker.subscribers[job]
    chan,       \* the channel of each stream
    at,         \* where the handler of each stream is
    seen,       \* the status its handler read
    connected,  \* whether its client is still there
    told,       \* the outcome written and flushed to its client
    missed,     \* streams whose full channel dropped the final event
    stopping,   \* Registry.stop is closed
    crashes

storeVars == <<row, result, hook>>
runVars == <<run, way, attempts>>
brokerVars == <<confirm, subs, chan, missed>>
streamVars == <<at, seen, connected, told>>
stopVars == <<stopping, crashes>>
vars == <<storeVars, runVars, brokerVars, streamVars, stopVars>>

Outcomes == {"completed", "failed"}
Events == {"progress"} \cup Outcomes

\* One type invariant.  No subscriber channel holds more than its capacity.
TypeOK ==
    /\ row \in Outcomes \cup {"queued"}
    /\ result \in BOOLEAN
    /\ hook \in Outcomes \cup {None}
    /\ run \in {"direct", "queued", "attempt", "save", "publish", "wait",
                "relay", "hook", "insert", "last", "done", "stopped"}
    /\ way \in {"none", "direct", "execute", "expire", "panic", "overwritten"}
    /\ attempts \in 0 .. MaxRetries
    /\ confirm \in {"none", "open", "closed"}
    /\ subs \in SUBSET Streams
    /\ chan \in [Streams -> Seq(Events)]
    /\ \A s \in Streams : Len(chan[s]) <= Buffer
    /\ at \in [Streams -> {"calling", "out", "read", "dup", "catchup", "loop",
                           "flushed", "leaving", "end"}]
    /\ seen \in [Streams -> Outcomes \cup {"queued"}]
    /\ connected \in [Streams -> BOOLEAN]
    /\ told \in [Streams -> Outcomes \cup {None}]
    /\ missed \in SUBSET Streams
    /\ stopping \in BOOLEAN
    /\ crashes \in 0 .. MaxCrashes

-----------------------------------------------------------------------------
(* The broker. *)

\* Sending e to every subscriber: a full channel drops it.
Send(e) ==
    /\ chan' = [s \in Streams |-> IF s \in subs /\ Len(chan[s]) < Buffer
                                  THEN Append(chan[s], e) ELSE chan[s]]
    /\ missed' = IF e \in Outcomes
                 THEN missed \cup {s \in subs : Len(chan[s]) >= Buffer}
                 ELSE missed

Publish(e) == Send(e) /\ UNCHANGED <<confirm, subs>>

-----------------------------------------------------------------------------
(* The goroutine that carries the job. *)

\* A direct attempt that cannot be used: the caller's connection subscribes,
\* becomes a stream, and the job is dispatched to the queue.
DirectFails ==
    /\ run = "direct"
    /\ run' = "queued"
    /\ subs' = subs \cup {Caller}
    /\ at' = [at EXCEPT ![Caller] = "catchup"]
    /\ UNCHANGED <<storeVars, way, attempts, confirm, chan, missed, seen,
                   connected, told, stopVars>>

Finish(w, o) ==
    /\ row' = o
    /\ way' = w
    /\ run' = IF w = "panic" THEN "hook" ELSE "save"
    /\ attempts' = 0
    /\ UNCHANGED <<result, hook, brokerVars, streamVars, stopVars>>

DirectAnswers == run = "direct" /\ Finish("direct", "completed")

\* failExpiredJob, or failDeadTarget, for a job that is still queued.
Expire == run = "queued" /\ Finish("expire", "failed")

\* The position event of a job in line.
Position ==
    /\ run = "queued"
    /\ Publish("progress")
    /\ UNCHANGED <<storeVars, runVars, streamVars, stopVars>>

Dispatch ==
    /\ run = "queued"
    /\ run' = "attempt"
    /\ Publish("progress")
    /\ UNCHANGED <<storeVars, way, attempts, streamVars, stopVars>>

Answer(o) == run = "attempt" /\ Finish("execute", o)

Retry ==
    /\ run = "attempt"
    /\ attempts < MaxRetries
    /\ attempts' = attempts + 1
    /\ row' = "queued"
    /\ run' = "queued"
    /\ Publish("progress")
    /\ UNCHANGED <<result, hook, way, streamVars, stopVars>>

\* The queue's context is cancelled during the request.
Cancelled ==
    /\ run = "attempt"
    /\ stopping
    /\ row' = "queued"
    /\ run' = "stopped"
    /\ UNCHANGED <<result, hook, way, attempts, brokerVars, streamVars, stopVars>>

\* The recovery of an attempt that panics before it has an outcome: no result is
\* saved and no event sent.
Panic == Panics /\ run = "attempt" /\ Finish("panic", "failed")

\* The recovery of an attempt that panics after it wrote its outcome, in the
\* store, the recorder, the broker, the metrics or EnqueueWebhook: failed is
\* written over it.
LatePanic ==
    /\ Panics /\ way = "execute"
    /\ run \in {"save", "publish", "hook", "insert", "last"}
    /\ row' = "failed"
    /\ run' = "hook"
    /\ way' = IF row = "completed" THEN "overwritten" ELSE "panic"
    /\ UNCHANGED <<result, hook, attempts, brokerVars, streamVars, stopVars>>

\* SaveLocalResult and recordJobResult.
SaveResult ==
    /\ run = "save"
    /\ result' = TRUE
    /\ run' = "publish"
    /\ UNCHANGED <<row, hook, way, attempts, brokerVars, streamVars, stopVars>>

\* Broker.PublishTerminal, up to its wait.
PublishTerminal ==
    /\ run = "publish" /\ way = "execute"
    /\ Send(row)
    /\ confirm' = IF subs = {} THEN "none" ELSE "open"
    /\ run' = IF subs = {} THEN "hook" ELSE "wait"
    /\ UNCHANGED <<storeVars, way, attempts, subs, streamVars, stopVars>>

\* failQueuedJob and AttemptDirect publish without waiting.
PublishFinal ==
    /\ run = "publish" /\ way \in {"expire", "direct"}
    /\ Publish(row)
    /\ run' = IF way = "direct" THEN "relay" ELSE "hook"
    /\ UNCHANGED <<storeVars, way, attempts, streamVars, stopVars>>

Confirmed ==
    /\ run = "wait" /\ confirm = "closed"
    /\ run' = "last"
    /\ confirm' = "none"
    /\ UNCHANGED <<storeVars, way, attempts, subs, chan, missed, streamVars, stopVars>>

\* A slip: the wait has no timeout of its own.
GiveUpUnheard ==
    /\ run = "wait" /\ subs = {}
    /\ run' = "hook"
    /\ confirm' = "none"
    /\ UNCHANGED <<storeVars, way, attempts, subs, chan, missed, streamVars, stopVars>>

\* The wait timed out; select may take this branch of two that are ready.
GiveUp ==
    /\ run = "wait"
    /\ run' = "hook"
    /\ confirm' = "none"
    /\ UNCHANGED <<storeVars, way, attempts, subs, chan, missed, streamVars, stopVars>>

\* proxyJob relays a direct answer, then SettleDirectWebhook.
Relay ==
    /\ run = "relay"
    /\ run' = IF connected[Caller] THEN "done" ELSE "hook"
    /\ told' = [told EXCEPT ![Caller] = IF connected[Caller] THEN row ELSE @]
    /\ at' = [at EXCEPT ![Caller] = "end"]
    /\ UNCHANGED <<storeVars, way, attempts, brokerVars, seen, connected, stopVars>>

\* What follows the webhook: execute still has to read the pacing headers.
AfterHook == IF way = "execute" THEN "last" ELSE "done"

\* EnqueueWebhook: refused once the registry is stopping, else inserted unless
\* the job has one.
HookCheck ==
    /\ run = "hook"
    /\ run' = IF stopping THEN AfterHook ELSE "insert"
    /\ UNCHANGED <<storeVars, way, attempts, brokerVars, streamVars, stopVars>>

HookInsert ==
    /\ run = "insert"
    /\ hook' = IF hook = None THEN row ELSE hook
    /\ run' = AfterHook
    /\ UNCHANGED <<row, result, way, attempts, brokerVars, streamVars, stopVars>>

\* execute returns.
Return ==
    /\ run = "last"
    /\ run' = "done"
    /\ UNCHANGED <<storeVars, way, attempts, brokerVars, streamVars, stopVars>>

-----------------------------------------------------------------------------
(* A stream. *)

\* A slip: SubscribeJob reads the job before it subscribes.
ConnectReadsFirst(s) ==
    /\ at[s] = "out" /\ s \notin Duplicates
    /\ seen' = [seen EXCEPT ![s] = row]
    /\ at' = [at EXCEPT ![s] = "dup"]
    /\ UNCHANGED <<storeVars, runVars, brokerVars, connected, told, stopVars>>

\* SubscribeJob: subscribe, then read the job.
Connect(s) ==
    /\ at[s] = "out" /\ s \notin Duplicates
    /\ subs' = subs \cup {s}
    /\ at' = [at EXCEPT ![s] = "read"]
    /\ UNCHANGED <<storeVars, runVars, confirm, chan, missed, seen, connected,
                   told, stopVars>>

ReadJob(s) ==
    /\ at[s] = "read"
    /\ seen' = [seen EXCEPT ![s] = row]
    /\ at' = [at EXCEPT ![s] = "catchup"]
    /\ UNCHANGED <<storeVars, runVars, brokerVars, connected, told, stopVars>>

\* A duplicate proxy request reads the job in AttemptDirect.  A finished one
\* is answered at once; otherwise streamExistingJob subscribes and goes on
\* with the job as it was read.
DuplicateRead(s) ==
    /\ at[s] = "out" /\ s \in Duplicates
    /\ seen' = [seen EXCEPT ![s] = row]
    /\ at' = [at EXCEPT ![s] = IF row \in Outcomes THEN "end" ELSE "dup"]
    /\ told' = [told EXCEPT ![s] = IF row \in Outcomes /\ connected[s]
                                   THEN row ELSE @]
    /\ UNCHANGED <<storeVars, runVars, brokerVars, connected, stopVars>>

DuplicateSubscribe(s) ==
    /\ at[s] = "dup"
    /\ subs' = subs \cup {s}
    /\ at' = [at EXCEPT ![s] = "catchup"]
    /\ UNCHANGED <<storeVars, runVars, confirm, chan, missed, seen, connected,
                   told, stopVars>>

\* A slip: a finished job ends the stream whether or not its result is stored.
CatchUpEager(s) ==
    /\ at[s] = "catchup"
    /\ at' = [at EXCEPT ![s] = IF seen[s] \in Outcomes THEN "leaving" ELSE "loop"]
    /\ told' = [told EXCEPT ![s] = IF seen[s] \in Outcomes /\ result /\ connected[s]
                                   THEN seen[s] ELSE @]
    /\ UNCHANGED <<storeVars, runVars, brokerVars, seen, connected, stopVars>>

\* The head of streamEvents: the stored result of a finished job ends the
\* stream; without one it waits for the live event.
CatchUp(s) ==
    /\ at[s] = "catchup"
    /\ LET ends == seen[s] \in Outcomes /\ result
       IN /\ at' = [at EXCEPT ![s] = IF ends THEN "leaving" ELSE "loop"]
          /\ told' = [told EXCEPT ![s] = IF ends /\ connected[s] THEN seen[s] ELSE @]
    /\ UNCHANGED <<storeVars, runVars, brokerVars, seen, connected, stopVars>>

\* The loop of streamEvents: one event, written and flushed.
Receive(s) ==
    /\ at[s] = "loop" /\ chan[s] # <<>>
    /\ chan' = [chan EXCEPT ![s] = Tail(@)]
    /\ LET e == Head(chan[s])
       IN /\ at' = [at EXCEPT ![s] = IF e \in Outcomes THEN "flushed" ELSE @]
          /\ told' = [told EXCEPT ![s] = IF e \in Outcomes /\ connected[s] THEN e ELSE @]
    /\ UNCHANGED <<storeVars, runVars, confirm, subs, missed, seen, connected, stopVars>>

\* A slip: the confirmation does not look at the write or the client.
ConfirmAlways(s) ==
    /\ at[s] = "flushed"
    /\ at' = [at EXCEPT ![s] = "leaving"]
    /\ confirm' = IF confirm = "open" THEN "closed" ELSE confirm
    /\ UNCHANGED <<storeVars, runVars, subs, chan, missed, seen, connected, told, stopVars>>

\* ConfirmDelivered, for a final event flushed to a client still connected.
Confirm(s) ==
    /\ at[s] = "flushed"
    /\ at' = [at EXCEPT ![s] = "leaving"]
    /\ confirm' = IF told[s] # None /\ connected[s] /\ confirm = "open"
                  THEN "closed" ELSE confirm
    /\ UNCHANGED <<storeVars, runVars, subs, chan, missed, seen, connected, told, stopVars>>

\* The request's context is done.
Leave(s) ==
    /\ at[s] = "loop" /\ ~connected[s]
    /\ at' = [at EXCEPT ![s] = "leaving"]
    /\ UNCHANGED <<storeVars, runVars, brokerVars, seen, connected, told, stopVars>>

Unsubscribe(s) ==
    /\ at[s] = "leaving"
    /\ at' = [at EXCEPT ![s] = "end"]
    /\ subs' = subs \ {s}
    /\ chan' = [chan EXCEPT ![s] = <<>>]
    /\ UNCHANGED <<storeVars, runVars, confirm, missed, seen, connected, told, stopVars>>

HangUp(s) ==
    /\ connected[s] /\ at[s] \notin {"leaving", "end"}
    /\ connected' = [connected EXCEPT ![s] = FALSE]
    /\ UNCHANGED <<storeVars, runVars, brokerVars, at, seen, told, stopVars>>

-----------------------------------------------------------------------------
(* The process. *)

\* Registry.Close closes its stop channel.
Stop ==
    /\ MayStop /\ ~stopping
    /\ stopping' = TRUE
    /\ UNCHANGED <<storeVars, runVars, brokerVars, streamVars, crashes>>

\* What a restart keeps is the store; the broker and the connections are gone.
Restart ==
    /\ crashes < MaxCrashes
    /\ crashes' = crashes + 1
    /\ stopping' = FALSE
    /\ confirm' = "none"
    /\ subs' = {}
    /\ missed' = {}
    /\ chan' = [s \in Streams |-> <<>>]
    /\ at' = [s \in Streams |-> IF at[s] = "out" THEN "out" ELSE "end"]
    /\ connected' = [s \in Streams |-> connected[s] /\ at[s] = "out"]
    /\ UNCHANGED <<storeVars, way, attempts, seen, told>>

\* RecoverQueuedJobs enqueues the rows that are not finished.
Crash == Restart /\ run' = IF row = "queued" THEN "queued" ELSE "done"

Init ==
    /\ row = "queued" /\ result = FALSE /\ hook = None
    /\ run \in {"direct", "queued"}
    /\ way = "none" /\ attempts = 0
    /\ confirm = "none" /\ subs = {} /\ missed = {}
    /\ chan = [s \in Streams |-> <<>>]
    /\ at = [s \in Streams |-> IF s = Caller /\ run = "direct" THEN "calling" ELSE "out"]
    /\ seen = [s \in Streams |-> "queued"]
    /\ connected = [s \in Streams |-> TRUE]
    /\ told = [s \in Streams |-> None]
    /\ stopping = FALSE /\ crashes = 0

Carry ==
    \/ DirectFails \/ DirectAnswers
    \/ Expire \/ Dispatch \/ Retry \/ Cancelled \/ Panic \/ LatePanic
    \/ \E o \in Outcomes : Answer(o)
    \/ SaveResult \/ PublishTerminal \/ PublishFinal
    \/ Confirmed \/ GiveUp \/ Relay
    \/ HookCheck \/ HookInsert \/ Return

Serve(s) ==
    \/ ReadJob(s) \/ DuplicateSubscribe(s) \/ CatchUp(s)
    \/ Receive(s) \/ Confirm(s) \/ Leave(s) \/ Unsubscribe(s)

Next ==
    \/ Carry \/ Position \/ Stop \/ Crash
    \/ \E s \in Streams : Serve(s) \/ Connect(s) \/ DuplicateRead(s) \/ HangUp(s)

Spec == Init /\ [][Next]_vars

\* Goroutines are scheduled, timers fire, and a stream's writes return.
Fairness ==
    /\ WF_vars(Carry)
    /\ \A s \in Streams : WF_vars(Serve(s))

FairSpec == Spec /\ Fairness

-----------------------------------------------------------------------------
(* Properties. *)

\* What a client or a webhook says of the job still holds: it is the outcome in
\* the row, or the completion that the recovery of a panicking attempt wrote
\* failed over.
Stands(o) == o = row \/ (way = "overwritten" /\ o = "completed")

\* A job whose goroutine is through (execute, failJob, failQueuedJob, the
\* recovery of a panic, or a relayed direct answer) has its webhook stored, or
\* its outcome was flushed to a connected client: the decision to skip the
\* webhook is never wrong, whatever streams come, confirm, hang up and time out
\* meanwhile.  Only a shutdown or a crash between the outcome and the webhook
\* loses it.
OutcomeDelivered ==
    run = "done" /\ ~stopping /\ crashes = 0 =>
        Stands(hook) \/ \E s \in Streams : told[s] = row

\* A client is told only the outcome the store holds, and no restart, retry or
\* shutdown gives the job another one afterwards; only the recovery of a panic
\* late in execute does, which turns a completion that was told into failed.  No
\* stream ends on a client that is still connected without the outcome, also
\* when the stream catches up between the write of the status and the write of
\* the result.
ToldIsStored ==
    /\ TypeOK
    /\ way = "overwritten" => row = "failed"
    /\ \A s \in Streams : told[s] # None => Stands(told[s])
    /\ \A s \in Streams : at[s] \in {"leaving", "end"} /\ connected[s] => Stands(told[s])

\* The goroutine of the job gets through: PublishTerminal never waits for a
\* stream that left, or never confirms.
OutcomeSettles == <>(run \in {"done", "stopped"})

\* A stream of GET /jobs/:id/stream, or of a proxy request that fell back, ends
\* once the job does: SubscribeJob and streamEvents between them see every
\* finish, as an event or in the store.  The exceptions are a full channel that
\* dropped the final event, an attempt that panicked, a shutdown, and a restart,
\* which ends the connection with the process.
StreamEnds ==
    \A s \in Streams \ Duplicates :
        at[s] \in {"read", "catchup", "loop"} ~>
            \/ at[s] = "end" \/ s \in missed
            \/ way \in {"panic", "overwritten"} \/ run = "stopped" \/ crashes > 0

\* The stream a duplicate proxy request gets for the job it named
\* (streamExistingJob) ends like any other stream of that job.
DuplicateStreamEnds ==
    \A s \in Duplicates : at[s] \in {"dup", "catchup", "loop"} ~>
                              at[s] = "end" \/ s \in missed
=============================================================================
