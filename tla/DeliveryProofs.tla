--------------------------- MODULE DeliveryProofs ----------------------------
(***************************************************************************)
(* Proofs about how outcomes leave the instance.                           *)
(*                                                                         *)
(* To the job's client (ResultDelivery): for any streams, buffers, retries *)
(* and restarts, a client is told only the stored outcome, and the outcome *)
(* of a job that is through is delivered or its webhook stored.            *)
(*                                                                         *)
(* To the receiver of the drain journal (DrainMode): for any jobs, batch   *)
(* size and failed deliveries, what a loop is sending is the head of the   *)
(* journal, and a finished job is in the journal until it is sent, with    *)
(* the exceptions the properties name.                                     *)
(***************************************************************************)
EXTENDS ResultDelivery, DrainMode, SequenceTheorems, TLAPS

\* The leaves are first-order and set reasoning except where they say SMT.
USE ZenonT(40)

\* Where the goroutine is while the job has no outcome.
Unfinished == {"direct", "queued", "attempt", "stopped"}

\* Where a stream is once its client has been told, if it was there.
Over == {"flushed", "leaving", "end"}

\* What the streams have heard of an outcome stands: what they read, what is
\* queued for them and what they wrote, which they do once.
Heard(s) ==
    /\ told[s] # None => Stands(told[s]) /\ at[s] \in Over
    /\ seen[s] \in Outcomes => Stands(seen[s])
    /\ \A i \in 1 .. Len(chan[s]) : chan[s][i] \in Outcomes => Stands(chan[s][i])
    /\ at[s] \in Over /\ connected[s] => Stands(told[s])

\* A stored webhook stands; the broker waits for a confirmation only while
\* execute does, before a panic can overwrite what it told; and an execute that
\* has only its return left has a webhook or a client that was told.
Settled ==
    /\ way = "overwritten" => row = "failed"
    /\ hook # None => Stands(hook)
    /\ confirm # "none" => run = "wait"
    /\ run = "wait" => way = "execute"
    /\ confirm = "closed" => \E s \in Streams : told[s] = row
    /\ run = "last" /\ ~stopping /\ crashes = 0 => hook = row \/ \E s \in Streams : told[s] = row

\* The row has an outcome once the goroutine leaves the queue, and a goroutine
\* that is through without the webhook had a client to tell.
IInv ==
    /\ TypeOK
    /\ run \in Unfinished <=> row = "queued"
    /\ \A s \in Streams : Heard(s)
    /\ Settled
    /\ OutcomeDelivered

\* While the row is queued nobody has heard of an outcome.
LEMMA NothingHeard ==
    ASSUME IInv, row = "queued"
    PROVE  /\ hook = None
           /\ confirm = "none"
           /\ \A s \in Streams :
                 /\ told[s] = None /\ seen[s] = "queued"
                 /\ \A i \in 1 .. Len(chan[s]) : chan[s][i] \notin Outcomes
                 /\ at[s] \in Over => ~connected[s]
<1>0. \A o : Stands(o) <=> o = "queued"
  BY DEF IInv, Settled, Stands
<1>1. ASSUME NEW s \in Streams PROVE told[s] = None /\ told[s] # "queued"
  BY <1>0, <1>1, DeliveryAssumption DEF IInv, TypeOK, Heard, Outcomes
<1>2. ASSUME NEW s \in Streams
      PROVE  /\ seen[s] = "queued"
             /\ \A i \in 1 .. Len(chan[s]) : chan[s][i] \notin Outcomes
             /\ at[s] \in Over => ~connected[s]
  BY <1>0, <1>1, <1>2 DEF IInv, TypeOK, Heard, Outcomes
<1>3. hook = None
  BY <1>0 DEF IInv, TypeOK, Settled, Outcomes
<1>4. confirm = "none"
  BY DEF IInv, Settled, Unfinished
<1> QED
  BY <1>1, <1>2, <1>3, <1>4

\* The outcome is written (UpdateStatus): the first the row gets.
LEMMA FinishKeeps ==
    ASSUME IInv, NEW w \in {"direct", "execute", "expire", "panic"}, NEW o \in Outcomes,
           row = "queued", Finish(w, o)
    PROVE  IInv'
<1>1. /\ UNCHANGED <<result, hook, confirm, subs, chan, missed, at, seen, connected,
                     told, stopping, crashes>>
      /\ row' = o /\ way' = w /\ run' \in {"hook", "save"} /\ attempts' = 0
  BY DEF Finish, brokerVars, streamVars, stopVars
<1>a. attempts' \in 0 .. MaxRetries
  BY SMT, <1>1, DeliveryAssumption
<1>2. TypeOK'
  BY <1>1, <1>a DEF IInv, TypeOK
<1>3. ASSUME NEW s \in Streams PROVE Heard(s)'
  BY <1>1, <1>3, NothingHeard DEF Heard, Outcomes
<1>4. (run \in Unfinished <=> row = "queued")'
  BY <1>1 DEF Unfinished, Outcomes
<1>5. Settled'
  BY <1>1, NothingHeard DEF Settled
<1> QED
  BY <1>1, <1>2, <1>3, <1>4, <1>5 DEF IInv, OutcomeDelivered

\* The recovery of a panic writes failed over the outcome of execute: what was
\* told of it, and its webhook, still stand.
LEMMA LatePanicKeeps ==
    ASSUME IInv, LatePanic
    PROVE  IInv'
<1>1. /\ UNCHANGED <<result, hook, attempts, confirm, subs, chan, missed, at, seen, connected,
                     told, stopping, crashes>>
      /\ run \notin Unfinished \cup {"wait"} /\ way = "execute"
      /\ row' = "failed" /\ run' = "hook"
      /\ way' = IF row = "completed" THEN "overwritten" ELSE "panic"
  BY DEF LatePanic, brokerVars, streamVars, stopVars, Unfinished
<1>2. row \in Outcomes
  BY <1>1 DEF IInv, TypeOK
<1>3. \A o : Stands(o) => Stands(o)'
  <2>1. ASSUME NEW o, Stands(o) PROVE o = row'  \/ (way' = "overwritten" /\ o = "completed")
    BY <1>1, <1>2, <2>1 DEF Stands, Outcomes
  <2> QED
    BY <2>1 DEF Stands
<1>4. TypeOK'
  BY <1>1 DEF IInv, TypeOK, Outcomes
<1>5. ASSUME NEW s \in Streams PROVE Heard(s)'
  BY <1>1, <1>3, <1>5 DEF IInv, Heard
<1>6. Settled'
  BY <1>1, <1>3 DEF IInv, Settled
<1>7. (run \in Unfinished <=> row = "queued")'
  BY <1>1 DEF Unfinished
<1>8. OutcomeDelivered'
  BY <1>1 DEF OutcomeDelivered
<1> QED
  BY <1>4, <1>5, <1>6, <1>7, <1>8 DEF IInv

\* The broker sends an event: progress, or the outcome in the row.
LEMMA SendKeeps ==
    ASSUME IInv, NEW e \in Events, e \in Outcomes => e = row, Send(e),
           UNCHANGED <<row, way, at, seen, connected, told>>
    PROVE  /\ chan' \in [Streams -> Seq(Events)]
           /\ \A s \in Streams : Len(chan'[s]) <= Buffer
           /\ missed' \in SUBSET Streams
           /\ \A s \in Streams : Heard(s)'
<1>0. e \in Outcomes => Stands(e)
  BY DEF Stands
<1>1. ASSUME NEW s \in Streams
      PROVE  /\ chan'[s] \in Seq(Events) /\ Len(chan'[s]) <= Buffer
             /\ \A i \in 1 .. Len(chan'[s]) : chan'[s][i] \in Outcomes => Stands(chan'[s][i])
  <2>0. /\ chan[s] \in Seq(Events) /\ Len(chan[s]) <= Buffer /\ Len(chan[s]) \in Nat
        /\ \A i \in 1 .. Len(chan[s]) : chan[s][i] \in Outcomes => Stands(chan[s][i])
    BY SMT DEF IInv, TypeOK, Heard
  <2>1. CASE chan'[s] = chan[s]
    BY <2>0, <2>1
  <2>2. CASE Len(chan[s]) < Buffer /\ chan'[s] = Append(chan[s], e)
    <3>1. /\ chan'[s] \in Seq(Events) /\ Len(chan'[s]) = Len(chan[s]) + 1
          /\ \A i \in 1 .. Len(chan'[s]) : chan'[s][i] = IF i = Len(chan[s]) + 1 THEN e ELSE chan[s][i]
      BY SMT, <2>0, <2>2
    <3>2. Len(chan'[s]) <= Buffer
      BY SMT, <2>0, <2>2, <3>1, DeliveryAssumption
    <3>3. \A i \in 1 .. Len(chan'[s]) : i = Len(chan[s]) + 1 \/ i \in 1 .. Len(chan[s])
      BY SMT, <2>0, <3>1
    <3> QED
      BY <1>0, <2>0, <3>1, <3>2, <3>3
  <2> QED
    BY <2>1, <2>2 DEF Send
<1>2. chan' = [s \in Streams |-> chan'[s]]
  BY DEF Send
<1>3. chan' \in [Streams -> Seq(Events)] /\ \A s \in Streams : Len(chan'[s]) <= Buffer
  BY <1>1, <1>2
<1>4. missed' \in SUBSET Streams
  BY DEF Send, IInv, TypeOK
<1>5. ASSUME NEW s \in Streams PROVE Heard(s)'
  <2>1. \A o : Stands(o)' <=> Stands(o)
    BY DEF Stands
  <2> QED
    BY <1>1, <1>5, <2>1 DEF IInv, Heard
<1> QED
  BY <1>3, <1>4, <1>5

\* What is left of the steps of the goroutine once the streams are dealt with.
LEMMA CarryKeeps ==
    ASSUME IInv, TypeOK', \A s \in Streams : Heard(s)', UNCHANGED row,
           run' \in Unfinished <=> run \in Unfinished, Settled', OutcomeDelivered'
    PROVE  IInv'
  BY DEF IInv

\* The steps of the goroutine that carries the job.
LEMMA CarryStep ==
    ASSUME IInv, Carry \/ Position
    PROVE  IInv'
<1>t. TypeOK /\ \A s \in Streams : Heard(s)
  BY DEF IInv
<1>u. run \in Unfinished <=> row = "queued"
  BY DEF IInv
<1>h. ASSUME UNCHANGED <<row, way, chan, at, seen, connected, told>> PROVE \A s \in Streams : Heard(s)'
  BY <1>t, <1>h DEF Heard, Stands
<1>n. run # "wait" => confirm = "none"
  BY DEF IInv, Settled
<1>1. CASE DirectAnswers \/ Expire \/ Panic \/ \E o \in Outcomes : Answer(o)
  <2>1. row = "queued" /\ \E w \in {"direct", "execute", "expire", "panic"}, o \in Outcomes : Finish(w, o)
    BY <1>1, <1>u DEF DirectAnswers, Expire, Panic, Answer, Unfinished, Outcomes
  <2> QED
    BY <2>1, FinishKeeps
<1>2. CASE DirectFails
  <2>1. /\ UNCHANGED <<row, result, hook, way, attempts, confirm, chan, missed, seen, connected, told,
                       stopping, crashes>>
        /\ run = "direct" /\ run' = "queued" /\ subs' = subs \cup {Caller}
        /\ at' = [at EXCEPT ![Caller] = "catchup"]
    BY <1>2 DEF DirectFails, storeVars, stopVars
  <2>2. TypeOK'
    BY <1>t, <2>1, DeliveryAssumption DEF TypeOK
  <2>3. ASSUME NEW s \in Streams PROVE Heard(s)'
    <3>1. at'[s] = at[s] \/ at'[s] = "catchup"
      BY <1>t, <2>1 DEF TypeOK
    <3>2. /\ told[s] = None /\ seen[s] \notin Outcomes
          /\ \A i \in 1 .. Len(chan[s]) : chan[s][i] \notin Outcomes
          /\ at[s] \in Over => ~connected[s]
      BY <1>u, <2>1, NothingHeard DEF Unfinished, Outcomes
    <3> QED
      BY <2>1, <3>1, <3>2 DEF Heard, Over
  <2>4. Settled'
    BY <1>u, <2>1, NothingHeard DEF IInv, Settled, Unfinished
  <2> QED
    BY <2>1, <2>2, <2>3, <2>4, CarryKeeps DEF OutcomeDelivered, Unfinished
<1>3. CASE Position \/ Dispatch \/ Retry
  <2>1. /\ UNCHANGED <<row, result, hook, way, confirm, subs, at, seen, connected, told,
                       stopping, crashes>>
        /\ Send("progress") /\ run \in Unfinished /\ run' \in {"queued", "attempt"}
        /\ attempts' \in 0 .. MaxRetries
    <3>1. CASE Position
      BY <1>t, <3>1 DEF Position, Publish, storeVars, runVars, streamVars, stopVars, Unfinished, TypeOK
    <3>2. CASE Dispatch
      BY <1>t, <3>2 DEF Dispatch, Publish, storeVars, streamVars, stopVars, Unfinished, TypeOK
    <3>3. CASE Retry
      BY SMT, <1>t, <1>u, <3>3, DeliveryAssumption DEF Retry, Publish, streamVars, stopVars, Unfinished, TypeOK
    <3> QED
      BY <1>3, <3>1, <3>2, <3>3
  <2>2. /\ chan' \in [Streams -> Seq(Events)]
        /\ \A s \in Streams : Len(chan'[s]) <= Buffer
        /\ missed' \in SUBSET Streams
        /\ \A s \in Streams : Heard(s)'
    <3>1. "progress" \in Events /\ "progress" \notin Outcomes
      BY DEF Events, Outcomes
    <3> QED
      BY <2>1, <3>1, SendKeeps
  <2>3. TypeOK'
    BY <1>t, <2>1, <2>2 DEF TypeOK
  <2>4. Settled'
    BY <1>u, <2>1, NothingHeard DEF IInv, Settled
  <2> QED
    BY <2>1, <2>2, <2>3, <2>4, CarryKeeps DEF OutcomeDelivered, Unfinished
<1>4. CASE Cancelled
  <2>1. /\ UNCHANGED <<row, result, hook, way, attempts, confirm, subs, chan, missed, at, seen, connected,
                       told, stopping, crashes>>
        /\ run \in Unfinished /\ run' = "stopped"
    BY <1>u, <1>4 DEF Cancelled, brokerVars, streamVars, stopVars, Unfinished
  <2>2. TypeOK'
    BY <1>t, <2>1 DEF TypeOK
  <2>3. Settled'
    BY <1>u, <2>1, NothingHeard DEF IInv, Settled
  <2> QED
    BY <1>h, <2>1, <2>2, <2>3, CarryKeeps DEF OutcomeDelivered, Unfinished
<1>5. CASE SaveResult
  <2>1. /\ UNCHANGED <<row, hook, way, attempts, confirm, subs, chan, missed, at, seen, connected,
                       told, stopping, crashes>>
        /\ result' = TRUE /\ run = "save" /\ run' = "publish"
    BY <1>5 DEF SaveResult, brokerVars, streamVars, stopVars
  <2>2. TypeOK'
    BY <1>t, <2>1 DEF TypeOK
  <2>3. Settled'
    BY <2>1 DEF IInv, Settled, Stands
  <2> QED
    BY <1>h, <2>1, <2>2, <2>3, CarryKeeps DEF OutcomeDelivered, Unfinished
<1>6. CASE PublishTerminal \/ PublishFinal
  <2>1. /\ UNCHANGED <<row, result, hook, way, attempts, subs, at, seen, connected, told,
                       stopping, crashes>>
        /\ Send(row) /\ run = "publish" /\ run' \in {"hook", "wait", "relay"}
        /\ confirm' \in {confirm, "none", "open"}
        /\ run' = "wait" => way = "execute"
        /\ confirm' = "open" => run' = "wait"
    <3>1. CASE PublishTerminal
      BY <3>1 DEF PublishTerminal, storeVars, streamVars, stopVars
    <3>2. CASE PublishFinal
      BY <1>n, <3>2 DEF PublishFinal, Publish, storeVars, streamVars, stopVars
    <3> QED
      BY <1>6, <3>1, <3>2
  <2>2. /\ chan' \in [Streams -> Seq(Events)]
        /\ \A s \in Streams : Len(chan'[s]) <= Buffer
        /\ missed' \in SUBSET Streams
        /\ \A s \in Streams : Heard(s)'
    <3>1. row \in Outcomes
      BY <1>t, <1>u, <2>1 DEF TypeOK, Unfinished
    <3>2. row \in Events
      BY <3>1 DEF Events
    <3> QED
      BY <2>1, <3>2, SendKeeps
  <2>3. TypeOK'
    BY <1>t, <2>1, <2>2 DEF TypeOK
  <2>4. Settled'
    BY <1>n, <2>1 DEF IInv, Settled, Stands
  <2> QED
    BY <2>1, <2>2, <2>3, <2>4, CarryKeeps DEF OutcomeDelivered, Unfinished
<1>7. CASE Confirmed \/ GiveUp
  <2>1. /\ UNCHANGED <<row, result, hook, way, attempts, subs, chan, missed, at, seen, connected, told,
                       stopping, crashes>>
        /\ run = "wait" /\ confirm' = "none"
        /\ run' = "hook" \/ (run' = "last" /\ confirm = "closed")
    BY <1>7 DEF Confirmed, GiveUp, storeVars, streamVars, stopVars
  <2>2. TypeOK'
    BY <1>t, <2>1 DEF TypeOK
  <2>3. Settled'
    BY <2>1 DEF IInv, Settled, Stands
  <2> QED
    BY <1>h, <2>1, <2>2, <2>3, CarryKeeps DEF OutcomeDelivered, Unfinished
<1>8. CASE HookCheck \/ HookInsert
  <2>1. /\ UNCHANGED <<row, result, way, attempts, confirm, subs, chan, missed, at, seen, connected, told,
                       stopping, crashes>>
        /\ run \in {"hook", "insert"}
        /\ hook' = hook \/ (hook = None /\ hook' = row)
        /\ run' \in {"insert", "last", "done"}
        /\ run' = "last" => way = "execute"
        /\ run' # "insert" => stopping \/ hook' # None
    <3>1. CASE HookCheck
      BY <3>1 DEF HookCheck, AfterHook, storeVars, brokerVars, streamVars, stopVars
    <3>2. CASE HookInsert
      <4>1. row # None
        BY <1>t, DeliveryAssumption DEF TypeOK, Outcomes
      <4> QED
        BY <3>2, <4>1 DEF HookInsert, AfterHook, storeVars, brokerVars, streamVars, stopVars
    <3> QED
      BY <1>8, <3>1, <3>2
  <2>2. row \in Outcomes
    BY <1>t, <1>u, <2>1 DEF TypeOK, Unfinished
  <2>3. TypeOK'
    BY <1>t, <2>1, <2>2 DEF TypeOK
  <2>4. hook' # None => Stands(hook')
    BY <2>1 DEF IInv, Settled, Stands
  <2>5. Settled'
    <3>1. run' = "last" /\ hook' # None => hook' = row
      BY <2>1, <2>4 DEF Stands
    <3> QED
      BY <1>n, <2>1, <2>4, <3>1 DEF IInv, Settled, Stands
  <2>6. OutcomeDelivered'
    BY <2>1, <2>4 DEF OutcomeDelivered, Stands
  <2> QED
    BY <1>h, <2>1, <2>3, <2>5, <2>6, CarryKeeps DEF Unfinished
<1>9. CASE Relay
  <2>1. /\ UNCHANGED <<row, result, hook, way, attempts, confirm, subs, chan, missed, seen, connected,
                       stopping, crashes>>
        /\ run = "relay" /\ run' = IF connected[Caller] THEN "done" ELSE "hook"
        /\ told' = [told EXCEPT ![Caller] = IF connected[Caller] THEN row ELSE @]
        /\ at' = [at EXCEPT ![Caller] = "end"]
    BY <1>9 DEF Relay, storeVars, brokerVars, stopVars
  <2>2. row \in Outcomes /\ Caller \in Streams
    BY <1>t, <1>u, <2>1, DeliveryAssumption DEF TypeOK, Unfinished
  <2>3. /\ told' \in [Streams -> Outcomes \cup {None}]
        /\ told'[Caller] = IF connected[Caller] THEN row ELSE told[Caller]
        /\ \A s \in Streams \ {Caller} : told'[s] = told[s]
    BY <1>t, <2>1, <2>2 DEF TypeOK
  <2>4. /\ at'[Caller] = "end" /\ \A s \in Streams \ {Caller} : at'[s] = at[s]
        /\ at' \in [Streams -> {"calling", "out", "read", "dup", "catchup", "loop",
                                "flushed", "leaving", "end"}]
    BY <1>t, <2>1, <2>2 DEF TypeOK
  <2>5. TypeOK'
    BY <1>t, <2>1, <2>3, <2>4 DEF TypeOK
  <2>6. ASSUME NEW s \in Streams PROVE Heard(s)'
    <3>1. \A o : (Stands(o)' <=> Stands(o))
      BY <2>1 DEF Stands
    <3>2. Stands(row)
      BY DEF Stands
    <3>3. CASE s = Caller
      BY <1>t, <2>1, <2>2, <2>3, <2>4, <3>1, <3>2, <3>3 DEF Heard, Over
    <3>4. CASE s # Caller
      BY <1>t, <2>1, <2>3, <2>4, <3>1, <3>4 DEF Heard
    <3> QED
      BY <3>3, <3>4
  <2>7. Settled'
    BY <1>n, <2>1 DEF IInv, Settled, Stands
  <2>8. OutcomeDelivered'
    BY <2>1, <2>2, <2>3 DEF OutcomeDelivered
  <2>9. (run \in Unfinished <=> row = "queued")'
    BY <1>u, <2>1 DEF Unfinished
  <2> QED
    BY <2>5, <2>6, <2>7, <2>8, <2>9 DEF IInv
<1>10. CASE Return
  <2>1. /\ UNCHANGED <<row, result, hook, way, attempts, confirm, subs, chan, missed, at, seen, connected,
                       told, stopping, crashes>>
        /\ run = "last" /\ run' = "done"
    BY <1>10 DEF Return, storeVars, brokerVars, streamVars, stopVars
  <2>2. TypeOK'
    BY <1>t, <2>1 DEF TypeOK
  <2>3. Settled'
    BY <1>n, <2>1 DEF IInv, Settled, Stands
  <2>4. OutcomeDelivered'
    BY <2>1 DEF IInv, Settled, OutcomeDelivered, Stands
  <2> QED
    BY <1>h, <2>1, <2>2, <2>3, <2>4, CarryKeeps DEF Unfinished
<1> QED
  BY <1>1, <1>2, <1>3, <1>4, <1>5, <1>6, <1>7, <1>8, <1>9, <1>10, LatePanicKeeps DEF Carry

\* Where the handler of a stream can be.
Places == {"calling", "out", "read", "dup", "catchup", "loop", "flushed", "leaving", "end"}

\* A stream's step: what it writes to its client stands, and only a client it
\* wrote that to confirms.
LEMMA StreamKeeps ==
    ASSUME IInv, NEW s \in Streams, UNCHANGED <<storeVars, runVars, missed, stopVars>>,
           at' = [at EXCEPT ![s] = at'[s]], at'[s] \in Places,
           seen' = [seen EXCEPT ![s] = seen'[s]], seen'[s] \in {seen[s], row},
           connected' = [connected EXCEPT ![s] = connected'[s]], connected'[s] \in BOOLEAN,
           told' = [told EXCEPT ![s] = told'[s]],
           told'[s] = told[s] \/ (told[s] = None /\ told'[s] \in Outcomes /\ Stands(told'[s])),
           told'[s] # None => at'[s] \in Over,
           chan' = [chan EXCEPT ![s] = chan'[s]], chan'[s] \in Seq(Events), Len(chan'[s]) <= Buffer,
           \A i \in 1 .. Len(chan'[s]) : chan'[s][i] \in Outcomes => Stands(chan'[s][i]),
           subs' \in SUBSET Streams,
           at'[s] \in Over /\ connected'[s] => Stands(told'[s]),
           confirm' = confirm \/ (confirm = "open" /\ confirm' = "closed" /\ told'[s] # None)
    PROVE  IInv'
<1>t. TypeOK /\ \A x \in Streams : Heard(x)
  BY DEF IInv
<1>0. UNCHANGED <<row, result, hook, run, way, attempts, missed, stopping, crashes>>
  BY DEF storeVars, runVars, stopVars
<1>1. \A x \in Streams \ {s} : /\ at'[x] = at[x] /\ seen'[x] = seen[x] /\ told'[x] = told[x]
                            /\ connected'[x] = connected[x] /\ chan'[x] = chan[x]
  BY <1>t DEF TypeOK
<1>2. TypeOK'
  <2>1. at' \in [Streams -> Places] /\ connected' \in [Streams -> BOOLEAN]
    BY <1>t DEF TypeOK, Places
  <2>2. seen' \in [Streams -> Outcomes \cup {"queued"}]
    <3>1. seen \in [Streams -> Outcomes \cup {"queued"}] /\ row \in Outcomes \cup {"queued"}
      BY <1>t DEF TypeOK
    <3>2. seen'[s] \in Outcomes \cup {"queued"}
      BY <3>1
    <3> QED
      BY <3>1, <3>2
  <2>3. told' \in [Streams -> Outcomes \cup {None}]
    <3>1. told \in [Streams -> Outcomes \cup {None}]
      BY <1>t DEF TypeOK
    <3>2. told'[s] \in Outcomes \cup {None}
      BY <3>1
    <3> QED
      BY <3>1, <3>2
  <2>4. chan' \in [Streams -> Seq(Events)] /\ \A x \in Streams : Len(chan'[x]) <= Buffer
    BY <1>t, <1>1 DEF TypeOK
  <2>5. confirm' \in {"none", "open", "closed"}
    BY <1>t DEF TypeOK
  <2> QED
    BY <1>t, <1>0, <2>1, <2>2, <2>3, <2>4, <2>5 DEF TypeOK, Places
<1>r. \A o : (Stands(o)' <=> Stands(o))
  BY <1>0 DEF Stands
<1>3. Heard(s)'
  <2>1. told'[s] # None => Stands(told'[s])
    BY <1>t DEF Heard
  <2>2. seen'[s] \in Outcomes => Stands(seen'[s])
    BY <1>t DEF Heard, Stands
  <2> QED
    BY <1>r, <2>1, <2>2 DEF Heard
<1>4. ASSUME NEW x \in Streams \ {s} PROVE Heard(x)'
  BY <1>t, <1>r, <1>1 DEF Heard
<1>5. \A x \in Streams : told[x] = row => told'[x] = row
  <2>1. row # None
    BY <1>t, DeliveryAssumption DEF TypeOK, Outcomes
  <2> QED
    BY <1>1, <2>1
<1>6. Settled'
  <2>1. (confirm = "closed" => \E x \in Streams : told[x] = row)'
    <3>1. CASE confirm' = confirm
      BY <1>0, <1>5, <3>1 DEF IInv, Settled
    <3>2. CASE confirm = "open" /\ told'[s] # None
      <4>1. way = "execute"
        BY <3>2 DEF IInv, Settled
      <4>2. Stands(told'[s])
        BY <1>3, <1>r, <3>2 DEF Heard
      <4> QED
        BY <1>0, <4>1, <4>2 DEF Stands
    <3> QED
      BY <3>1, <3>2
  <2>2. (run = "last" /\ ~stopping /\ crashes = 0 => hook = row \/ \E x \in Streams : told[x] = row)'
    BY <1>0, <1>5 DEF IInv, Settled
  <2>3. confirm' # "none" => run = "wait"
    BY DEF IInv, Settled
  <2> QED
    BY <1>0, <1>r, <2>1, <2>2, <2>3 DEF IInv, Settled
<1>7. OutcomeDelivered'
  BY <1>0, <1>r, <1>5 DEF IInv, OutcomeDelivered
<1>8. (run \in Unfinished <=> row = "queued")'
  BY <1>0 DEF IInv
<1> QED
  BY <1>2, <1>3, <1>4, <1>6, <1>7, <1>8 DEF IInv

\* The steps of a stream and of its client.
LEMMA StreamStep ==
    ASSUME IInv, NEW s \in Streams, Serve(s) \/ Connect(s) \/ DuplicateRead(s) \/ HangUp(s)
    PROVE  IInv'
<1>t. TypeOK /\ Heard(s)
  BY DEF IInv
<1>a. at' = at => at' = [at EXCEPT ![s] = at'[s]] /\ at'[s] \in Places
  BY <1>t DEF TypeOK, Places
<1>s. seen' = seen => seen' = [seen EXCEPT ![s] = seen'[s]] /\ seen'[s] = seen[s]
  BY <1>t DEF TypeOK
<1>c. connected' = connected =>
         connected' = [connected EXCEPT ![s] = connected'[s]] /\ connected'[s] \in BOOLEAN
  BY <1>t DEF TypeOK
<1>d. told' = told => told' = [told EXCEPT ![s] = told'[s]] /\ told'[s] = told[s]
  BY <1>t DEF TypeOK
<1>q. chan' = chan =>
         /\ chan' = [chan EXCEPT ![s] = chan'[s]] /\ chan'[s] \in Seq(Events) /\ Len(chan'[s]) <= Buffer
         /\ \A i \in 1 .. Len(chan'[s]) : chan'[s][i] \in Outcomes => Stands(chan'[s][i])
  BY <1>t DEF TypeOK, Heard
<1>f. ASSUME NEW p \in Places, at' = [at EXCEPT ![s] = p]
      PROVE  at' = [at EXCEPT ![s] = at'[s]] /\ at'[s] \in Places /\ at'[s] = p
  BY <1>t, <1>f DEF TypeOK
<1>g. ASSUME NEW o, told' = [told EXCEPT ![s] = o]
      PROVE  told' = [told EXCEPT ![s] = told'[s]] /\ told'[s] = o
  BY <1>t, <1>g DEF TypeOK
<1>r. ASSUME seen' = [seen EXCEPT ![s] = row]
      PROVE  seen' = [seen EXCEPT ![s] = seen'[s]] /\ seen'[s] \in {seen[s], row}
  BY <1>t, <1>r DEF TypeOK
<1>n. at[s] \notin Over => told[s] = None
  BY <1>t DEF Heard
<1>w. Stands(row)
  BY DEF Stands
<1>1. CASE Connect(s) \/ DuplicateSubscribe(s)
  <2>1. /\ UNCHANGED <<storeVars, runVars, confirm, chan, missed, seen, connected, told, stopVars>>
        /\ subs' \in SUBSET Streams /\ at[s] \in {"out", "dup"}
        /\ at' = [at EXCEPT ![s] = "read"] \/ at' = [at EXCEPT ![s] = "catchup"]
    BY <1>t, <1>1 DEF Connect, DuplicateSubscribe, TypeOK
  <2>2. at' = [at EXCEPT ![s] = at'[s]] /\ at'[s] \in Places /\ at'[s] \in {"read", "catchup"}
    BY <1>f, <2>1 DEF Places
  <2> QED
    BY <1>n, <1>s, <1>c, <1>d, <1>q, <2>1, <2>2, StreamKeeps DEF Over
<1>2. CASE ReadJob(s)
  <2>1. /\ UNCHANGED <<storeVars, runVars, confirm, subs, chan, missed, connected, told, stopVars>>
        /\ subs' \in SUBSET Streams /\ at[s] = "read"
        /\ seen' = [seen EXCEPT ![s] = row] /\ at' = [at EXCEPT ![s] = "catchup"]
    BY <1>t, <1>2 DEF ReadJob, brokerVars, TypeOK
  <2>2. at' = [at EXCEPT ![s] = at'[s]] /\ at'[s] \in Places /\ at'[s] = "catchup"
    BY <1>f, <2>1 DEF Places
  <2> QED
    BY <1>n, <1>r, <1>c, <1>d, <1>q, <2>1, <2>2, StreamKeeps DEF Over
<1>3. CASE DuplicateRead(s)
  <2>1. /\ UNCHANGED <<storeVars, runVars, confirm, subs, chan, missed, connected, stopVars>>
        /\ subs' \in SUBSET Streams /\ at[s] = "out"
        /\ seen' = [seen EXCEPT ![s] = row]
        /\ at' = [at EXCEPT ![s] = IF row \in Outcomes THEN "end" ELSE "dup"]
        /\ told' = [told EXCEPT ![s] = IF row \in Outcomes /\ connected[s] THEN row ELSE told[s]]
    BY <1>t, <1>3 DEF DuplicateRead, brokerVars, TypeOK
  <2>2. /\ at' = [at EXCEPT ![s] = at'[s]] /\ at'[s] \in Places
        /\ at'[s] = IF row \in Outcomes THEN "end" ELSE "dup"
    BY <1>f, <2>1 DEF Places
  <2>3. /\ told' = [told EXCEPT ![s] = told'[s]]
        /\ told'[s] = IF row \in Outcomes /\ connected[s] THEN row ELSE told[s]
    BY <1>g, <2>1
  <2>4. told'[s] = told[s] \/ (told[s] = None /\ told'[s] \in Outcomes /\ Stands(told'[s]))
    BY <1>n, <1>w, <2>1, <2>3 DEF Over
  <2>5. /\ at'[s] \in Over /\ connected'[s] => Stands(told'[s])
        /\ told'[s] # None => at'[s] \in Over
    <3>1. told[s] = None /\ connected'[s] = connected[s]
      BY <1>n, <2>1 DEF Over
    <3>2. CASE row \in Outcomes
      BY <1>w, <2>2, <2>3, <3>1, <3>2 DEF Over
    <3>3. CASE row \notin Outcomes
      BY <2>2, <2>3, <3>1, <3>3 DEF Over
    <3> QED
      BY <3>2, <3>3
  <2> QED
    BY <1>r, <1>c, <1>q, <2>1, <2>2, <2>3, <2>4, <2>5, StreamKeeps
<1>4. CASE CatchUp(s)
  <2> DEFINE ends == seen[s] \in Outcomes /\ result
  <2>1. /\ UNCHANGED <<storeVars, runVars, confirm, subs, chan, missed, seen, connected, stopVars>>
        /\ subs' \in SUBSET Streams /\ at[s] = "catchup"
        /\ at' = [at EXCEPT ![s] = IF ends THEN "leaving" ELSE "loop"]
        /\ told' = [told EXCEPT ![s] = IF ends /\ connected[s] THEN seen[s] ELSE told[s]]
    BY <1>t, <1>4 DEF CatchUp, brokerVars, TypeOK
  <2>2. ends => Stands(seen[s]) /\ seen[s] \in Outcomes
    BY <1>t DEF Heard
  <2> HIDE DEF ends
  <2>3. /\ at' = [at EXCEPT ![s] = at'[s]] /\ at'[s] \in Places
        /\ at'[s] = IF ends THEN "leaving" ELSE "loop"
    BY <1>f, <2>1 DEF Places
  <2>4. /\ told' = [told EXCEPT ![s] = told'[s]]
        /\ told'[s] = IF ends /\ connected[s] THEN seen[s] ELSE told[s]
    BY <1>g, <2>1
  <2>5. told'[s] = told[s] \/ (told[s] = None /\ told'[s] \in Outcomes /\ Stands(told'[s]))
    BY <1>n, <2>1, <2>2, <2>4 DEF Over
  <2>6. /\ at'[s] \in Over /\ connected'[s] => Stands(told'[s])
        /\ told'[s] # None => at'[s] \in Over
    <3>1. told[s] = None /\ connected'[s] = connected[s]
      BY <1>n, <2>1 DEF Over
    <3>2. CASE ends
      BY <2>2, <2>3, <2>4, <3>1, <3>2 DEF Over
    <3>3. CASE ~ends
      BY <2>3, <2>4, <3>1, <3>3 DEF Over
    <3> QED
      BY <3>2, <3>3
  <2> QED
    BY <1>s, <1>c, <1>q, <2>1, <2>3, <2>4, <2>5, <2>6, StreamKeeps
<1>5. CASE Receive(s)
  <2> DEFINE e == Head(chan[s])
             q == Tail(chan[s])
  <2>1. /\ UNCHANGED <<storeVars, runVars, confirm, subs, missed, seen, connected, stopVars>>
        /\ subs' \in SUBSET Streams /\ at[s] = "loop" /\ chan[s] # <<>>
        /\ chan' = [chan EXCEPT ![s] = q]
        /\ at' = [at EXCEPT ![s] = IF e \in Outcomes THEN "flushed" ELSE "loop"]
        /\ told' = [told EXCEPT ![s] = IF e \in Outcomes /\ connected[s] THEN e ELSE told[s]]
    BY <1>t, <1>5 DEF Receive, TypeOK
  <2>c. /\ chan[s] \in Seq(Events) /\ Len(chan[s]) <= Buffer
        /\ \A i \in 1 .. Len(chan[s]) : chan[s][i] \in Outcomes => Stands(chan[s][i])
    BY <1>t DEF TypeOK, Heard
  <2>2. /\ q \in Seq(Events) /\ Len(q) <= Buffer
        /\ \A i \in 1 .. Len(q) : q[i] \in Outcomes => Stands(q[i])
        /\ e \in Outcomes => Stands(e)
    <3>1. Len(chan[s]) \in Nat /\ Len(chan[s]) >= 1
      BY SMT, <2>c, <2>1
    <3>2. e = chan[s][1] /\ q \in Seq(Events) /\ Len(q) = Len(chan[s]) - 1
      BY SMT, <2>c, <2>1
    <3>3. \A i \in 1 .. Len(q) : q[i] = chan[s][i + 1] /\ i + 1 \in 1 .. Len(chan[s])
      BY SMT, <2>c, <2>1
    <3>4. Len(q) <= Buffer
      BY SMT, <2>c, <3>1, <3>2, DeliveryAssumption
    <3> HIDE DEF e, q
    <3>5. ASSUME NEW i \in 1 .. Len(q), q[i] \in Outcomes PROVE Stands(q[i])
      BY <2>c, <3>3, <3>5
    <3>6. e \in Outcomes => Stands(e)
      <4>1. 1 \in 1 .. Len(chan[s])
        BY SMT, <3>1
      <4> QED
        BY <2>c, <3>2, <4>1
    <3> QED
      BY <3>2, <3>4, <3>5, <3>6
  <2> HIDE DEF e, q
  <2>3. chan' = [chan EXCEPT ![s] = chan'[s]] /\ chan'[s] = q
    BY <1>t, <2>1 DEF TypeOK
  <2>4. /\ at' = [at EXCEPT ![s] = at'[s]] /\ at'[s] \in Places
        /\ at'[s] = IF e \in Outcomes THEN "flushed" ELSE "loop"
    BY <1>f, <2>1 DEF Places
  <2>5. /\ told' = [told EXCEPT ![s] = told'[s]]
        /\ told'[s] = IF e \in Outcomes /\ connected[s] THEN e ELSE told[s]
    BY <1>g, <2>1
  <2>6. told'[s] = told[s] \/ (told[s] = None /\ told'[s] \in Outcomes /\ Stands(told'[s]))
    BY <1>n, <2>1, <2>2, <2>5 DEF Over
  <2>7. /\ at'[s] \in Over /\ connected'[s] => Stands(told'[s])
        /\ told'[s] # None => at'[s] \in Over
    BY <1>n, <2>1, <2>2, <2>4, <2>5 DEF Over
  <2>8. /\ chan'[s] \in Seq(Events) /\ Len(chan'[s]) <= Buffer
        /\ \A i \in 1 .. Len(chan'[s]) : chan'[s][i] \in Outcomes => Stands(chan'[s][i])
    BY <2>2, <2>3
  <2> QED
    BY <1>s, <1>c, <2>1, <2>3, <2>4, <2>5, <2>6, <2>7, <2>8, StreamKeeps
<1>6. CASE Confirm(s)
  <2>1. /\ UNCHANGED <<storeVars, runVars, subs, chan, missed, seen, connected, told, stopVars>>
        /\ subs' \in SUBSET Streams /\ at[s] = "flushed"
        /\ at' = [at EXCEPT ![s] = "leaving"]
        /\ confirm' = confirm \/ (confirm = "open" /\ confirm' = "closed" /\ told[s] # None)
    BY <1>t, <1>6 DEF Confirm, TypeOK
  <2>2. connected[s] => Stands(told[s])
    BY <1>t, <2>1 DEF Heard, Over
  <2>3. at' = [at EXCEPT ![s] = at'[s]] /\ at'[s] \in Places /\ at'[s] \in Over
    BY <1>f, <2>1 DEF Places, Over
  <2> QED
    BY <1>s, <1>c, <1>d, <1>q, <2>1, <2>2, <2>3, StreamKeeps
<1>7. CASE Leave(s)
  <2>1. /\ UNCHANGED <<storeVars, runVars, confirm, subs, chan, missed, seen, connected, told, stopVars>>
        /\ subs' \in SUBSET Streams /\ ~connected[s]
        /\ at' = [at EXCEPT ![s] = "leaving"]
    BY <1>t, <1>7 DEF Leave, brokerVars, TypeOK
  <2>2. at' = [at EXCEPT ![s] = at'[s]] /\ at'[s] \in Places /\ at'[s] \in Over
    BY <1>f, <2>1 DEF Places, Over
  <2> QED
    BY <1>s, <1>c, <1>d, <1>q, <2>1, <2>2, StreamKeeps
<1>8. CASE Unsubscribe(s)
  <2>1. /\ UNCHANGED <<storeVars, runVars, confirm, missed, seen, connected, told, stopVars>>
        /\ subs' \in SUBSET Streams /\ at[s] = "leaving"
        /\ at' = [at EXCEPT ![s] = "end"] /\ chan' = [chan EXCEPT ![s] = <<>>]
    BY <1>t, <1>8 DEF Unsubscribe, TypeOK
  <2>2. connected[s] => Stands(told[s])
    BY <1>t, <2>1 DEF Heard, Over
  <2>3. chan' = [chan EXCEPT ![s] = chan'[s]] /\ chan'[s] = <<>>
    BY <1>t, <2>1 DEF TypeOK
  <2>4. chan'[s] \in Seq(Events) /\ Len(chan'[s]) <= Buffer /\ 1 .. Len(chan'[s]) = {}
    BY SMT, <2>3, DeliveryAssumption
  <2>5. at' = [at EXCEPT ![s] = at'[s]] /\ at'[s] \in Places /\ at'[s] \in Over
    BY <1>f, <2>1 DEF Places, Over
  <2> QED
    BY <1>s, <1>c, <1>d, <2>1, <2>2, <2>3, <2>4, <2>5, StreamKeeps
<1>9. CASE HangUp(s)
  <2>1. /\ UNCHANGED <<storeVars, runVars, confirm, subs, chan, missed, at, seen, told, stopVars>>
        /\ subs' \in SUBSET Streams
        /\ connected' = [connected EXCEPT ![s] = FALSE]
    BY <1>t, <1>9 DEF HangUp, brokerVars, TypeOK
  <2>2. connected' = [connected EXCEPT ![s] = connected'[s]] /\ connected'[s] = FALSE
    BY <1>t, <2>1 DEF TypeOK
  <2> QED
    BY <1>a, <1>t, <1>s, <1>d, <1>q, <2>1, <2>2, StreamKeeps DEF Heard
<1> QED
  BY <1>1, <1>2, <1>3, <1>4, <1>5, <1>6, <1>7, <1>8, <1>9 DEF Serve

\* A shutdown, and a restart: what was flushed to a client stands.
LEMMA ProcessStep ==
    ASSUME IInv, Stop \/ Crash \/ UNCHANGED vars
    PROVE  IInv'
<1>t. TypeOK /\ \A s \in Streams : Heard(s)
  BY DEF IInv
<1>1. CASE Stop \/ UNCHANGED vars
  <2>1. /\ UNCHANGED <<row, result, hook, run, way, attempts, confirm, subs, chan, missed, at, seen,
                       connected, told, crashes>>
        /\ stopping' \in {stopping, TRUE}
    BY <1>1 DEF Stop, vars, storeVars, runVars, brokerVars, streamVars, stopVars
  <2>b. stopping' \in BOOLEAN
    BY <1>t, <2>1 DEF TypeOK
  <2>2. TypeOK'
    BY <1>t, <2>1, <2>b DEF TypeOK
  <2>3. \A s \in Streams : Heard(s)'
    BY <1>t, <2>1 DEF Heard, Stands
  <2>4. OutcomeDelivered'
    BY <1>t, <2>1 DEF IInv, OutcomeDelivered, Stands, TypeOK
  <2>5. Settled'
    BY <1>t, <2>1 DEF IInv, Settled, Stands, TypeOK
  <2> QED
    BY <2>1, <2>2, <2>3, <2>4, <2>5 DEF IInv
<1>2. CASE Crash
  <2>1. /\ UNCHANGED <<row, result, hook, way, attempts, seen, told>>
        /\ crashes < MaxCrashes /\ crashes' = crashes + 1
        /\ stopping' = FALSE /\ confirm' = "none" /\ subs' = {} /\ missed' = {}
        /\ chan' = [s \in Streams |-> <<>>]
        /\ at' = [s \in Streams |-> IF at[s] = "out" THEN "out" ELSE "end"]
        /\ connected' = [s \in Streams |-> connected[s] /\ at[s] = "out"]
        /\ run' = IF row = "queued" THEN "queued" ELSE "done"
    BY <1>2 DEF Crash, Restart, storeVars
  <2>2. crashes' \in 0 .. MaxCrashes /\ crashes' # 0
    BY SMT, <1>t, <2>1, DeliveryAssumption DEF TypeOK
  <2>3. /\ chan' \in [Streams -> Seq(Events)]
        /\ \A s \in Streams : chan'[s] = <<>> /\ Len(chan'[s]) <= Buffer
    BY SMT, <2>1, DeliveryAssumption
  <2>4. TypeOK'
    BY <1>t, <2>1, <2>2, <2>3 DEF TypeOK
  <2>5. ASSUME NEW s \in Streams PROVE Heard(s)'
    <3>1. /\ told'[s] = told[s] /\ seen'[s] = seen[s] /\ row' = row
          /\ 1 .. Len(chan'[s]) = {}
      BY SMT, <2>1, <2>3, <2>5
    <3>2. ~(at'[s] \in Over /\ connected'[s]) /\ (at[s] \in Over => at'[s] \in Over)
      BY <2>1, <2>5 DEF Over
    <3>3. \A o : (Stands(o)' <=> Stands(o))
      BY <2>1 DEF Stands
    <3> QED
      BY <1>t, <2>5, <3>1, <3>2, <3>3 DEF Heard
  <2>6. (run \in Unfinished <=> row = "queued")'
    BY <2>1 DEF Unfinished
  <2>7. OutcomeDelivered'
    BY <2>2 DEF OutcomeDelivered
  <2>8. Settled'
    BY <2>1 DEF IInv, Settled, Stands
  <2> QED
    BY <2>1, <2>4, <2>5, <2>6, <2>7, <2>8 DEF IInv
<1> QED
  BY <1>1, <1>2

\* The invariant holds at the start, and every step keeps it.
LEMMA Inductive ==
    /\ Init => IInv
    /\ IInv /\ [Next]_vars => IInv'
<1>1. ASSUME Init PROVE IInv
  <2>1. TypeOK
    <3>1. chan \in [Streams -> Seq(Events)] /\ \A s \in Streams : Len(chan[s]) <= Buffer
      BY SMT, <1>1, DeliveryAssumption DEF Init
    <3>2. attempts \in 0 .. MaxRetries /\ crashes \in 0 .. MaxCrashes
      BY SMT, <1>1, DeliveryAssumption DEF Init
    <3>3. /\ at \in [Streams -> {"calling", "out", "read", "dup", "catchup", "loop",
                                 "flushed", "leaving", "end"}]
          /\ connected \in [Streams -> BOOLEAN] /\ told \in [Streams -> Outcomes \cup {None}]
          /\ seen \in [Streams -> Outcomes \cup {"queued"}]
      BY <1>1 DEF Init
    <3> QED
      BY <1>1, <3>1, <3>2, <3>3 DEF Init, TypeOK
  <2>2. ASSUME NEW s \in Streams PROVE Heard(s)
    <3>1. told[s] = None /\ seen[s] = "queued" /\ row = "queued" /\ 1 .. Len(chan[s]) = {}
      BY SMT, <1>1, <2>2 DEF Init
    <3>2. at[s] \notin Over
      BY <1>1, <2>2 DEF Init, Over
    <3> QED
      BY <3>1, <3>2 DEF Heard, Outcomes
  <2> QED
    BY <1>1, <2>1, <2>2 DEF Init, IInv, Settled, Unfinished, OutcomeDelivered
<1>2. ASSUME IInv, [Next]_vars PROVE IInv'
  BY <1>2, CarryStep, StreamStep, ProcessStep DEF Next
<1> QED
  BY <1>1, <1>2

\* For any streams and buffers, however the streams come, confirm, hang up and
\* time out, and wherever execute panics: the goroutine of a job is through only
\* with the webhook stored or the outcome flushed to a client, but for a shutdown
\* or a crash in between.
THEOREM DeliveredCorrect == Spec => []OutcomeDelivered
<1>1. IInv => OutcomeDelivered
  BY DEF IInv
<1> QED
  BY <1>1, Inductive, PTL DEF Spec

\* For any streams, retries and restarts: a client is told only the outcome the
\* store holds, which changes afterwards only when a panic late in execute turns
\* a completion into failed, and no stream ends on a client still connected
\* without it.
THEOREM ToldCorrect == Spec => []ToldIsStored
<1>1. IInv => ToldIsStored
  BY DEF IInv, ToldIsStored, Heard, Settled, Over
<1> QED
  BY <1>1, Inductive, PTL DEF Spec

-----------------------------------------------------------------------------
(* Drain mode.                                                             *)

\* Where a loop is while it sends a batch.
Sending == {"deliver", "ack"}

\* The types of the journal: in the order of the sequence.
Journal ==
    /\ events \in Seq(Event)
    /\ seq \in Nat
    /\ \A i \in DOMAIN events : events[i].seq <= seq
    /\ \A i, k \in DOMAIN events : i < k => events[i].seq < events[k].seq
\* The other types.
Others ==
    /\ workers \in {"none", "bare", "queues"}
    /\ held \in SUBSET Jobs /\ arriving \in SUBSET held
    /\ late \in SUBSET Jobs /\ straddled \in BOOLEAN
    /\ rows \in SUBSET Jobs
    /\ finished \in SUBSET Jobs
    /\ sink \in SUBSET Jobs
    /\ drainState \in {"active", "draining", "unassigned"}
    /\ idle \in {"no", "waiting", "elapsed"}
    /\ loop \in [Flushers -> {"out", "rest", "list", "deliver", "ack", "clear"}]
    /\ batch \in [Flushers -> Seq(Event)]
    /\ flushMu \in Flushers \cup {Unlocked}
    /\ closing \in BOOLEAN
    /\ failures \in 0 .. MaxFailures

\* What f is sending is the head of the journal.
Heads(f) ==
    /\ Len(batch[f]) <= Len(events)
    /\ \A i \in DOMAIN batch[f] : batch[f][i] = events[i]
\* Every loop that is sending sends the head, until a wipe straddled a batch.
AtHead == ~straddled => \A f \in Flushers : loop[f] \in Sending => Heads(f)

\* A loop that is sending has the mutex, and something to send; once the
\* receiver answered it has what was sent.
Locked ==
    \A f \in Flushers :
        /\ loop[f] \in Sending => flushMu = f /\ batch[f] # <<>>
        /\ loop[f] = "ack" => Sent(f) \subseteq sink

\* A job has its row, unless it is late; none but late ones are there while
\* the watchdog is flushing, and none at all once the shutdown flush began.
Stored ==
    /\ held \subseteq rows \cup late
    /\ loop["watchdog"] # "rest" => held \subseteq late
    /\ loop["shutdown"] # "out" => closing /\ held = {}
    /\ loop["batch"] # "clear"

\* A loop about to wipe found the journal empty, so what has finished since is
\* late; and if nothing is, the journal is empty still and nobody is sending.
Wiping ==
    \A f \in Flushers : loop[f] = "clear" =>
        /\ straddled \/ finished \ late \subseteq sink
        /\ late = {} => events = <<>> /\ flushMu = Unlocked

\* The inductive invariant.  Neither property is inductive alone: an
\* acknowledgement deletes only what was sent because no other loop is sending,
\* and a wipe loses no event because the journal was found empty and what came
\* since is late.
DrainInv ==
    /\ Journal /\ Others /\ (straddled => late # {}) /\ AtHead
    /\ EventKept /\ Locked /\ Stored /\ Wiping

\* It implies both properties.
LEMMA DrainInvParts ==
    /\ DrainTypeOK <=> Journal /\ Others
    /\ DrainInv => BatchIsHead /\ EventKept
<1>1. DrainTypeOK <=> Journal /\ Others
  BY DEF DrainTypeOK, Journal, Others, Flushers
<1> QED
  BY <1>1 DEF DrainInv, BatchIsHead, AtHead, Heads, Sending, Flushers

\* A slice of a sequence.
LEMMA Slice ==
    ASSUME NEW S, NEW q \in Seq(S), NEW a \in Nat, NEW c \in Nat, a <= c, c <= Len(q),
           NEW r, r = SubSeq(q, a + 1, c)
    PROVE  /\ Len(q) \in Nat /\ DOMAIN q = 1 .. Len(q) /\ (q = <<>> <=> Len(q) = 0)
           /\ r \in Seq(S) /\ Len(r) = c - a /\ DOMAIN r = 1 .. c - a /\ (r = <<>> <=> c = a)
           /\ \A i \in 1 .. c - a : r[i] = q[a + i] /\ a + i \in 1 .. Len(q)
<1>0. Len(q) \in Nat /\ DOMAIN q = 1 .. Len(q) /\ (q = <<>> <=> Len(q) = 0)
  BY SMT
<1>1. \A i \in a + 1 .. c : q[i] \in S
  BY SMT
<1>2. /\ r \in Seq(S)
      /\ Len(r) = IF a + 1 <= c THEN c - (a + 1) + 1 ELSE 0
      /\ \A i \in 1 .. c - (a + 1) + 1 : r[i] = q[a + 1 + i - 1]
  BY <1>1, SubSeqProperties, SMT
<1>3. Len(r) = c - a /\ \A i \in 1 .. c - a : r[i] = q[a + i] /\ a + i \in 1 .. Len(q)
  BY <1>0, <1>2, SMT
<1>4. DOMAIN r = 1 .. Len(r) /\ (r = <<>> <=> Len(r) = 0)
  BY <1>2, SMT
<1>5. c - a = 0 <=> c = a
  BY SMT
<1> QED
  BY <1>0, <1>2, <1>3, <1>4, <1>5

\* The journal with one more event.
LEMMA JournalAppend ==
    ASSUME Journal, NEW j \in Jobs, Record(j)
    PROVE  /\ Journal'
           /\ Len(events) \in Nat /\ Len(events') = Len(events) + 1
           /\ \A i \in DOMAIN events : i \in DOMAIN events' /\ events'[i] = events[i]
           /\ \E i \in DOMAIN events' : events'[i].job = j
<1> DEFINE e == [seq |-> seq + 1, job |-> j]
           n == Len(events)
<1>1. seq + 1 \in Nat \ {0} /\ seq + 1 \in Nat
  BY SMT DEF Journal
<1>2. e \in Event /\ e.seq = seq + 1 /\ e.job = j
  BY <1>1 DEF Event
<1>3. events' = Append(events, e) /\ seq' = seq + 1
  BY DEF Record
<1> HIDE DEF e
<1>4. /\ events' \in Seq(Event) /\ n \in Nat /\ Len(events') = n + 1
      /\ DOMAIN events = 1 .. n /\ DOMAIN events' = 1 .. n + 1
      /\ \A i \in 1 .. n : events'[i] = events[i]
      /\ events'[n + 1] = e
  <2>1. /\ events' \in Seq(Event) /\ Len(events') = n + 1
        /\ \A i \in 1 .. n : events'[i] = events[i]
        /\ events'[n + 1] = e
    <3>1. events \in Seq(Event) /\ e \in Event
      BY <1>2 DEF Journal
    <3>2. /\ Append(events, e) \in Seq(Event) /\ Len(Append(events, e)) = n + 1
          /\ \A i \in 1 .. n : Append(events, e)[i] = events[i]
          /\ Append(events, e)[n + 1] = e
      BY <3>1, AppendProperties, SMT
    <3> QED
      BY <1>3, <3>2
  <2>2. n \in Nat /\ DOMAIN events = 1 .. n
    BY LenProperties DEF Journal
  <2>3. DOMAIN events' = 1 .. n + 1
    BY <2>1, LenProperties
  <2> QED
    BY <2>1, <2>2, <2>3
<1> HIDE DEF n
<1>5. \A i \in 1 .. n : events[i].seq \in Nat /\ events[i].seq <= seq
  <2> SUFFICES ASSUME NEW i \in 1 .. n PROVE events[i].seq \in Nat /\ events[i].seq <= seq
    OBVIOUS
  <2>1. events[i] \in Event
    BY <1>4, LenProperties DEF Journal, n
  <2>2. events[i].seq <= seq
    BY <1>4 DEF Journal
  <2>3. events[i].seq \in Nat
    BY <2>1, SMT DEF Event
  <2> QED
    BY <2>2, <2>3
<1>6. \A i \in 1 .. n + 1 : events'[i].seq <= seq'
  BY <1>2, <1>3, <1>4, <1>5, SMT DEF Journal
<1>7. \A i, k \in 1 .. n + 1 : i < k => events'[i].seq < events'[k].seq
  <2> SUFFICES ASSUME NEW i \in 1 .. n + 1, NEW k \in 1 .. n + 1, i < k
               PROVE  events'[i].seq < events'[k].seq
    OBVIOUS
  <2>1. i \in 1 .. n
    BY <1>4, SMT
  <2>2. CASE k = n + 1
    BY <1>2, <1>4, <1>5, <2>1, <2>2, SMT DEF Journal
  <2>3. CASE k # n + 1
    <3>1. k \in 1 .. n
      BY <1>4, <2>3, SMT
    <3> QED
      BY <1>4, <2>1, <3>1 DEF Journal
  <2> QED
    BY <2>2, <2>3
<1>8. n + 1 \in 1 .. n + 1 /\ \A i \in 1 .. n : i \in 1 .. n + 1
  BY <1>4, SMT
<1> QED
  BY <1>1, <1>2, <1>3, <1>4, <1>6, <1>7, <1>8 DEF Journal, n

\* The journal without its first n events.
LEMMA JournalCut ==
    ASSUME Journal, NEW n \in 0 .. Len(events), seq' = seq,
           events' = SubSeq(events, n + 1, Len(events))
    PROVE  /\ Journal'
           /\ events = <<>> => events' = <<>>
           /\ \A i \in DOMAIN events : i > n => \E k \in DOMAIN events' : events'[k] = events[i]
<1> DEFINE m == Len(events)
<1>1. m \in Nat /\ n \in Nat /\ n <= m
  <2>1. m \in Nat
    BY LenProperties DEF Journal
  <2> QED
    BY <2>1, SMT
<1>2. /\ events' \in Seq(Event) /\ DOMAIN events = 1 .. m
      /\ DOMAIN events' = 1 .. m - n /\ (events' = <<>> <=> m = n)
      /\ (events = <<>> <=> m = 0)
      /\ \A i \in 1 .. m - n : events'[i] = events[n + i] /\ n + i \in 1 .. m
  <2>1. m <= m /\ events \in Seq(Event)
    BY <1>1, SMT DEF Journal
  <2> QED
    BY <1>1, <2>1, Slice, SMT
<1> HIDE DEF m
<1>3. m = 0 => m = n
  BY <1>1, SMT
<1>4. \A i \in 1 .. m - n : events'[i].seq <= seq
  BY <1>2 DEF Journal
<1>5. \A i, k \in 1 .. m - n : i < k => n + i < n + k
  BY <1>1, SMT
<1>6. \A i, k \in 1 .. m - n : i < k => events'[i].seq < events'[k].seq
  BY <1>2, <1>5 DEF Journal
<1>7. ASSUME NEW i \in DOMAIN events, i > n
      PROVE  \E k \in DOMAIN events' : events'[k] = events[i]
  <2>1. i - n \in 1 .. m - n /\ n + (i - n) = i
    BY <1>1, <1>2, <1>7, SMT
  <2> QED
    BY <1>2, <2>1
<1>8. Journal'
  BY <1>2, <1>4, <1>6 DEF Journal
<1> QED
  BY <1>2, <1>3, <1>7, <1>8

\* The batch that a loop lists.
LEMMA JournalHead ==
    ASSUME Journal, NEW b,
           b = SubSeq(events, 1, IF Len(events) < BatchMax THEN Len(events) ELSE BatchMax)
    PROVE  /\ b \in Seq(Event) /\ Len(b) <= Len(events)
           /\ \A i \in DOMAIN b : b[i] = events[i]
           /\ b = <<>> <=> events = <<>>
<1> DEFINE k == IF Len(events) < BatchMax THEN Len(events) ELSE BatchMax
<1>0. Len(events) \in Nat /\ BatchMax \in Nat \ {0} /\ events \in Seq(Event)
  BY LenProperties, DrainAssumption DEF Journal
<1>1. /\ k \in Nat /\ 0 <= k /\ k <= Len(events) /\ (k = 0 <=> Len(events) = 0)
      /\ 0 \in Nat /\ 0 + 1 = 1 /\ k - 0 = k /\ \A i \in 1 .. k : 0 + i = i
  BY <1>0, SMT
<1>2. b = SubSeq(events, 0 + 1, k)
  BY <1>1
<1> HIDE DEF k
<1>3. /\ b \in Seq(Event) /\ Len(b) = k - 0 /\ DOMAIN b = 1 .. k - 0
      /\ (b = <<>> <=> k = 0) /\ (events = <<>> <=> Len(events) = 0)
      /\ \A i \in 1 .. k - 0 : b[i] = events[0 + i]
  BY <1>0, <1>1, <1>2, Slice, SMT
<1> QED
  BY <1>1, <1>3

\* What a loop's step does to it and leaves of the others.
LEMMA LoopStep ==
    ASSUME Others, NEW f \in Flushers
    PROVE  /\ \A s : loop' = [loop EXCEPT ![f] = s] =>
                 loop'[f] = s /\ \A g \in Flushers \ {f} : loop'[g] = loop[g]
           /\ \A b : batch' = [batch EXCEPT ![f] = b] =>
                 batch'[f] = b /\ \A g \in Flushers \ {f} : batch'[g] = batch[g]
BY DEF Others

\* While the mutex is free, or in the hands of f, no other loop is sending.
LEMMA SendsAlone ==
    ASSUME Locked, NEW f \in Flushers, flushMu \in {Unlocked, f}
    PROVE  \A g \in Flushers \ {f} : loop[g] \notin Sending
BY DrainAssumption DEF Locked, Flushers

\* A job that comes while the watchdog is flushing is late.
LEMMA DrainInsert ==
    ASSUME DrainInv, NEW j \in Jobs, Insert(j)
    PROVE  DrainInv'
<1> USE DEF Insert, journalVars, flushVars
<1>1. late \subseteq late' /\ late' \subseteq late \cup {j}
      /\ (loop["watchdog"] # "rest" => j \in late')
  OBVIOUS
<1>2. Journal' /\ AtHead' /\ Locked' /\ (straddled => late # {})'
  BY <1>1 DEF DrainInv, Journal, AtHead, Heads, Locked, Sent
<1>3. Others'
  BY <1>1 DEF DrainInv, Others
<1>4. EventKept'
  BY <1>1 DEF DrainInv, EventKept
<1>5. Stored'
  BY <1>1 DEF DrainInv, Stored
<1>6. Wiping'
  <2>1. \A f \in Flushers : f = "watchdog" \/ f = "batch" \/ f = "shutdown"
    BY DEF Flushers
  <2>2. \A f \in Flushers : loop[f] = "clear" => f = "watchdog"
    BY <2>1 DEF DrainInv, Stored
  <2> QED
    BY <1>1, <2>2 DEF DrainInv, Wiping
<1> QED
  BY <1>2, <1>3, <1>4, <1>5, <1>6 DEF DrainInv

\* A job that finishes has its row, and so its event, or is late.
LEMMA DrainComplete ==
    ASSUME DrainInv, NEW j \in Jobs, Complete(j)
    PROVE  DrainInv'
<1>1. /\ j \in held /\ j \notin arriving /\ held' = held \ {j} /\ finished' = finished \cup {j}
      /\ IF j \in rows THEN Record(j) ELSE UNCHANGED <<events, seq>>
      /\ UNCHANGED <<workers, arriving, rows, sink, drainState, idle, loop, batch, flushMu, closing,
                     failures, late, straddled>>
  BY DEF Complete, journalVars, flushVars, observed
<1>2. Journal /\ Others /\ AtHead /\ EventKept /\ Locked /\ Stored /\ Wiping
      /\ (straddled => late # {})
  BY DEF DrainInv
<1>3. /\ Journal' /\ Len(events) \in Nat /\ Len(events') \in Nat /\ Len(events) <= Len(events')
      /\ \A i \in DOMAIN events : i \in DOMAIN events' /\ events'[i] = events[i]
      /\ j \in rows => \E i \in DOMAIN events' : events'[i].job = j
  <2>1. CASE j \in rows
    <3>1. /\ Journal' /\ Len(events) \in Nat /\ Len(events') = Len(events) + 1
          /\ \A i \in DOMAIN events : i \in DOMAIN events' /\ events'[i] = events[i]
          /\ \E i \in DOMAIN events' : events'[i].job = j
      BY <1>1, <1>2, <2>1, JournalAppend
    <3>2. Len(events') \in Nat /\ Len(events) <= Len(events')
      BY <3>1, SMT
    <3> QED
      BY <3>1, <3>2
  <2>2. CASE j \notin rows
    <3>1. events' = events /\ seq' = seq
      BY <1>1, <2>2
    <3>2. Len(events) \in Nat
      BY <1>2, LenProperties DEF Journal
    <3>3. Len(events) <= Len(events)
      BY <3>2, SMT
    <3> QED
      BY <1>2, <2>2, <3>1, <3>2, <3>3 DEF Journal
  <2> QED
    BY <2>1, <2>2
<1>4. Others'
  BY <1>1, <1>2 DEF Others
<1>5. AtHead'
  <2> SUFFICES ASSUME ~straddled, NEW f \in Flushers, loop[f] \in Sending
               PROVE  /\ Len(batch[f]) <= Len(events')
                      /\ \A i \in DOMAIN batch[f] : batch[f][i] = events'[i]
    BY <1>1 DEF AtHead, Heads
  <2>1. Heads(f)
    BY <1>2 DEF AtHead
  <2>2. batch[f] \in Seq(Event)
    BY <1>2 DEF Others
  <2>3. Len(batch[f]) \in Nat /\ DOMAIN batch[f] = 1 .. Len(batch[f])
    BY <2>2, LenProperties
  <2>4. Len(batch[f]) <= Len(events')
    BY <1>3, <2>1, <2>3, SMT DEF Heads
  <2>5. DOMAIN events = 1 .. Len(events)
    BY <1>2, LenProperties DEF Journal
  <2>6. \A i \in 1 .. Len(batch[f]) : i \in 1 .. Len(events)
    BY <1>3, <2>1, <2>3, SMT DEF Heads
  <2> QED
    BY <1>3, <2>1, <2>3, <2>4, <2>5, <2>6 DEF Heads
<1>6. EventKept'
  <2>1. j \in rows \/ j \in late
    BY <1>1, <1>2 DEF Stored
  <2> QED
    BY <1>1, <1>2, <1>3, <2>1 DEF EventKept
<1>7. Locked'
  BY <1>1, <1>2 DEF Locked, Sent
<1>8. Stored'
  BY <1>1, <1>2 DEF Stored
<1>9. Wiping'
  <2>1. \A f \in Flushers : f = "watchdog" \/ f = "batch" \/ f = "shutdown"
    BY DEF Flushers
  <2>2. \A f \in Flushers : loop[f] = "clear" => j \in late
    BY <1>1, <1>2, <2>1 DEF Stored
  <2> QED
    BY <1>1, <1>2, <2>2 DEF Wiping
<1> QED
  BY <1>1, <1>2, <1>3, <1>4, <1>5, <1>6, <1>7, <1>8, <1>9 DEF DrainInv

\* A step that touches neither the journal, what is sent nor what is finished.
LEMMA DrainQuiet ==
    ASSUME DrainInv, UNCHANGED <<held, rows, finished, events, seq, sink, batch, flushMu, failures,
                                 straddled>>,
           Others', Stored', late \subseteq late',
           \A f \in Flushers : loop'[f] = loop[f] \/ loop'[f] \notin {"deliver", "ack", "clear"}
    PROVE  DrainInv'
<1>1. Journal' /\ (straddled => late # {})'
  BY DEF DrainInv, Journal
<1>2. AtHead'
  BY DEF DrainInv, AtHead, Heads, Sending
<1>3. Locked'
  BY DEF DrainInv, Locked, Sending, Sent
<1>4. EventKept'
  BY DEF DrainInv, EventKept
<1>5. Wiping'
  BY DEF DrainInv, Wiping
<1> QED
  BY <1>1, <1>2, <1>3, <1>4, <1>5 DEF DrainInv

\* The ticks and timers, and the jobs on their way to a worker.
LEMMA DrainIdles ==
    ASSUME DrainInv,
           \/ \E j \in Jobs : Enqueue(j)
           \/ Retire \/ Tick \/ TimerElapses \/ BatchTimer
           \/ BeginDrain \/ ShutdownFlush
    PROVE  DrainInv'
<1> USE DEF jobVars, journalVars, flushVars, observed
<1>0. /\ Others /\ Stored /\ "watchdog" \in Flushers /\ "batch" \in Flushers /\ "shutdown" \in Flushers
      /\ {"rest", "list"} \subseteq {"out", "rest", "list", "deliver", "ack", "clear"}
  BY DEF DrainInv, Flushers
<1>1. ASSUME NEW j \in Jobs, Enqueue(j) PROVE DrainInv'
  <2>1. workers' \in {"bare", "queues"}
    BY <1>0, <1>1, SMT DEF Enqueue, Others
  <2>2. Others' /\ Stored'
    BY <1>0, <1>1, <2>1 DEF Enqueue, Others, Stored
  <2> QED
    BY <1>1, <2>2, DrainQuiet DEF Enqueue
<1>2. CASE Retire
  <2>2. Others' /\ Stored'
    BY <1>0, <1>2 DEF Retire, Others, Stored
  <2> QED
    BY <1>2, <2>2, DrainQuiet DEF Retire
<1>3. CASE Tick
  <2>1. CASE UNCHANGED <<loop, late>>
    <3>1. Others' /\ Stored'
      BY <1>0, <1>3, <2>1 DEF Tick, Others, Stored
    <3> QED
      BY <1>3, <2>1, <3>1, DrainQuiet DEF Tick
  <2>2. CASE /\ workers = "none" /\ loop' = [loop EXCEPT !["watchdog"] = "list"]
             /\ late' = late \cup held /\ UNCHANGED <<idle, drainState>>
    <3>1. loop'["watchdog"] = "list" /\ \A g \in Flushers \ {"watchdog"} : loop'[g] = loop[g]
      BY <1>0, <2>2, LoopStep
    <3>2. Others'
      BY <1>0, <1>3, <2>2 DEF Tick, Others
    <3>3. Stored'
      BY <1>0, <1>3, <2>2, <3>1 DEF Tick, Stored
    <3> QED
      BY <1>3, <2>2, <3>1, <3>2, <3>3, DrainQuiet DEF Tick
  <2> QED
    BY <1>3, <2>1, <2>2 DEF Tick
<1>4. CASE TimerElapses
  <2>2. Others' /\ Stored'
    BY <1>0, <1>4 DEF TimerElapses, Others, Stored
  <2> QED
    BY <1>4, <2>2, DrainQuiet DEF TimerElapses
<1>5. CASE BatchTimer
  <2>1. loop'["batch"] = "list" /\ \A g \in Flushers \ {"batch"} : loop'[g] = loop[g]
    BY <1>0, <1>5, LoopStep DEF BatchTimer
  <2>2. Others'
    BY <1>0, <1>5 DEF BatchTimer, Others
  <2>3. Stored'
    BY <1>0, <1>5, <2>1 DEF BatchTimer, Stored
  <2> QED
    BY <1>5, <2>1, <2>2, <2>3, DrainQuiet DEF BatchTimer
<1>6. CASE BeginDrain
  <2>2. Others' /\ Stored'
    BY <1>0, <1>6 DEF BeginDrain, Others, Stored
  <2> QED
    BY <1>6, <2>2, DrainQuiet DEF BeginDrain
<1>7. CASE ShutdownFlush
  <2>1. loop'["shutdown"] = "list" /\ \A g \in Flushers \ {"shutdown"} : loop'[g] = loop[g]
    BY <1>0, <1>7, LoopStep DEF ShutdownFlush
  <2>2. Others'
    BY <1>0, <1>7 DEF ShutdownFlush, Others
  <2>3. Stored'
    BY <1>0, <1>7, <2>1 DEF ShutdownFlush, Stored
  <2> QED
    BY <1>7, <2>1, <2>2, <2>3, DrainQuiet DEF ShutdownFlush
<1> QED
  BY <1>1, <1>2, <1>3, <1>4, <1>5, <1>6, <1>7

\* A loop lists the head of the journal.
LEMMA DrainList ==
    ASSUME DrainInv, NEW f \in Flushers, List(f)
    PROVE  DrainInv'
<1> DEFINE b == SubSeq(events, 1, IF Len(events) < BatchMax THEN Len(events) ELSE BatchMax)
           s == IF b # <<>> THEN "deliver" ELSE IF f = "batch" THEN "rest" ELSE "clear"
<1>1. /\ loop[f] = "list" /\ flushMu = Unlocked
      /\ batch' = [batch EXCEPT ![f] = b] /\ loop' = [loop EXCEPT ![f] = s]
      /\ flushMu' = IF b = <<>> THEN Unlocked ELSE f
      /\ UNCHANGED <<workers, arriving, held, rows, finished, events, seq, sink, drainState, idle,
                     closing, failures, late, straddled>>
  BY DEF List, jobVars, journalVars, observed
<1>2. Journal /\ Others /\ AtHead /\ EventKept /\ Locked /\ Stored /\ Wiping
      /\ (straddled => late # {})
  BY DEF DrainInv
<1>3. /\ b \in Seq(Event) /\ Len(b) <= Len(events)
      /\ \A i \in DOMAIN b : b[i] = events[i]
      /\ b = <<>> <=> events = <<>>
  BY <1>2, JournalHead
<1>4. /\ s \in {"deliver", "rest", "clear"} /\ (s = "deliver" <=> b # <<>>)
      /\ (s = "clear" => f # "batch") /\ (s = "rest" => f = "batch")
  OBVIOUS
<1> HIDE DEF b, s
<1>5. /\ loop'[f] = s /\ \A g \in Flushers \ {f} : loop'[g] = loop[g]
      /\ batch'[f] = b /\ \A g \in Flushers \ {f} : batch'[g] = batch[g]
  BY <1>1, <1>2, LoopStep
<1>6. \A g \in Flushers \ {f} : loop[g] \notin Sending
  BY <1>1, <1>2, SendsAlone
<1>7. Journal' /\ EventKept' /\ (straddled => late # {})'
  BY <1>1, <1>2 DEF Journal, EventKept
<1>8. Others'
  <2>1. s \in {"out", "rest", "list", "deliver", "ack", "clear"}
    BY <1>4
  <2>2. loop' \in [Flushers -> {"out", "rest", "list", "deliver", "ack", "clear"}]
    BY <1>1, <1>2, <2>1 DEF Others
  <2>3. batch' \in [Flushers -> Seq(Event)]
    BY <1>1, <1>2, <1>3 DEF Others
  <2>4. flushMu' \in Flushers \cup {Unlocked}
    BY <1>1
  <2> QED
    BY <1>1, <1>2, <2>2, <2>3, <2>4 DEF Others
<1>9. AtHead'
  <2> SUFFICES ASSUME NEW g \in Flushers, loop'[g] \in Sending
               PROVE  Heads(g)'
    BY DEF AtHead
  <2>1. g = f
    BY <1>5, <1>6
  <2> QED
    BY <1>1, <1>3, <1>5, <2>1 DEF Heads
<1>10. Locked'
  BY <1>1, <1>4, <1>5, <1>6 DEF Locked, Sending
<1>11. Stored'
  <2>1. "watchdog" \in Flushers /\ "batch" \in Flushers /\ "shutdown" \in Flushers
    BY DEF Flushers
  <2> QED
    BY <1>1, <1>2, <1>4, <1>5, <2>1 DEF Stored
<1>12. Wiping'
  <2> SUFFICES ASSUME NEW g \in Flushers, loop'[g] = "clear"
               PROVE  /\ straddled \/ finished \ late \subseteq sink
                      /\ late = {} => events = <<>> /\ flushMu' = Unlocked
    BY <1>1 DEF Wiping
  <2>1. CASE g = f
    <3>1. b = <<>> /\ events = <<>>
      BY <1>3, <1>4, <1>5, <2>1
    <3>2. DOMAIN events = {}
      BY <3>1, SMT
    <3> QED
      BY <1>1, <1>2, <3>1, <3>2 DEF EventKept
  <2>2. CASE g # f
    BY <1>1, <1>2, <1>3, <1>5, <2>2 DEF Wiping
  <2> QED
    BY <2>1, <2>2
<1> QED
  BY <1>7, <1>8, <1>9, <1>10, <1>11, <1>12 DEF DrainInv

\* The receiver takes the batch, or the delivery fails.
LEMMA DrainDeliver ==
    ASSUME DrainInv, NEW f \in Flushers,
           Deliver(f) \/ DeliverFails(f)
    PROVE  DrainInv'
<1>1. /\ loop[f] = "deliver"
      /\ sink' = sink \/ sink' = sink \cup Sent(f)
      /\ \/ /\ loop' = [loop EXCEPT ![f] = "ack"]
            /\ sink' = sink \cup Sent(f)
            /\ UNCHANGED <<batch, flushMu, failures>>
         \/ /\ loop' = [loop EXCEPT ![f] = "rest"]
            /\ batch' = [batch EXCEPT ![f] = <<>>] /\ flushMu' = Unlocked
            /\ failures < MaxFailures /\ failures' = failures + 1
      /\ UNCHANGED <<workers, arriving, held, rows, finished, events, seq, drainState, idle,
                     closing, late, straddled>>
  BY DEF Deliver, DeliverFails, jobVars, journalVars, observed
<1>2. Journal /\ Others /\ AtHead /\ EventKept /\ Locked /\ Stored /\ Wiping
      /\ (straddled => late # {})
  BY DEF DrainInv
<1>3. flushMu = f /\ batch[f] # <<>>
  BY <1>1, <1>2 DEF Locked, Sending
<1>4. \A g \in Flushers \ {f} : loop[g] \notin Sending
  BY <1>2, <1>3, SendsAlone
<1>5. /\ loop'[f] \in {"ack", "rest"} /\ \A g \in Flushers \ {f} : loop'[g] = loop[g]
      /\ \A g \in Flushers \ {f} : batch'[g] = batch[g]
      /\ loop'[f] = "ack" => batch' = batch /\ flushMu' = flushMu /\ sink' = sink \cup Sent(f)
  BY <1>1, <1>2, LoopStep
<1>6. Journal' /\ EventKept' /\ (straddled => late # {})'
  BY <1>1, <1>2 DEF Journal, EventKept
<1>7. Others'
  <2>1. /\ <<>> \in Seq(Event)
        /\ {"ack", "rest"} \subseteq {"out", "rest", "list", "deliver", "ack", "clear"}
    BY SMT
  <2>2. failures' \in 0 .. MaxFailures
    BY <1>1, <1>2, SMT, DrainAssumption DEF Others
  <2>3. Sent(f) \subseteq Jobs
    <3>1. batch[f] \in Seq(Event)
      BY <1>2 DEF Others
    <3>2. \A i \in DOMAIN batch[f] : batch[f][i] \in Event
      BY <3>1, LenProperties
    <3>3. \A i \in DOMAIN batch[f] : batch[f][i].job \in Jobs
      BY <3>2, SMT DEF Event
    <3> QED
      BY <3>3 DEF Sent
  <2>4. loop' \in [Flushers -> {"out", "rest", "list", "deliver", "ack", "clear"}]
    BY <1>1, <1>2, <2>1 DEF Others
  <2>5. batch' \in [Flushers -> Seq(Event)] /\ flushMu' \in Flushers \cup {Unlocked}
    BY <1>1, <1>2, <2>1 DEF Others
  <2>6. sink' \in SUBSET Jobs
    BY <1>1, <1>2, <2>3 DEF Others
  <2> QED
    BY <1>1, <1>2, <2>2, <2>4, <2>5, <2>6 DEF Others
<1>8. AtHead'
  <2>1. \A g \in Flushers : loop'[g] \in Sending => g = f /\ loop'[f] = "ack"
    BY <1>4, <1>5 DEF Sending
  <2>2. ~straddled => Heads(f)
    BY <1>1, <1>2 DEF AtHead, Sending
  <2> QED
    BY <1>1, <1>5, <2>1, <2>2 DEF AtHead, Heads
<1>9. Locked'
  BY <1>1, <1>3, <1>4, <1>5 DEF Locked, Sending, Sent
<1>10. Stored'
  <2>1. "watchdog" \in Flushers /\ "batch" \in Flushers /\ "shutdown" \in Flushers
    BY DEF Flushers
  <2> QED
    BY <1>1, <1>2, <1>5, <2>1 DEF Stored
<1>11. Wiping'
  <2>1. sink \subseteq sink' /\ (flushMu = Unlocked => flushMu' = Unlocked)
    BY <1>1
  <2> QED
    BY <1>1, <1>2, <1>5, <2>1 DEF Wiping
<1> QED
  BY <1>6, <1>7, <1>8, <1>9, <1>10, <1>11 DEF DrainInv

\* Acknowledging through the last sequence of the batch deletes the batch and
\* no other event.
LEMMA AcknowledgesBatch ==
    ASSUME Journal, Others, NEW f \in Flushers, Heads(f), batch[f] # <<>>,
           NEW n \in 0 .. Len(events),
           \A i \in 1 .. n : events[i].seq <= batch[f][Len(batch[f])].seq,
           n < Len(events) => events[n + 1].seq > batch[f][Len(batch[f])].seq
    PROVE  n = Len(batch[f])
<1> DEFINE m == Len(batch[f])
           k == Len(events)
<1>1. m \in Nat \ {0} /\ DOMAIN batch[f] = 1 .. m /\ k \in Nat /\ DOMAIN events = 1 .. k
  <2>1. batch[f] \in Seq(Event) /\ events \in Seq(Event)
    BY DEF Others, Journal
  <2>2. m \in Nat /\ DOMAIN batch[f] = 1 .. m /\ k \in Nat /\ DOMAIN events = 1 .. k
    BY <2>1, LenProperties
  <2>3. m \in Nat \ {0}
    BY <2>1, EmptySeq
  <2> QED
    BY <2>2, <2>3
<1>2. m <= k /\ batch[f][m] = events[m]
  <2>1. m \in 1 .. m
    BY <1>1, SMT
  <2> QED
    BY <1>1, <2>1 DEF Heads
<1>3. \A i \in 1 .. k : events[i].seq \in Nat
  <2>1. \A i \in 1 .. k : events[i] \in Event
    BY <1>1, LenProperties DEF Journal
  <2> QED
    BY <2>1, SMT DEF Event
<1>4. \A i, j \in 1 .. k : i < j => events[i].seq < events[j].seq
  BY <1>1 DEF Journal
<1> DEFINE last == events[m].seq
<1>5. /\ \A i \in 1 .. n : events[i].seq <= last
      /\ n < k => events[n + 1].seq > last
  BY <1>2
<1>6. n \in 0 .. k
  OBVIOUS
<1> HIDE DEF m, k
<1>7. ~(n < m)
  <2> SUFFICES ASSUME n < m PROVE FALSE
    OBVIOUS
  <2>1. n + 1 \in 1 .. k /\ m \in 1 .. k /\ n < k /\ (n + 1 = m \/ n + 1 < m)
    BY <1>1, <1>2, <1>6, SMT
  <2>2. events[n + 1].seq > last
    BY <1>5, <2>1
  <2>3. n + 1 = m \/ events[n + 1].seq < last
    BY <1>4, <2>1
  <2>4. events[n + 1].seq \in Nat /\ last \in Nat
    BY <1>3, <2>1
  <2> HIDE DEF last
  <2>5. n + 1 = m => events[n + 1].seq = last
    BY DEF last
  <2> QED
    BY <2>2, <2>3, <2>4, <2>5, SMT
<1>8. ~(m < n)
  <2> SUFFICES ASSUME m < n PROVE FALSE
    OBVIOUS
  <2>1. m + 1 \in 1 .. n /\ m + 1 \in 1 .. k /\ m \in 1 .. k /\ m < m + 1
    BY <1>1, <1>2, <1>6, SMT
  <2>2. events[m + 1].seq <= last /\ last < events[m + 1].seq
    BY <1>4, <1>5, <2>1
  <2>3. events[m + 1].seq \in Nat /\ last \in Nat
    BY <1>3, <2>1
  <2> HIDE DEF last
  <2> QED
    BY <2>2, <2>3, SMT
<1>9. n = m
  BY <1>1, <1>6, <1>7, <1>8, SMT
<1> QED
  BY <1>9 DEF m

\* The acknowledgement keeps every event that was not sent.
LEMMA DrainAcknowledge ==
    ASSUME DrainInv, NEW f \in Flushers, Acknowledge(f)
    PROVE  DrainInv'
<1> DEFINE s == IF f = "batch" THEN "rest" ELSE "list"
<1>1. /\ loop[f] = "ack" /\ flushMu' = Unlocked
      /\ loop' = [loop EXCEPT ![f] = s] /\ batch' = [batch EXCEPT ![f] = <<>>]
      /\ UNCHANGED <<workers, arriving, held, rows, finished, seq, sink, drainState, idle, closing,
                     failures, late, straddled>>
  BY DEF Acknowledge, jobVars, observed
<1>2. PICK n \in 0 .. Len(events) :
         /\ \A i \in 1 .. n : events[i].seq <= batch[f][Len(batch[f])].seq
         /\ n < Len(events) => events[n + 1].seq > batch[f][Len(batch[f])].seq
         /\ events' = SubSeq(events, n + 1, Len(events))
  BY DEF Acknowledge
<1>3. Journal /\ Others /\ AtHead /\ EventKept /\ Locked /\ Stored /\ Wiping
      /\ (straddled => late # {})
  BY DEF DrainInv
<1>4. flushMu = f /\ batch[f] # <<>> /\ Sent(f) \subseteq sink
  BY <1>1, <1>3 DEF Locked, Sending
<1>5. \A g \in Flushers \ {f} : loop[g] \notin Sending
  BY <1>3, <1>4, SendsAlone
<1>6. s \in {"rest", "list"} /\ (s = "rest" => f = "batch")
  OBVIOUS
<1> HIDE DEF s
<1>7. /\ loop'[f] = s /\ \A g \in Flushers \ {f} : loop'[g] = loop[g]
      /\ \A g \in Flushers \ {f} : batch'[g] = batch[g]
  BY <1>1, <1>3, LoopStep
<1>8. /\ Journal' /\ (events = <<>> => events' = <<>>)
      /\ \A i \in DOMAIN events : i > n => \E k \in DOMAIN events' : events'[k] = events[i]
  BY <1>1, <1>2, <1>3, JournalCut
<1>9. Others'
  <2>1. <<>> \in Seq(Event) /\ s \in {"out", "rest", "list", "deliver", "ack", "clear"}
    BY <1>6, SMT
  <2> QED
    BY <1>1, <1>3, <2>1 DEF Others
<1>10. AtHead' /\ Locked'
  BY <1>5, <1>6, <1>7 DEF AtHead, Locked, Sending
<1>11. EventKept'
  <2> SUFFICES ASSUME ~straddled, NEW j \in finished \ late, j \notin sink
               PROVE  \E k \in DOMAIN events' : events'[k].job = j
    BY <1>1 DEF EventKept
  <2>1. PICK i \in DOMAIN events : events[i].job = j
    BY <1>3 DEF EventKept
  <2>2. Heads(f)
    BY <1>1, <1>3 DEF AtHead, Sending
  <2>3. n = Len(batch[f])
    BY <1>2, <1>3, <1>4, <2>2, AcknowledgesBatch
  <2>4. i \notin DOMAIN batch[f]
    BY <1>4, <2>1, <2>2 DEF Heads, Sent
  <2>5. i > n
    <3>1. batch[f] \in Seq(Event) /\ events \in Seq(Event)
      BY <1>3 DEF Others, Journal
    <3>2. DOMAIN batch[f] = 1 .. Len(batch[f]) /\ Len(batch[f]) \in Nat
          /\ DOMAIN events = 1 .. Len(events) /\ Len(events) \in Nat
      BY <3>1, LenProperties
    <3> QED
      BY <2>1, <2>3, <2>4, <3>2, SMT
  <2> QED
    BY <1>8, <2>1, <2>5
<1>12. Stored'
  <2>1. "watchdog" \in Flushers /\ "batch" \in Flushers /\ "shutdown" \in Flushers
    BY DEF Flushers
  <2> QED
    BY <1>1, <1>3, <1>6, <1>7, <2>1 DEF Stored
<1>13. Wiping'
  BY <1>1, <1>3, <1>6, <1>7, <1>8 DEF Wiping
<1> QED
  BY <1>1, <1>3, <1>8, <1>9, <1>10, <1>11, <1>12, <1>13 DEF DrainInv

\* The wipe finds only late jobs without an event sent.
LEMMA DrainClear ==
    ASSUME DrainInv, NEW f \in Flushers, Clear(f)
    PROVE  DrainInv'
<1>1. /\ loop[f] = "clear" /\ rows' = {} /\ events' = <<>> /\ seq' = 0
      /\ drainState' = "unassigned" /\ loop' = [loop EXCEPT ![f] = "rest"]
      /\ straddled' = (straddled \/ flushMu # Unlocked)
      /\ UNCHANGED <<workers, arriving, held, finished, sink, idle, batch, flushMu, closing,
                     failures, late>>
  BY DEF Clear
<1>2. Journal /\ Others /\ AtHead /\ EventKept /\ Locked /\ Stored /\ Wiping
      /\ (straddled => late # {})
  BY DEF DrainInv
<1>3. loop'[f] = "rest" /\ \A g \in Flushers \ {f} : loop'[g] = loop[g]
  BY <1>1, <1>2, LoopStep
<1>4. /\ straddled \/ finished \ late \subseteq sink
      /\ late = {} => events = <<>> /\ flushMu = Unlocked
  BY <1>1, <1>2 DEF Wiping
<1>5. Journal'
  <2>1. <<>> \in Seq(Event) /\ 0 \in Nat /\ DOMAIN <<>> = {}
    BY SMT
  <2> QED
    BY <1>1, <2>1 DEF Journal
<1>6. Others'
  <2>1. "rest" \in {"out", "rest", "list", "deliver", "ack", "clear"}
    OBVIOUS
  <2> QED
    BY <1>1, <1>2, <2>1 DEF Others
<1>7. AtHead'
  BY <1>1, <1>2, <1>3, DrainAssumption DEF AtHead, Sending, Locked, Flushers
<1>8. Locked'
  BY <1>1, <1>2, <1>3 DEF Locked, Sending, Sent
<1>9. EventKept' /\ (straddled => late # {})'
  BY <1>1, <1>2, <1>4 DEF EventKept
<1>10. Stored'
  <2>1. \A g \in Flushers : g = "watchdog" \/ g = "batch" \/ g = "shutdown"
    BY DEF Flushers
  <2>2. f = "watchdog" \/ f = "shutdown"
    BY <1>1, <1>2, <2>1 DEF Stored
  <2>3. held \subseteq late
    BY <1>1, <1>2, <2>2 DEF Stored
  <2>4. "watchdog" \in Flushers /\ "batch" \in Flushers /\ "shutdown" \in Flushers
    BY DEF Flushers
  <2> QED
    BY <1>1, <1>2, <1>3, <2>2, <2>3, <2>4 DEF Stored
<1>11. Wiping'
  BY <1>1, <1>2, <1>3 DEF Wiping
<1> QED
  BY <1>5, <1>6, <1>7, <1>8, <1>9, <1>10, <1>11 DEF DrainInv

\* Every step of drain mode keeps the invariant.
LEMMA DrainInvNext ==
    ASSUME DrainInv, [DrainNext]_drainVars
    PROVE  DrainInv'
<1>1. CASE UNCHANGED drainVars
  <2>1. UNCHANGED <<workers, arriving, held, rows, finished, events, seq, sink, drainState, idle,
                    loop, batch, flushMu, closing, failures, late, straddled>>
    BY <1>1 DEF drainVars, jobVars, journalVars, flushVars, observed
  <2>2. Others' /\ Stored'
    BY <2>1 DEF DrainInv, Others, Stored
  <2> QED
    BY <2>1, <2>2, DrainQuiet
<1>2. CASE \E f \in Flushers : Flush(f) \/ DeliverFails(f)
  BY <1>2, DrainList, DrainDeliver, DrainAcknowledge, DrainClear DEF Flush, Flushers
<1> QED
  BY <1>1, <1>2, DrainInsert, DrainComplete, DrainIdles DEF DrainNext

\* It holds at first.
LEMMA DrainInvInit ==
    ASSUME DrainInit
    PROVE  DrainInv
<1>1. /\ 0 \in 0 .. MaxFailures /\ 0 \in Nat /\ <<>> \in Seq(Event) /\ DOMAIN <<>> = {}
  BY SMT, DrainAssumption
<1>2. /\ "watchdog" \in Flushers /\ "batch" \in Flushers /\ "shutdown" \in Flushers
      /\ \A f \in Flushers : loop[f] \in {"out", "rest"}
      /\ loop["shutdown"] = "out" /\ loop["watchdog"] = "rest"
  BY DEF DrainInit, Flushers
<1>3. Journal
  BY <1>1 DEF DrainInit, Journal
<1>4. Others
  BY <1>1 DEF DrainInit, Others, Flushers
<1>5. AtHead /\ Locked /\ Wiping
  BY <1>2 DEF AtHead, Locked, Wiping, Sending
<1>6. Stored /\ EventKept /\ (straddled => late # {})
  BY <1>2 DEF DrainInit, Stored, EventKept
<1> QED
  BY <1>3, <1>4, <1>5, <1>6 DEF DrainInv

\* A finished job stays in the journal until the receiver has been sent its event,
\* whatever the watchdog, the batch timer and the shutdown flush do at once and
\* however deliveries fail; only late jobs and wipes that straddle a batch are
\* excepted.
THEOREM EventKeptCorrect == DrainSpec => []EventKept
<1>1. DrainInit => DrainInv
  BY DrainInvInit
<1>2. DrainInv /\ [DrainNext]_drainVars => DrainInv'
  BY DrainInvNext
<1>3. DrainInv => EventKept
  BY DrainInvParts
<1> QED
  BY <1>1, <1>2, <1>3, PTL DEF DrainSpec

\* What flushDrainEventBatch is sending is the head of the journal when it
\* acknowledges it, unless a wipe straddled the batch, and that needs a late job.
THEOREM BatchIsHeadCorrect == DrainSpec => []BatchIsHead
<1>1. DrainInit => DrainInv
  BY DrainInvInit
<1>2. DrainInv /\ [DrainNext]_drainVars => DrainInv'
  BY DrainInvNext
<1>3. DrainInv => BatchIsHead
  BY DrainInvParts
<1> QED
  BY <1>1, <1>2, <1>3, PTL DEF DrainSpec
=============================================================================
