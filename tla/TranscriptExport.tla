-------------------------- MODULE TranscriptExport --------------------------
(***************************************************************************)
(* The exporters of WebSocket transcripts (internal/websocket/export.go):  *)
(* every node reads the shared export stream through one consumer group,   *)
(* posts batches to the receiver, and acknowledges and deletes them after  *)
(* a 2xx.  The stream and the group are Valkey's, modelled from the        *)
(* commands the exporter sends.                                            *)
(*                                                                         *)
(* An entry is named by its place in the stream.  Bytes are not counted:   *)
(* MaxBatchBytes cuts the batch after some first entries.                  *)
(***************************************************************************)
EXTENDS Integers, FiniteSets, FiniteSetsExt

CONSTANTS
  Nodes,
  MaxEntries,   \* bound: entries ever appended
  MaxPending,   \* ExportConfig.MaxPending, the stream's MAXLEN
  BatchSize,    \* ExportConfig.BatchSize
  ReceiverMax,  \* events the receiver takes in one batch
  Huge,         \* entries it refuses even alone
  GrowAfter,    \* webSocketExportGrowAfter
  MaxFaults,    \* bound: failed calls and crashes
  None

Entries == 1 .. MaxEntries

ASSUME ExportAssumption ==
  /\ MaxEntries \in Nat \ {0}
  /\ MaxPending \in Nat \ {0}
  /\ BatchSize \in Nat \ {0}
  /\ ReceiverMax \in Nat \ {0}
  /\ Huge \subseteq Entries
  /\ GrowAfter \in Nat \ {0}
  /\ MaxFaults \in Nat
  /\ None \notin Nodes

VARIABLES
  \* Valkey
  last,       \* the last entry appended
  stream,     \* entries in the export stream
  groupLast,  \* the group's last-delivered ID
  owner,      \* consumer an unacknowledged entry was delivered to, or None
  listed,     \* the group's consumers
  idle,       \* unacknowledged entries idle for webSocketExportClaimIdle
  \* Exporter of each node
  pc,         \* where exportOnce is: "own", "claim", "new", "post", "ack", "down"
  batch,      \* ids: the entries it will acknowledge
  events,     \* batch.Events: those of them it sends
  limit,      \* Exporter.limit
  successes,  \* Exporter.successes
  scan,       \* Exporter.claimCursor
  gone,       \* consumer sweepConsumers is about to remove, or None
  \* Receiver
  received,   \* entries the receiver has
  dropped,    \* entries trimmed from the stream or refused as too large
  forgotten,  \* observes: entries that were pending for a consumer swept away
  faults

valkey == <<last, stream, groupLast, owner, listed, idle>>
exporter == <<pc, batch, events, limit, successes, scan, gone>>
receiver == <<received, dropped, forgotten>>
vars == <<valkey, exporter, receiver, faults>>

\* One type invariant.  The limit of the next read stays between 1 and BatchSize.
TypeOK ==
  /\ last \in 0 .. MaxEntries
  /\ stream \subseteq 1 .. last
  /\ groupLast \in 0 .. last
  /\ owner \in [Entries -> Nodes \cup {None}]
  /\ listed \subseteq Nodes
  /\ idle \subseteq Entries
  /\ pc \in [Nodes -> {"own", "claim", "new", "post", "ack", "down"}]
  /\ batch \in [Nodes -> SUBSET Entries]
  /\ events \in [Nodes -> SUBSET Entries]
  /\ limit \in [Nodes -> 1 .. BatchSize]
  /\ successes \in [Nodes -> 0 .. GrowAfter]
  /\ scan \in [Nodes -> Entries]
  /\ gone \in [Nodes -> Nodes \cup {None}]
  /\ received \subseteq Entries
  /\ dropped \subseteq Entries
  /\ forgotten \subseteq Entries
  /\ faults \in 0 .. MaxFaults

Init ==
  /\ last = 0
  /\ stream = {}
  /\ groupLast = 0
  /\ owner = [e \in Entries |-> None]
  /\ listed = {}
  /\ idle = {}
  /\ pc = [n \in Nodes |-> "own"]
  /\ batch = [n \in Nodes |-> {}]
  /\ events = [n \in Nodes |-> {}]
  /\ limit = [n \in Nodes |-> BatchSize]
  /\ successes = [n \in Nodes |-> 0]
  /\ scan = [n \in Nodes |-> 1]
  /\ gone = [n \in Nodes |-> None]
  /\ received = {}
  /\ dropped = {}
  /\ forgotten = {}
  /\ faults = 0

Pending(n) == {e \in Entries : owner[e] = n}

\* exportOnce returns.
Drop(n) ==
  /\ batch' = [batch EXCEPT ![n] = {}]
  /\ events' = [events EXCEPT ![n] = {}]

\* The k smallest members of S.
First(S, k) == {e \in S : Cardinality({d \in S : d < e}) < k}

Go(n, state) == pc' = [pc EXCEPT ![n] = state]

-----------------------------------------------------------------------------
(* Valkey.                                                                 *)

\* webSocketExportAppendScript: an entry is added, and MAXLEN trims the oldest.
\* Trimming leaves the group's pending list as it is.
AppendEntry ==
  /\ last < MaxEntries
  /\ last' = last + 1
  /\ LET all == stream \cup {last + 1}
     IN /\ stream' = all \ First(all, Cardinality(all) - MaxPending)
        /\ dropped' = dropped \cup (First(all, Cardinality(all) - MaxPending) \ received)
  /\ UNCHANGED <<groupLast, owner, listed, idle, exporter, received, forgotten, faults>>

\* An entry was delivered a minute ago.  A batch a live node works on is younger:
\* a post takes webSocketExportRequestTimeout at most.
GrowIdle ==
  /\ \E e \in Entries \ idle :
       /\ owner[e] # None
       /\ e \notin batch[owner[e]]
       /\ idle' = idle \cup {e}
  /\ UNCHANGED <<last, stream, groupLast, owner, listed, exporter, receiver, faults>>

-----------------------------------------------------------------------------
(* exportOnce.                                                             *)

\* Fill a batch: some first entries fit MaxBatchBytes, the rest stay pending.  A
\* pending entry that was trimmed comes back without fields, cannot be decoded
\* and is acknowledged unsent.  The call stamps what it returns, so the entries
\* are not idle.
Fill(n, messages) ==
  /\ \E k \in 1 .. Cardinality(messages) :
       /\ batch' = [batch EXCEPT ![n] = First(messages, k)]
       /\ events' = [events EXCEPT ![n] = First(messages, k) \cap stream]
  /\ idle' = idle \ messages
  /\ Go(n, "post")

\* readGroup "0": this node's unacknowledged entries first.  The call makes the
\* node a consumer.
ReadOwn(n) ==
  /\ pc[n] = "own"
  /\ listed' = listed \cup {n}
  /\ LET messages == First(Pending(n), limit[n])
     IN IF messages = {}
        THEN Go(n, "claim") /\ UNCHANGED <<idle, batch, events>>
        ELSE Fill(n, messages)
  /\ UNCHANGED <<last, stream, groupLast, owner, limit, successes, scan, gone, receiver, faults>>

\* A slip: the scan stays at the end of the list.
ClaimNoWrap(n) ==
  /\ pc[n] = "claim"
  /\ LET Listed == {e \in Entries : owner[e] # None /\ e >= scan[n]}
         stale == First(Listed, limit[n]) \cap idle
     IN /\ owner' = [e \in Entries |->
                       IF e \in stale THEN IF e \in stream THEN n ELSE None ELSE owner[e]]
        /\ scan' = [scan EXCEPT ![n] = MaxEntries]
        /\ IF stale \cap stream = {}
           THEN Go(n, "new") /\ UNCHANGED <<idle, batch, events>>
           ELSE Fill(n, stale \cap stream)
  /\ UNCHANGED <<last, stream, groupLast, listed, limit, successes, gone, receiver, faults>>

\* claimStale: XAUTOCLAIM looks at the pending list from claimCursor on, takes
\* the idle entries that are still in the stream, forgets those that are not,
\* and says where to go on.
ClaimStale(n) ==
  /\ pc[n] = "claim"
  /\ LET Listed == {e \in Entries : owner[e] # None /\ e >= scan[n]}
         looked == First(Listed, limit[n])
         stale == looked \cap idle
         rest == Listed \ looked
     IN /\ owner' = [e \in Entries |->
                       IF e \in stale THEN IF e \in stream THEN n ELSE None ELSE owner[e]]
        /\ scan' = [scan EXCEPT ![n] = IF rest = {} THEN 1 ELSE Min(rest)]
        /\ IF stale \cap stream = {}
           THEN Go(n, "new") /\ UNCHANGED <<idle, batch, events>>
           ELSE Fill(n, stale \cap stream)
  /\ UNCHANGED <<last, stream, groupLast, listed, limit, successes, gone, receiver, faults>>

\* readGroup ">": new entries; none after a second ends this exportOnce.
ReadNew(n) ==
  /\ pc[n] = "new"
  /\ listed' = listed \cup {n}
  /\ LET messages == First({e \in stream : e > groupLast}, limit[n])
     IN IF messages = {}
        THEN Go(n, "own") /\ UNCHANGED <<groupLast, owner, idle, batch, events>>
        ELSE /\ groupLast' = Max(messages)
             /\ owner' = [e \in Entries |-> IF e \in messages THEN n ELSE owner[e]]
             /\ Fill(n, messages)
  /\ UNCHANGED <<last, stream, limit, successes, scan, gone, receiver, faults>>

TooLarge(n) == Cardinality(events[n]) > ReceiverMax \/ events[n] \cap Huge # {}

\* The receiver answers 2xx, or there was nothing to send.
PostTaken(n) ==
  /\ pc[n] = "post"
  /\ ~TooLarge(n)
  /\ received' = received \cup events[n]
  /\ Go(n, "ack")
  /\ UNCHANGED <<valkey, batch, events, limit, successes, scan, gone, dropped, forgotten, faults>>

\* The receiver answers 413: halve the batch, or skip the one entry.
PostTooLarge(n) ==
  /\ pc[n] = "post"
  /\ TooLarge(n)
  /\ IF Cardinality(events[n]) > 1
     THEN /\ limit' = [limit EXCEPT ![n] = Cardinality(events[n]) \div 2]
          /\ successes' = [successes EXCEPT ![n] = 0]
          /\ Drop(n)
          /\ Go(n, "own")
          /\ UNCHANGED dropped
     ELSE /\ dropped' = dropped \cup events[n]
          /\ Go(n, "ack")
          /\ UNCHANGED <<batch, events, limit, successes>>
  /\ UNCHANGED <<valkey, scan, gone, received, forgotten, faults>>

\* XACK and XDEL in one MULTI; after GrowAfter batches the limit doubles.
Ack(n) ==
  /\ pc[n] = "ack"
  /\ owner' = [e \in Entries |-> IF e \in batch[n] THEN None ELSE owner[e]]
  /\ idle' = idle \ batch[n]
  /\ stream' = stream \ batch[n]
  /\ Drop(n)
  /\ LET grown == limit[n] < BatchSize /\ successes[n] + 1 >= GrowAfter
     IN /\ limit' = [limit EXCEPT ![n] =
                       IF ~grown THEN @ ELSE IF 2 * @ > BatchSize THEN BatchSize ELSE 2 * @]
        /\ successes' = [successes EXCEPT ![n] =
                           IF limit[n] = BatchSize THEN @ ELSE IF grown THEN 0 ELSE @ + 1]
  /\ Go(n, "own")
  /\ UNCHANGED <<last, groupLast, listed, scan, gone, receiver, faults>>

\* A slip: the batch is acknowledged although the post failed.
FailAcks(n) ==
  /\ faults < MaxFaults
  /\ pc[n] \in {"claim", "new", "post", "ack"}
  /\ faults' = faults + 1
  /\ Go(n, IF pc[n] = "post" THEN "ack" ELSE "own")
  /\ UNCHANGED <<valkey, batch, events, limit, successes, scan, gone, receiver>>

\* A call fails: the entries stay pending and run backs off.  A post that timed
\* out may have been received.
Fail(n) ==
  /\ faults < MaxFaults
  /\ pc[n] \in {"claim", "new", "post", "ack"}
  /\ faults' = faults + 1
  /\ \/ received' = received
     \/ pc[n] = "post" /\ ~TooLarge(n) /\ received' = received \cup events[n]
  /\ Drop(n)
  /\ Go(n, "own")
  /\ UNCHANGED <<valkey, limit, successes, scan, gone, dropped, forgotten>>

\* The node crashes, or Stop cancels the exporter: what it read stays pending.
\* (Stop's removal of its own consumer has no pending entry to lose.)
Down(n) ==
  /\ faults < MaxFaults
  /\ pc[n] # "down"
  /\ faults' = faults + 1
  /\ Go(n, "down")
  /\ Drop(n)
  /\ gone' = [gone EXCEPT ![n] = None]
  /\ UNCHANGED <<valkey, limit, successes, scan, receiver>>

\* A new exporter with the node's name.
Start(n) ==
  /\ pc[n] = "down"
  /\ Go(n, "own")
  /\ limit' = [limit EXCEPT ![n] = BatchSize]
  /\ successes' = [successes EXCEPT ![n] = 0]
  /\ scan' = [scan EXCEPT ![n] = 1]
  /\ UNCHANGED <<valkey, batch, events, gone, receiver, faults>>

\* sweepConsumers, first call: a consumer idle for an hour with nothing pending.
SweepLook(n) ==
  /\ pc[n] = "own"
  /\ gone[n] = None
  /\ \E m \in listed \ {n} :
       /\ pc[m] = "down"
       /\ Pending(m) = {}
       /\ gone' = [gone EXCEPT ![n] = m]
  /\ UNCHANGED <<valkey, pc, batch, events, limit, successes, scan, receiver, faults>>

\* Second call: XGROUP DELCONSUMER forgets the consumer's pending entries.
SweepDelete(n) ==
  /\ gone[n] # None
  /\ owner' = [e \in Entries |-> IF owner[e] = gone[n] THEN None ELSE owner[e]]
  /\ idle' = idle \ Pending(gone[n])
  /\ forgotten' = forgotten \cup (Pending(gone[n]) \ received)
  /\ listed' = listed \ {gone[n]}
  /\ gone' = [gone EXCEPT ![n] = None]
  /\ UNCHANGED <<last, stream, groupLast, pc, batch, events, limit, successes, scan, received, dropped,
                 faults>>

-----------------------------------------------------------------------------
Export(n) ==
  /\ gone[n] = None
  /\ \/ ReadOwn(n) \/ ClaimStale(n) \/ ReadNew(n)
     \/ PostTaken(n) \/ PostTooLarge(n) \/ Ack(n)

Next ==
  \/ AppendEntry \/ GrowIdle
  \/ \E n \in Nodes :
       \/ Export(n) \/ SweepLook(n) \/ SweepDelete(n)
       \/ gone[n] = None /\ Fail(n)
       \/ Down(n) \/ Start(n)

Spec == Init /\ [][Next]_vars

\* The exporters run and time passes.  A node that went down need not come back;
\* the last one up does not go down.
FairSpec ==
  /\ Spec
  /\ WF_vars(GrowIdle)
  /\ \A n \in Nodes : WF_vars(Export(n)) /\ WF_vars(SweepDelete(n))

-----------------------------------------------------------------------------
(* Properties.                                                             *)

\* At least once: an entry the receiver does not have is still going to be read,
\* as new or as somebody's pending entry, is being sent, or was dropped for a
\* documented reason.  The one other way to lose it: its consumer came back and
\* read it between the two calls of a sweep that removed that consumer.
NothingMissed ==
  /\ TypeOK
  /\ \A e \in (1 .. last) \ forgotten :
       \/ e \in received \cup dropped
       \/ e \in stream /\ (e > groupLast \/ owner[e] # None)
       \/ \E n \in Nodes : e \in events[n]

\* With one node up to the end, every entry is exported, whatever calls fail and
\* whichever node read it first.
Exported ==
  \A e \in Entries :
    e <= last ~> (e \in received \cup dropped \cup forgotten \/ \A n \in Nodes : pc[n] = "down")

\* "Entries are deleted only after a 2xx": the receiver gets every entry that is
\* not dropped for a documented reason, also when consumers are swept.
NeverForgotten == forgotten \subseteq received
=============================================================================
