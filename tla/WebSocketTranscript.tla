------------------------ MODULE WebSocketTranscript ------------------------
(***************************************************************************)
(* How the connections of one WebSocket session follow its transcript:     *)
(* webSocketSession.deliverStream (internal/websocket/manager.go), the     *)
(* Valkey stream and its cursor check (stream.go), and the follower that   *)
(* shares one pub/sub connection between sessions (follower.go).           *)
(*                                                                         *)
(* An entry is named by its place in the transcript, which orders entries  *)
(* as stream IDs do; 0 is the cursor "0-0".  A read and the writes of what *)
(* it returned are one step: nothing but the connection itself uses its    *)
(* cursor.  The pub/sub connection is go-redis's, modelled from its use:   *)
(* Subscribe and Unsubscribe set the channels it wants, and it subscribes  *)
(* to those again after a reconnect.                                       *)
(***************************************************************************)
EXTENDS Integers

CONSTANTS
  Conns,       \* connections to the session, one after another or overlapping
  MaxEntries,  \* bound: entries ever appended
  Client,      \* those of them that a client sent; the backend sent the others
  ReadBatch,   \* Config.ReadBatch
  MaxDrops     \* bound: times the pub/sub connection or a Subscribe on it fails

ASSUME TranscriptAssumption ==
  /\ MaxEntries \in Nat
  /\ Client \subseteq 1 .. MaxEntries
  /\ ReadBatch \in Nat \ {0}
  /\ MaxDrops \in Nat

VARIABLES
  last,        \* the last entry appended
  oldest,      \* the first entry Valkey still has
  handler,     \* where the handler of a connection is
  base,        \* what the client has already; with "0-0", what was gone at the first read
  cursor,      \* webSocketSession.cursor
  delivered,   \* entries written to a connection's client
  signal,      \* connections with a token in followSub.c
  subs,        \* followShard.subs[channel]
  wanted,      \* the pub/sub connection wants the channel
  live,        \* Valkey sends the channel's messages
  inbox,       \* kinds of pub/sub messages on their way to followShard.run
  drops,
  outrun,      \* observes: connections whose unread entries were trimmed
  crossed      \* observes: a follower began before the last one's Unsubscribe

conns == <<handler, base, cursor, delivered>>
follower == <<signal, subs>>
pubsub == <<wanted, live, inbox, drops>>
seen == <<outrun, crossed>>
transcriptVars == <<last, oldest, conns, follower, pubsub, seen>>

Entries == 1 .. MaxEntries

States == {"out", "replay", "follow", "subscribe", "catchup", "await",
           "undo", "unsubscribeUndo", "closing", "unsubscribe", "gone"}

\* One type invariant.  A cursor never passes the end of the transcript.
TranscriptTypeOK ==
  /\ last \in 0 .. MaxEntries
  /\ oldest \in 1 .. last + 1
  /\ handler \in [Conns -> States]
  /\ base \in [Conns -> 0 .. last]
  /\ cursor \in [Conns -> 0 .. last]
  /\ delivered \in [Conns -> SUBSET Entries]
  /\ signal \subseteq Conns
  /\ subs \subseteq Conns
  /\ wanted \in BOOLEAN
  /\ live \in BOOLEAN
  /\ inbox \subseteq {"message", "subscribe"}
  /\ drops \in 0 .. MaxDrops
  /\ outrun \subseteq Conns
  /\ crossed \in BOOLEAN

TranscriptInit ==
  /\ last = 0
  /\ oldest = 1
  /\ handler = [c \in Conns |-> "out"]
  /\ base = [c \in Conns |-> 0]
  /\ cursor = [c \in Conns |-> 0]
  /\ delivered = [c \in Conns |-> {}]
  /\ signal = {}
  /\ subs = {}
  /\ wanted = FALSE
  /\ live = FALSE
  /\ inbox = {}
  /\ drops = 0
  /\ outrun = {}
  /\ crossed = FALSE

Becomes(c, state) == handler' = [handler EXCEPT ![c] = state]

Open == {c \in Conns : handler[c] \notin {"out", "gone"}}

\* The connections that have a place in the transcript: they came with a cursor,
\* or have read once.
Placed == {c \in Conns : \/ handler[c] \in {"follow", "subscribe", "catchup", "await",
                                             "undo", "unsubscribeUndo"}
                         \/ handler[c] = "replay" /\ cursor[c] # 0}

Least(a, b) == IF a <= b THEN a ELSE b
Most(a, b) == IF a >= b THEN a ELSE b

-----------------------------------------------------------------------------
(* The stream in Valkey.                                                   *)

\* Append: one MULTI adds the entry and, for a backend entry, publishes.
AppendEntry ==
  /\ last < MaxEntries
  /\ last' = last + 1
  /\ inbox' = IF last + 1 \notin Client /\ live THEN inbox \cup {"message"} ELSE inbox
  /\ UNCHANGED <<oldest, conns, follower, wanted, live, drops, seen>>

\* MAXLEN drops the oldest entries, or the TTL the whole stream.
Trim ==
  /\ \E n \in oldest + 1 .. last + 1 :
       /\ oldest' = n
       /\ outrun' = outrun \cup {c \in Placed : n > Most(cursor[c], base[c]) + 1}
  /\ UNCHANGED <<last, conns, follower, pubsub, crossed>>

-----------------------------------------------------------------------------
(* Manager.ServeHTTP and deliverStream.                                    *)

\* A slip: a transcript that is gone is no gap.
CheckCursorLenient(after) ==
  after # 0 => oldest > last \/ after >= oldest

\* CheckCursor accepts "0-0" and a cursor that is not older than the first
\* entry; an empty stream is a gap.
CheckCursor(after) ==
  after # 0 => oldest <= last /\ after >= oldest

\* A client connects with the last entry it has, from any earlier connection.
Connect(c) ==
  /\ handler[c] = "out"
  /\ \E after \in {0} \cup UNION {delivered[d] : d \in Conns} :
       IF CheckCursor(after)
       THEN /\ Becomes(c, "replay")
            /\ cursor' = [cursor EXCEPT ![c] = after]
            /\ base' = [base EXCEPT ![c] = after]
       ELSE /\ Becomes(c, "gone")
            /\ UNCHANGED <<cursor, base>>
  /\ UNCHANGED <<last, oldest, delivered, follower, pubsub, seen>>

\* readAfterCursor and deliverEvents.  ReadAfter returns the first ReadBatch
\* retained entries after the cursor; the cursor passes every one of them, the
\* client gets those of the backend.  A short batch ends the loop.
Read(c, then) ==
  LET first == Most(cursor[c] + 1, oldest)
      end == Least(first + ReadBatch - 1, last)
  IN /\ cursor' = [cursor EXCEPT ![c] = IF first <= end THEN end ELSE @]
     /\ base' = [base EXCEPT ![c] = IF c \notin Placed THEN first - 1 ELSE @]
     /\ delivered' = [delivered EXCEPT ![c] =
                        @ \cup ((first .. end) \ Client)]
     /\ Becomes(c, IF end - first + 1 < ReadBatch THEN then ELSE handler[c])
     /\ UNCHANGED <<last, oldest, follower, pubsub, seen>>

Replay(c) == handler[c] = "replay" /\ Read(c, "follow")

CatchUp(c) == handler[c] = "catchup" /\ Read(c, "await")

\* The wait of deliverStream's loop.
Await(c) ==
  /\ handler[c] = "await"
  /\ c \in signal
  /\ signal' = signal \ {c}
  /\ Becomes(c, "catchup")
  /\ UNCHANGED <<last, oldest, base, cursor, delivered, subs, pubsub, seen>>

\* The session ends: its context is done, a write to the client fails, or the
\* store kept failing.  A follow is closed by the deferred Close.  Its place in
\* the transcript goes with it; what the client has stays.
End(c) ==
  /\ \/ handler[c] \in {"replay", "follow"} /\ Becomes(c, "gone")
     \/ handler[c] \in {"catchup", "await"} /\ Becomes(c, "closing")
  /\ cursor' = [cursor EXCEPT ![c] = 0]
  /\ base' = [base EXCEPT ![c] = 0]
  /\ outrun' = outrun \ {c}
  /\ UNCHANGED <<last, oldest, delivered, follower, pubsub, crossed>>

-----------------------------------------------------------------------------
(* streamFollower.                                                         *)

Unsubscribing == {c \in Conns : handler[c] \in {"unsubscribe", "unsubscribeUndo"}}

\* follow, under shard.mu: the first follower subscribes, another is signalled.
Follow(c) ==
  /\ handler[c] = "follow"
  /\ subs' = subs \cup {c}
  /\ signal' = IF subs = {} THEN signal \ {c} ELSE signal \cup {c}
  /\ Becomes(c, IF subs = {} THEN "subscribe" ELSE "catchup")
  /\ crossed' = IF subs = {} THEN Unsubscribing # {} ELSE crossed
  /\ UNCHANGED <<last, oldest, base, cursor, delivered, pubsub, outrun>>

\* ps.Subscribe: Valkey confirms with a message, or the call fails.
Subscribe(c) ==
  /\ handler[c] = "subscribe"
  /\ wanted' = TRUE
  /\ live' = TRUE
  /\ inbox' = inbox \cup {"subscribe"}
  /\ crossed' = (crossed /\ Unsubscribing # {})
  /\ Becomes(c, "catchup")
  /\ UNCHANGED <<last, oldest, base, cursor, delivered, follower, drops, outrun>>

SubscribeFails(c) ==
  /\ handler[c] = "subscribe"
  /\ drops < MaxDrops
  /\ drops' = drops + 1
  /\ wanted' = TRUE
  /\ crossed' = (crossed /\ Unsubscribing # {})
  /\ Becomes(c, "undo")
  /\ UNCHANGED <<last, oldest, base, cursor, delivered, follower, live, inbox,
                 outrun>>

\* A slip: Close does not look for other followers.
CloseAlways(c) ==
  /\ handler[c] \in {"closing", "undo"}
  /\ subs' = subs \ {c}
  /\ signal' = signal \ {c}
  /\ Becomes(c, IF handler[c] = "undo" THEN "unsubscribeUndo" ELSE "unsubscribe")
  /\ UNCHANGED <<last, oldest, base, cursor, delivered, pubsub, seen>>

\* followSub.Close, under shard.mu: the last follower unsubscribes after it.
\* Close also undoes a follow whose Subscribe failed; retryStore then follows
\* again.
CloseFollow(c) ==
  /\ handler[c] \in {"closing", "undo"}
  /\ subs' = subs \ {c}
  /\ signal' = signal \ {c}
  /\ Becomes(c, IF subs' = {}
                THEN IF handler[c] = "undo" THEN "unsubscribeUndo" ELSE "unsubscribe"
                ELSE IF handler[c] = "undo" THEN "follow" ELSE "gone")
  /\ UNCHANGED <<last, oldest, base, cursor, delivered, pubsub, seen>>

\* ps.Unsubscribe.
Unsubscribe(c) ==
  /\ handler[c] \in {"unsubscribe", "unsubscribeUndo"}
  /\ wanted' = FALSE
  /\ live' = FALSE
  /\ Becomes(c, IF handler[c] = "unsubscribe" THEN "gone" ELSE "follow")
  /\ UNCHANGED <<last, oldest, base, cursor, delivered, follower, inbox, drops, seen>>

\* A slip: only published messages signal, not confirmed subscriptions.
ShardRunMessages ==
  /\ \E kind \in inbox :
       /\ inbox' = inbox \ {kind}
       /\ signal' = IF kind = "message" THEN signal \cup subs ELSE signal
  /\ UNCHANGED <<last, oldest, conns, subs, wanted, live, drops, seen>>

\* followShard.run: a message, or a confirmed subscription, signals every
\* follower of the channel.
ShardRun ==
  /\ \E kind \in inbox :
       /\ inbox' = inbox \ {kind}
       /\ signal' = signal \cup subs
  /\ UNCHANGED <<last, oldest, conns, subs, wanted, live, drops, seen>>

\* The pub/sub connection breaks; what was under way is lost.
Drop ==
  /\ live
  /\ drops < MaxDrops
  /\ drops' = drops + 1
  /\ live' = FALSE
  /\ inbox' = {}
  /\ UNCHANGED <<last, oldest, conns, follower, wanted, seen>>

\* go-redis connects again and subscribes to the channels it wants.
Resubscribe ==
  /\ wanted /\ ~live
  /\ live' = TRUE
  /\ inbox' = inbox \cup {"subscribe"}
  /\ UNCHANGED <<last, oldest, conns, follower, wanted, drops, seen>>

-----------------------------------------------------------------------------
ConnHandler(c) ==
  \/ Replay(c) \/ Follow(c) \/ Subscribe(c) \/ SubscribeFails(c) \/ CatchUp(c)
  \/ Await(c) \/ CloseFollow(c) \/ Unsubscribe(c)

TranscriptNext ==
  \/ AppendEntry
  \/ Trim
  \/ ShardRun \/ Drop \/ Resubscribe
  \/ \E c \in Conns : Connect(c) \/ End(c) \/ ConnHandler(c)

TranscriptSpec == TranscriptInit /\ [][TranscriptNext]_transcriptVars

\* The goroutines of a session and of the shard run, and go-redis reconnects.
TranscriptFairSpec ==
  /\ TranscriptSpec
  /\ WF_transcriptVars(ShardRun)
  /\ WF_transcriptVars(Resubscribe)
  /\ \A c \in Conns : WF_transcriptVars(ConnHandler(c))

-----------------------------------------------------------------------------
(* Properties.                                                             *)

\* A client gets every backend entry after the cursor it came with, up to where
\* its connection is: CheckCursor lets no history end inside what it has to read.
\* A read that finds its place trimmed meanwhile is not checked again.
NoSilentGap ==
  /\ TranscriptTypeOK
  /\ \A c \in Conns \ outrun :
       (base[c] + 1 .. cursor[c]) \ Client \subseteq delivered[c]

\* While a connection follows and no other call is under way, the shared pub/sub
\* connection is subscribed, or will be when it reconnects, unless the last
\* Unsubscribe came after a new follower's Subscribe.
FollowersSubscribed ==
  (/\ subs # {}
   /\ \A c \in Conns : handler[c] \notin {"subscribe", "undo", "unsubscribe", "unsubscribeUndo"})
  => wanted \/ crossed

\* The connection has a backend entry still to deliver.
Behind(c) == \E i \in (oldest .. last) \ Client : i > cursor[c]

\* A connection that stays open delivers every backend entry, also after lost
\* messages and broken subscriptions, as long as nobody else's late Unsubscribe
\* ends its subscription.
CaughtUp == \A c \in Conns : []<>(c \notin Open \/ ~Behind(c) \/ crossed)

\* Following is a hint only: "a missed entry is not" possible, whoever else of
\* the session leaves or comes at the same time.
EveryoneCaughtUp == \A c \in Conns : []<>(c \notin Open \/ ~Behind(c))
=============================================================================
