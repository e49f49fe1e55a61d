------------------------- MODULE AccountQueueProofs --------------------------
(***************************************************************************)
(* Proofs that AccountQueue keeps its promises for every set of jobs, every*)
(* retry and concurrency limit, every deadline and every channel capacity: *)
(* types, attempts and retries, where its jobs are held, that its counters *)
(* are exact (inFlight, which the dispatch loop compares with the          *)
(* concurrency limit, and backlog, which admission, fairness and           *)
(* retirement read), that it implements JobLifecycle, and that its timers  *)
(* never let a job wait past its time.                                     *)
(***************************************************************************)
EXTENDS AccountQueue, FiniteSetTheorems, WellFoundedInduction, TLAPS

\* The leaves are first-order and set reasoning except where they say SMT.
USE ZenonT(40)

(* Facts about the helpers. *)

\* Dropping one element: what the filtered slice of a sweep holds.
LEMMA WithoutSeq ==
    ASSUME NEW S, NEW s \in Seq(S), NEW i \in DOMAIN s
    PROVE  /\ Without(s, i) \in Seq(S)
           /\ Len(Without(s, i)) = Len(s) - 1
           /\ \A k \in 1..(Len(s) - 1) :
                 Without(s, i)[k] = IF k < i THEN s[k] ELSE s[k + 1]
<1>1. Len(s) - 1 \in Nat
  BY SMT
<1>2. Without(s, i) \in [1..(Len(s) - 1) -> S]
  BY SMT DEF Without
<1>3. Without(s, i) \in Seq(S)
  BY SMT, <1>1, <1>2
<1>. QED
  BY SMT, <1>1, <1>2, <1>3 DEF Without

(* Which positions remain after appending, taking the head and dropping. *)

\* Appending adds one position.
LEMMA AppendIndex ==
    ASSUME NEW S, NEW s \in Seq(S), NEW e \in S
    PROVE  /\ DOMAIN Append(s, e) = (DOMAIN s) \cup {Len(s) + 1}
           /\ \A i \in DOMAIN s : Append(s, e)[i] = s[i] /\ i # Len(s) + 1
           /\ Append(s, e)[Len(s) + 1] = e
  BY SMT

\* Taking the head moves every other position down by one.
LEMMA TailIndex ==
    ASSUME NEW S, NEW s \in Seq(S), s # <<>>
    PROVE  /\ 1 \in DOMAIN s /\ Head(s) = s[1]
           /\ \A i \in DOMAIN Tail(s) :
                 i \in Nat /\ i + 1 \in DOMAIN s /\ i + 1 # 1 /\ Tail(s)[i] = s[i + 1]
           /\ \A i \in DOMAIN s : i # 1 => i - 1 \in DOMAIN Tail(s) /\ (i - 1) + 1 = i
  BY SMT

\* Every element but the i-th remains, and moves down by one at most.
LEMMA WithoutIndex ==
    ASSUME NEW S, NEW s \in Seq(S), NEW i \in DOMAIN s
    PROVE  /\ \A k \in DOMAIN Without(s, i) : \E n \in DOMAIN s :
                 n # i /\ Without(s, i)[k] = s[n] /\ k = IF n < i THEN n ELSE n - 1
           /\ \A n \in DOMAIN s : n # i => \E k \in DOMAIN Without(s, i) :
                 Without(s, i)[k] = s[n]
<1>. DEFINE t == Without(s, i)
<1>1. /\ t \in Seq(S) /\ Len(t) = Len(s) - 1
      /\ \A k \in 1..(Len(s) - 1) : t[k] = IF k < i THEN s[k] ELSE s[k + 1]
  BY WithoutSeq
<1>. HIDE DEF t
<1>2. /\ DOMAIN s = 1..Len(s) /\ DOMAIN t = 1..(Len(s) - 1)
      /\ Len(s) \in Nat /\ i \in 1..Len(s)
  BY SMT, <1>1
<1>3. \A k \in DOMAIN t : \E n \in DOMAIN s :
          n # i /\ t[k] = s[n] /\ k = IF n < i THEN n ELSE n - 1
  <2>. SUFFICES ASSUME NEW k \in DOMAIN t
                PROVE  \E n \in DOMAIN s :
                          n # i /\ t[k] = s[n] /\ k = IF n < i THEN n ELSE n - 1
    OBVIOUS
  <2>1. CASE k < i
    BY SMT, <1>1, <1>2, <2>1
  <2>2. CASE ~(k < i)
    <3>1. k + 1 \in DOMAIN s /\ k + 1 # i /\ ~(k + 1 < i) /\ (k + 1) - 1 = k
      BY SMT, <1>2, <2>2
    <3>. QED
      BY <1>1, <1>2, <2>2, <3>1
  <2>. QED
    BY <2>1, <2>2
<1>4. \A n \in DOMAIN s : n # i => \E k \in DOMAIN t : t[k] = s[n]
  <2>. SUFFICES ASSUME NEW n \in DOMAIN s, n # i
                PROVE  \E k \in DOMAIN t : t[k] = s[n]
    OBVIOUS
  <2>1. CASE n < i
    BY SMT, <1>1, <1>2, <2>1
  <2>2. CASE i < n
    <3>1. n - 1 \in DOMAIN t /\ ~(n - 1 < i) /\ (n - 1) + 1 = n
      BY SMT, <1>2, <2>2
    <3>. QED
      BY <1>1, <1>2, <3>1
  <2>. QED
    BY SMT, <1>2, <2>1, <2>2
<1>. QED
  BY <1>3, <1>4 DEF t

-----------------------------------------------------------------------------
(* What that does to the members. *)

\* Appending a job adds it to the members.
LEMMA AppendMembers ==
    ASSUME NEW S, NEW s \in Seq(S), NEW e \in S
    PROVE  /\ Members(Append(s, e)) = Members(s) \cup {e}
           /\ DistinctMembers(s) /\ e \notin Members(s) =>
                 DistinctMembers(Append(s, e))
  BY SMT, AppendIndex DEF Members, DistinctMembers

\* Appending a record adds its job.
LEMMA AppendJobs ==
    ASSUME NEW S, NEW s \in Seq(S), NEW e \in S
    PROVE  /\ JobsOf(Append(s, e)) = JobsOf(s) \cup {e.job}
           /\ DistinctJobs(s) /\ e.job \notin JobsOf(s) => DistinctJobs(Append(s, e))
  BY SMT, AppendIndex DEF JobsOf, DistinctJobs

\* An empty slice holds nothing.
LEMMA EmptySlice ==
    /\ Members(<<>>) = {} /\ JobsOf(<<>>) = {} /\ ToRetry(<<>>) = {}
    /\ DistinctMembers(<<>>) /\ DistinctJobs(<<>>)
  BY SMT DEF Members, JobsOf, ToRetry, DistinctMembers, DistinctJobs

\* Taking the head removes exactly that job.
LEMMA TailMembers ==
    ASSUME NEW S, NEW s \in Seq(S), s # <<>>, DistinctMembers(s)
    PROVE  /\ Members(Tail(s)) = Members(s) \ {Head(s)}
           /\ DistinctMembers(Tail(s))
           /\ Head(s) \in Members(s)
  BY SMT, TailIndex DEF Members, DistinctMembers

\* Taking the head removes exactly the job of that record.
LEMMA TailJobs ==
    ASSUME NEW S, NEW s \in Seq(S), s # <<>>, DistinctJobs(s)
    PROVE  /\ JobsOf(Tail(s)) = JobsOf(s) \ {Head(s).job}
           /\ DistinctJobs(Tail(s))
           /\ Head(s).job \in JobsOf(s)
  BY SMT, TailIndex DEF JobsOf, DistinctJobs

\* Dropping a position removes exactly its job.
LEMMA WithoutMembers ==
    ASSUME NEW S, NEW s \in Seq(S), NEW i \in DOMAIN s, DistinctMembers(s)
    PROVE  /\ Members(Without(s, i)) = Members(s) \ {s[i]}
           /\ DistinctMembers(Without(s, i))
           /\ s[i] \in Members(s)
  BY SMT, WithoutIndex DEF Members, DistinctMembers

\* Dropping a position removes exactly the job of its record.
LEMMA WithoutJobs ==
    ASSUME NEW S, NEW s \in Seq(S), NEW i \in DOMAIN s, DistinctJobs(s)
    PROVE  /\ JobsOf(Without(s, i)) = JobsOf(s) \ {s[i].job}
           /\ DistinctJobs(Without(s, i))
           /\ s[i].job \in JobsOf(s)
  BY SMT, WithoutIndex DEF JobsOf, DistinctJobs

\* A message that asks for a retry adds its job to those to be retried.
LEMMA AppendToRetry ==
    ASSUME NEW S, NEW s \in Seq(S), NEW e \in S
    PROVE  ToRetry(Append(s, e)) =
               ToRetry(s) \cup (IF e.retryAt > 0 THEN {e.job} ELSE {})
  BY SMT, AppendIndex DEF ToRetry

\* Reading a message takes its job from those to be retried.
LEMMA TailToRetry ==
    ASSUME NEW S, NEW s \in Seq(S), s # <<>>, DistinctJobs(s)
    PROVE  /\ ToRetry(Tail(s)) = ToRetry(s) \ {Head(s).job}
           /\ Head(s).retryAt > 0 <=> Head(s).job \in ToRetry(s)
  BY SMT, TailIndex DEF ToRetry, DistinctJobs

\* What it means for the six places of a job to be apart, pair by pair.
LEMMA ApartSix ==
    ASSUME NEW h, NEW c, NEW q, NEW w, NEW a, NEW d
    PROVE  Apart(<<h, c, q, w, a, d>>) <=>
             /\ h \cap c = {} /\ h \cap q = {} /\ h \cap w = {} /\ h \cap a = {}
             /\ h \cap d = {} /\ c \cap q = {} /\ c \cap w = {} /\ c \cap a = {}
             /\ c \cap d = {} /\ q \cap w = {} /\ q \cap a = {} /\ q \cap d = {}
             /\ w \cap a = {} /\ w \cap d = {} /\ a \cap d = {}
  BY SMT DEF Apart

\* A job may move from one place to the next.
LEMMA ApartMove ==
    ASSUME NEW h, NEW c, NEW q, NEW w, NEW a, NEW d, NEW x, Apart(<<h, c, q, w, a, d>>)
    PROVE  /\ x \in c => Apart(<<h, c \ {x}, q \cup {x}, w, a, d>>)
           /\ x \in q => Apart(<<h, c, q \ {x}, w, a \cup {x}, d>>)
           /\ x \in w => Apart(<<h, c, q \cup {x}, w \ {x}, a, d>>)
           /\ x \in d => Apart(<<h, c, q, w \cup {x}, a, d \ {x}>>)
           /\ x \in d => Apart(<<h, c, q, w, a, d \ {x}>>)
<1>1. /\ h \cap c = {} /\ h \cap q = {} /\ h \cap w = {} /\ h \cap a = {}
      /\ h \cap d = {} /\ c \cap q = {} /\ c \cap w = {} /\ c \cap a = {}
      /\ c \cap d = {} /\ q \cap w = {} /\ q \cap a = {} /\ q \cap d = {}
      /\ w \cap a = {} /\ w \cap d = {} /\ a \cap d = {}
  BY SMT, ApartSix
<1>2. ASSUME x \in c PROVE Apart(<<h, c \ {x}, q \cup {x}, w, a, d>>)
  <2>1. /\ h \cap (c \ {x}) = {} /\ h \cap (q \cup {x}) = {}
        /\ (c \ {x}) \cap (q \cup {x}) = {} /\ (c \ {x}) \cap w = {}
        /\ (c \ {x}) \cap a = {} /\ (c \ {x}) \cap d = {}
        /\ (q \cup {x}) \cap w = {} /\ (q \cup {x}) \cap a = {}
        /\ (q \cup {x}) \cap d = {}
    BY <1>1, <1>2
  <2>. QED
    BY <1>1, <2>1, ApartSix
<1>3. ASSUME x \in q PROVE Apart(<<h, c, q \ {x}, w, a \cup {x}, d>>)
  <2>1. /\ h \cap (q \ {x}) = {} /\ h \cap (a \cup {x}) = {}
        /\ c \cap (q \ {x}) = {} /\ c \cap (a \cup {x}) = {}
        /\ (q \ {x}) \cap w = {} /\ (q \ {x}) \cap (a \cup {x}) = {}
        /\ (q \ {x}) \cap d = {} /\ w \cap (a \cup {x}) = {}
        /\ (a \cup {x}) \cap d = {}
    BY <1>1, <1>3
  <2>. QED
    BY <1>1, <2>1, ApartSix
<1>4. ASSUME x \in w PROVE Apart(<<h, c, q \cup {x}, w \ {x}, a, d>>)
  <2>1. /\ h \cap (q \cup {x}) = {} /\ h \cap (w \ {x}) = {}
        /\ c \cap (q \cup {x}) = {} /\ c \cap (w \ {x}) = {}
        /\ (q \cup {x}) \cap (w \ {x}) = {} /\ (q \cup {x}) \cap a = {}
        /\ (q \cup {x}) \cap d = {} /\ (w \ {x}) \cap a = {}
        /\ (w \ {x}) \cap d = {}
    BY <1>1, <1>4
  <2>. QED
    BY <1>1, <2>1, ApartSix
<1>5. ASSUME x \in d PROVE Apart(<<h, c, q, w \cup {x}, a, d \ {x}>>)
  <2>1. /\ h \cap (w \cup {x}) = {} /\ h \cap (d \ {x}) = {}
        /\ c \cap (w \cup {x}) = {} /\ c \cap (d \ {x}) = {}
        /\ q \cap (w \cup {x}) = {} /\ q \cap (d \ {x}) = {}
        /\ (w \cup {x}) \cap a = {} /\ (w \cup {x}) \cap (d \ {x}) = {}
        /\ a \cap (d \ {x}) = {}
    BY <1>1, <1>5
  <2>. QED
    BY <1>1, <2>1, ApartSix
<1>6. ASSUME x \in d PROVE Apart(<<h, c, q, w, a, d \ {x}>>)
  <2>1. /\ h \cap (d \ {x}) = {} /\ c \cap (d \ {x}) = {}
        /\ q \cap (d \ {x}) = {} /\ w \cap (d \ {x}) = {}
        /\ a \cap (d \ {x}) = {}
    BY <1>1, <1>6
  <2>. QED
    BY <1>1, <2>1, ApartSix
<1>. QED
  BY <1>2, <1>3, <1>4, <1>5, <1>6

\* A job that is in no place may come into the first.
LEMMA ApartAdd ==
    ASSUME NEW h, NEW c, NEW q, NEW w, NEW a, NEW d, NEW j, Apart(<<h, c, q, w, a, d>>),
           j \notin c, j \notin q, j \notin w, j \notin a, j \notin d
    PROVE  Apart(<<h \cup {j}, c, q, w, a, d>>)
<1>1. /\ h \cap c = {} /\ h \cap q = {} /\ h \cap w = {} /\ h \cap a = {}
      /\ h \cap d = {} /\ c \cap q = {} /\ c \cap w = {} /\ c \cap a = {}
      /\ c \cap d = {} /\ q \cap w = {} /\ q \cap a = {} /\ q \cap d = {}
      /\ w \cap a = {} /\ w \cap d = {} /\ a \cap d = {}
  BY SMT, ApartSix
<1>2. /\ (h \cup {j}) \cap c = {} /\ (h \cup {j}) \cap q = {} /\ (h \cup {j}) \cap w = {}
      /\ (h \cup {j}) \cap a = {} /\ (h \cup {j}) \cap d = {}
  BY <1>1
<1> QED
  BY <1>1, <1>2, ApartSix

\* Earliest is a lower bound that is reached.
LEMMA EarliestIsLeast ==
    ASSUME NEW S \in SUBSET Nat
    PROVE  /\ Earliest(S) \in Nat
           /\ S # {} => Earliest(S) \in S
           /\ \A n \in S : Earliest(S) <= n
<1>1. CASE S = {}
  BY <1>1 DEF Earliest
<1>2. CASE S # {}
  <2> DEFINE R == {p \in Nat \X Nat : p[1] < p[2]}
  <2>1. OpToRel(<, Nat) = R
    BY Zenon DEF OpToRel
  <2>2. IsWellFoundedOn(R, Nat)
    BY <2>1, NatLessThanWellFounded, Zenon
  <2>3. \E x \in S : \A y \in S : <<y, x>> \notin R
    <3> HIDE DEF R
    <3>. QED BY <1>2, <2>2, WFMin
  <2>4. \E m \in S : \A n \in S : m <= n
    <3>1. \A x, y \in S : <<y, x>> \notin R => ~(y < x)
      OBVIOUS
    <3>. HIDE DEF R
    <3>2. PICK m \in S : \A y \in S : <<y, m>> \notin R
      BY <2>3
    <3>3. \A n \in S : m \in Nat /\ n \in Nat /\ ~(n < m)
      BY <3>1, <3>2
    <3>. QED
      BY SMT, <3>3
  <2>. QED
    BY <1>2, <2>4 DEF Earliest
<1>. QED
  BY <1>1, <1>2

-----------------------------------------------------------------------------
(* Where the queue holds its jobs: each in one place, none lost. *)

(* The inductive invariant: HeldOnce and NoJobLost, and what makes them *)
(* inductive. *)

Queued == {j \in Jobs : row[j] = "queued"}
Known == {j \in Jobs : row[j] # "none"}

\* The loop that supervise may end holds nothing, an attempt that hands its
\* webhook over has an outcome to report, and no attempt is of an unknown job.
IdleEmpty == pc \in {"idle", "retired"} => LoopEmpty
HookReport ==
    \A j \in Jobs : attempt[j] \in {"hook", "handoff"} => report[j].retryAt = 0
AttemptKnown == Attempting \cup JobsOf(done) \subseteq Known

HeldInv == HeldOnce /\ NoJobLost /\ IdleEmpty /\ HookReport /\ AttemptKnown

\* What HeldInv says of the sets, without the slices.
LEMMA HeldSets ==
    ASSUME TypeOK, HeldInv
    PROVE  /\ Working \subseteq Attempting
           /\ ToRetry(done) \subseteq JobsOf(done)
           /\ Held \subseteq Queued
           /\ ~stop => Queued \subseteq Held
           /\ Queued \subseteq Known
  BY DEF HeldInv, NoJobLost, Working, Attempting, ToRetry, JobsOf, Queued, Known

\* The places are apart.
LEMMA HeldPlaces ==
    ASSUME HeldInv
    PROVE  Apart(<<handing, Members(cmds), Members(queue), JobsOf(waiting), Attempting, JobsOf(done)>>)
  BY DEF HeldInv, HeldOnce

\* The places are apart, pair by pair, and hold no job twice.
LEMMA HeldApart ==
    ASSUME TypeOK, HeldInv
    PROVE  /\ handing \cap Members(cmds) = {} /\ handing \cap Members(queue) = {}
           /\ handing \cap JobsOf(waiting) = {} /\ handing \cap Attempting = {}
           /\ handing \cap JobsOf(done) = {}
           /\ Members(cmds) \cap Members(queue) = {} /\ Members(cmds) \cap JobsOf(waiting) = {}
           /\ Members(cmds) \cap Attempting = {} /\ Members(cmds) \cap JobsOf(done) = {}
           /\ Members(queue) \cap JobsOf(waiting) = {} /\ Members(queue) \cap Attempting = {}
           /\ Members(queue) \cap JobsOf(done) = {} /\ JobsOf(waiting) \cap Attempting = {}
           /\ JobsOf(waiting) \cap JobsOf(done) = {} /\ Attempting \cap JobsOf(done) = {}
           /\ DistinctMembers(cmds) /\ DistinctMembers(queue)
           /\ DistinctJobs(waiting) /\ DistinctJobs(done)
           /\ cmds \in Seq(Jobs) /\ queue \in Seq(Jobs)
           /\ waiting \in Seq(WaitingJob) /\ done \in Seq(JobDoneMsg)
<1>1. Apart(<<handing, Members(cmds), Members(queue), JobsOf(waiting), Attempting, JobsOf(done)>>)
  BY HeldPlaces
<1>2. /\ cmds \in Seq(Jobs) /\ queue \in Seq(Jobs)
      /\ waiting \in Seq(WaitingJob) /\ done \in Seq(JobDoneMsg)
  BY DEF TypeOK
<1>3. /\ DistinctMembers(cmds) /\ DistinctMembers(queue)
      /\ DistinctJobs(waiting) /\ DistinctJobs(done)
  BY DEF HeldInv, HeldOnce
<1> QED
  BY SMT, <1>1, <1>2, <1>3, ApartSix

\* A job that was not known is held nowhere.
LEMMA UnknownNowhere ==
    ASSUME TypeOK, HeldInv, NEW j \in Jobs, row[j] = "none"
    PROVE  /\ j \notin handing /\ j \notin Members(cmds) /\ j \notin Members(queue)
           /\ j \notin JobsOf(waiting) /\ j \notin Attempting /\ j \notin JobsOf(done)
<1>1. j \notin Known /\ j \notin Queued
  BY DEF Known, Queued
<1>. QED
  BY <1>1, HeldSets DEF HeldInv, AttemptKnown, Held

\* reserve counts a job and touches nothing the loop holds.
LEMMA ReserveKeeps ==
    ASSUME TypeOK, HeldInv, NEW j \in Jobs, Reserve(j)
    PROVE  /\ queue' = queue /\ waiting' = waiting /\ inFlight' = inFlight
           /\ pc' = "sweep" \/ pc' = pc
           /\ pc' # "retired"
           /\ Queued' = Queued \cup {j}
           /\ Known' = Known \cup {j}
<1>1. pc = "retired" =>
         queue' = queue /\ waiting' = waiting /\ inFlight' = inFlight /\ pc' = "sweep"
  BY DEF HeldInv, IdleEmpty, LoopEmpty, Reserve, FreshRun
<1>2. pc # "retired" =>
         queue' = queue /\ waiting' = waiting /\ inFlight' = inFlight /\ pc' = pc
  BY DEF Reserve, loopVars, heldVars, slotVars
<1>3. Queued' = Queued \cup {j} /\ Known' = Known \cup {j}
  BY DEF Reserve, TypeOK, Queued, Known
<1>. QED
  BY <1>1, <1>2, <1>3

\* Reserving a job, by whomever, keeps the invariant.
LEMMA ReserveHeld ==
    ASSUME TypeOK, HeldInv, ~stop, NEW j \in Jobs, Reserve(j),
           UNCHANGED <<cmds, done, stop>>,
           Attempting' = Attempting, Working' = Working, HookReport'
    PROVE  HeldInv'
<1>1. /\ queue' = queue /\ waiting' = waiting /\ inFlight' = inFlight
      /\ pc' = "sweep" \/ pc' = pc
      /\ Queued' = Queued \cup {j} /\ Known' = Known \cup {j}
  BY ReserveKeeps
<1>2. handing' = handing \cup {j} /\ row[j] = "none"
  BY DEF Reserve
<1>3. Held' = Held \cup {j}
  BY <1>1, <1>2 DEF Held
<1>4. HeldOnce'
  <2>1. /\ j \notin Members(cmds) /\ j \notin Members(queue) /\ j \notin JobsOf(waiting)
        /\ j \notin Attempting /\ j \notin JobsOf(done)
    BY <1>2, UnknownNowhere
  <2>2. Apart(<<handing \cup {j}, Members(cmds), Members(queue), JobsOf(waiting), Attempting,
               JobsOf(done)>>)
    BY <2>1, ApartAdd DEF HeldInv, HeldOnce
  <2> QED
    BY <1>1, <1>2, <2>2 DEF HeldInv, HeldOnce
<1>5. NoJobLost'
  BY <1>1, <1>3, HeldSets DEF NoJobLost, Queued
<1>6. IdleEmpty'
  BY <1>1 DEF HeldInv, IdleEmpty, LoopEmpty
<1>7. AttemptKnown'
  BY <1>1 DEF HeldInv, AttemptKnown
<1>. QED
  BY <1>4, <1>5, <1>6, <1>7 DEF HeldInv

\* Steps that move no job.
LEMMA UnmovedHeld ==
    ASSUME TypeOK, HeldInv, UNCHANGED <<row, handing, cmds, queue, waiting, done>>,
           Attempting' = Attempting, Working' = Working, HookReport', IdleEmpty',
           stop => stop'
    PROVE  HeldInv'
<1>1. Queued' = Queued /\ Known' = Known /\ Held' = Held
  BY DEF Queued, Known, Held
<1>2. HeldOnce'
  BY DEF HeldInv, HeldOnce
<1>3. NoJobLost'
  BY <1>1, HeldSets DEF NoJobLost, Queued
<1>4. AttemptKnown'
  BY <1>1 DEF HeldInv, AttemptKnown
<1>. QED
  BY <1>2, <1>3, <1>4 DEF HeldInv

\* The end of a webhook hand-over changes no place of a job.
LEMMA AfterHandoffHeld ==
    ASSUME TypeOK, HeldInv, NEW h, attempt' = AfterHandoff(h), report' = report
    PROVE  Attempting' = Attempting /\ Working' = Working /\ HookReport'
  BY SMT DEF HeldInv, HookReport, TypeOK, AfterHandoff, Attempting, Working

\* handoff moves a job from its sender to the channel.
LEMMA HandoffHeld ==
    ASSUME TypeOK, HeldInv, NEW j \in Jobs, Handoff(j)
    PROVE  HeldInv'
<1>. USE DEF envVars, jobVars, chanVars, loopVars, heldVars, slotVars
<1>1. Attempting' = Attempting /\ Working' = Working /\ HookReport'
  BY AfterHandoffHeld DEF Handoff
<1>2. /\ j \in handing /\ handing' = handing \ {j} /\ cmds' = Append(cmds, j)
      /\ UNCHANGED <<row, queue, waiting, inFlight, done, pc, stop>>
  BY DEF Handoff
<1>3. j \notin Members(cmds)
  BY SMT, <1>2, ApartSix DEF HeldInv, HeldOnce
<1>4. Members(cmds') = Members(cmds) \cup {j} /\ DistinctMembers(cmds')
  BY SMT, <1>2, <1>3, AppendMembers DEF TypeOK, HeldInv, HeldOnce
<1>5. HeldOnce'
  BY SMT, <1>1, <1>2, <1>4, ApartSix DEF HeldInv, HeldOnce
<1>6. Held' = Held /\ Queued' = Queued /\ Known' = Known
  BY <1>1, <1>2, <1>4 DEF Held, Queued, Known
<1>7. NoJobLost'
  BY <1>2, <1>6, HeldSets DEF NoJobLost, Queued
<1>8. IdleEmpty' /\ AttemptKnown'
  BY <1>1, <1>2, <1>6 DEF HeldInv, IdleEmpty, LoopEmpty, AttemptKnown
<1>. QED
  BY <1>1, <1>5, <1>7, <1>8 DEF HeldInv

\* A handoff that meets a stopped queue drops a job only of that queue.
LEMMA HandoffStoppedHeld ==
    ASSUME TypeOK, HeldInv, NEW j \in Jobs, HandoffStopped(j)
    PROVE  HeldInv'
<1>. USE DEF envVars, jobVars, chanVars, loopVars, heldVars, slotVars
<1>1. Attempting' = Attempting /\ Working' = Working /\ HookReport'
  BY AfterHandoffHeld DEF HandoffStopped
<1>2. /\ handing' = handing \ {j} /\ stop /\ stop' = stop
      /\ UNCHANGED <<row, cmds, queue, waiting, inFlight, done, pc>>
  BY DEF HandoffStopped
<1>3. HeldOnce'
  BY SMT, <1>1, <1>2, ApartSix DEF HeldInv, HeldOnce
<1>4. Held' \subseteq Held /\ Queued' = Queued /\ Known' = Known
  BY <1>1, <1>2 DEF Held, Queued, Known
<1>5. NoJobLost'
  BY <1>2, <1>4, HeldSets DEF NoJobLost, Queued
<1>6. IdleEmpty' /\ AttemptKnown'
  BY <1>1, <1>2, <1>4 DEF HeldInv, IdleEmpty, LoopEmpty, AttemptKnown
<1>. QED
  BY <1>1, <1>3, <1>5, <1>6 DEF HeldInv

\* An attempt that writes an outcome, the first one or the one of its recovery,
\* gives its job up.
LEMMA OutcomeHeld ==
    ASSUME TypeOK, HeldInv, NEW j \in Jobs, NEW s \in {"completed", "failed"},
           NEW m \in Report, m.retryAt = 0, attempt[j] # "none",
           row' = [row EXCEPT ![j] = s], report' = [report EXCEPT ![j] = m],
           UNCHANGED <<handing, cmds, queue, waiting, inFlight, done, pc, stop>>,
           \E a \in {"hook", "send"} : attempt' = [attempt EXCEPT ![j] = a]
    PROVE  HeldInv'
<1>1. UNCHANGED <<handing, cmds, queue, waiting, inFlight, done, pc, stop>>
  OBVIOUS
<1>2. /\ Attempting' = Attempting /\ Working' = Working \ {j} /\ HookReport'
      /\ j \in Attempting
  BY SMT DEF TypeOK, HeldInv, HookReport, Attempting, Working, Report
<1>3. Queued' = Queued \ {j} /\ Known' = Known \cup {j}
  BY SMT DEF TypeOK, Queued, Known
<1>4. HeldOnce'
  BY <1>1, <1>2 DEF HeldInv, HeldOnce
<1>5. Held' = Held \ {j}
  <2>1. /\ j \notin handing /\ j \notin Members(cmds) /\ j \notin Members(queue)
        /\ j \notin JobsOf(waiting) /\ j \notin JobsOf(done)
    BY <1>2, HeldApart
  <2>2. j \notin ToRetry(done)
    BY <2>1, HeldSets
  <2> QED
    BY <1>1, <1>2, <2>1, <2>2 DEF Held
<1>6. NoJobLost'
  <2>0. Held \subseteq Queued /\ (~stop => Queued \subseteq Held) /\ stop' = stop
    BY <1>1, HeldSets
  <2>1. Held' \subseteq Queued' /\ (~stop' => Queued' \subseteq Held')
    BY SMT, <1>3, <1>5, <2>0
  <2> QED
    BY Zenon, <2>1 DEF NoJobLost, Queued
<1>7. IdleEmpty' /\ AttemptKnown'
  BY <1>1, <1>2, <1>3 DEF HeldInv, IdleEmpty, LoopEmpty, AttemptKnown
<1>. QED
  BY <1>2, <1>4, <1>6, <1>7 DEF HeldInv

\* The attempts that end with an outcome.
LEMMA EndAttemptHeld ==
    ASSUME TypeOK, HeldInv, NEW j \in Jobs, NEW s \in {"completed", "failed"},
           NEW m \in Report, m.retryAt = 0, attempt[j] = "run", EndAttempt(j, s, m)
    PROVE  HeldInv'
<1>. USE DEF envVars, jobVars, chanVars, loopVars, heldVars, slotVars
<1>1. /\ row' = [row EXCEPT ![j] = s] /\ report' = [report EXCEPT ![j] = m]
      /\ UNCHANGED <<handing, cmds, queue, waiting, inFlight, done, pc, stop>>
      /\ \E a \in {"hook", "send"} : attempt' = [attempt EXCEPT ![j] = a]
  BY DEF EndAttempt
<1>. QED
  BY <1>1, OutcomeHeld

\* A panic of an attempt, wherever it is.
LEMMA ExecutePanickedHeld ==
    ASSUME TypeOK, HeldInv, NEW j \in Jobs, ExecutePanicked(j)
    PROVE  HeldInv'
<1>. USE DEF envVars, jobVars, chanVars, loopVars, heldVars, slotVars
<1>1. /\ row' = [row EXCEPT ![j] = "failed"]
      /\ report' = [report EXCEPT ![j] = PanicReport]
      /\ UNCHANGED <<handing, cmds, queue, waiting, inFlight, done, pc, stop>>
      /\ \E a \in {"hook", "send"} : attempt' = [attempt EXCEPT ![j] = a]
      /\ attempt[j] # "none"
  BY DEF ExecutePanicked
<1>2. PanicReport \in Report /\ PanicReport.retryAt = 0
  BY DEF PanicReport, Report, Health
<1>. QED
  BY <1>1, <1>2, OutcomeHeld

\* A retryable answer keeps the job with its attempt until it is reported.
LEMMA ExecuteRetryHeld ==
    ASSUME TypeOK, HeldInv, NEW j \in Jobs, ExecuteRetry(j)
    PROVE  HeldInv'
<1>. USE DEF envVars, jobVars, chanVars, loopVars, heldVars, slotVars
<1>1. PICK d \in Delays, h \in {"failed", "none"} :
          report' = [report EXCEPT ![j] = [retryAt |-> now + d, health |-> h]]
  BY DEF ExecuteRetry
<1>2. now + d > 0
  BY SMT, RetryAssumption DEF TypeOK
<1>3. /\ attempt[j] = "run" /\ attempt' = [attempt EXCEPT ![j] = "send"]
      /\ UNCHANGED <<row, handing, cmds, queue, waiting, inFlight, done, pc, stop>>
  BY DEF ExecuteRetry
<1>4. Attempting' = Attempting /\ Working' = Working /\ HookReport'
  BY <1>1, <1>2, <1>3 DEF TypeOK, HeldInv, HookReport, Attempting, Working
<1>5. IdleEmpty'
  BY <1>3 DEF HeldInv, IdleEmpty, LoopEmpty
<1>. QED
  BY <1>3, <1>4, <1>5, UnmovedHeld

\* An attempt cut off by Stop leaves the row queued.
LEMMA ExecuteCancelledHeld ==
    ASSUME TypeOK, HeldInv, NEW j \in Jobs, ExecuteCancelled(j)
    PROVE  HeldInv'
<1>. USE DEF envVars, jobVars, chanVars, loopVars, heldVars, slotVars
<1>1. /\ attempt[j] = "run" /\ attempt' = [attempt EXCEPT ![j] = "send"]
      /\ report' = [report EXCEPT ![j] = NoReport]
      /\ row' = [row EXCEPT ![j] = "queued"] /\ stop /\ stop' = stop
      /\ UNCHANGED <<handing, cmds, queue, waiting, inFlight, done, pc>>
  BY DEF ExecuteCancelled
<1>2. /\ Attempting' = Attempting /\ Working' = Working \ {j} /\ HookReport'
      /\ j \in Working
  BY SMT, <1>1 DEF TypeOK, HeldInv, HookReport, Attempting, Working, NoReport
<1>3. j \in Queued
  BY <1>2, HeldSets DEF Held
<1>4. Queued' = Queued /\ Known' = Known
  BY <1>1, <1>3 DEF TypeOK, Queued, Known
<1>5. HeldOnce'
  BY <1>1, <1>2 DEF HeldInv, HeldOnce
<1>6. Held' \subseteq Held
  BY <1>1, <1>2 DEF Held
<1>7. NoJobLost'
  BY <1>1, <1>4, <1>6, HeldSets DEF NoJobLost, Queued
<1>8. IdleEmpty' /\ AttemptKnown'
  BY <1>1, <1>2, <1>4 DEF HeldInv, IdleEmpty, LoopEmpty, AttemptKnown
<1>. QED
  BY <1>2, <1>5, <1>7, <1>8 DEF HeldInv

\* The attempt's message goes to the loop, or the stopped queue drops it.
LEMMA SendDoneHeld ==
    ASSUME TypeOK, HeldInv, NEW j \in Jobs, SendDone(j)
    PROVE  HeldInv'
<1>. USE DEF envVars, jobVars, chanVars, loopVars, heldVars, slotVars
<1>. DEFINE m == [job |-> j, retryAt |-> report[j].retryAt, health |-> report[j].health]
<1>1. /\ attempt[j] = "send" /\ attempt' = [attempt EXCEPT ![j] = "none"]
      /\ report' = [report EXCEPT ![j] = NoReport]
      /\ UNCHANGED <<row, handing, cmds, queue, waiting, inFlight, pc, stop>>
      /\ done' = Append(done, m) \/ (stop /\ done' = done)
  BY DEF SendDone
<1>2. /\ Attempting' = Attempting \ {j} /\ Working' = Working \ {j} /\ HookReport'
      /\ j \in Attempting /\ (report[j].retryAt > 0 <=> j \in Working)
  BY <1>1 DEF TypeOK, HeldInv, HookReport, Attempting, Working
<1>3. m \in JobDoneMsg /\ m.job = j /\ m.retryAt = report[j].retryAt
  BY DEF TypeOK, Report, JobDoneMsg
<1>4. Queued' = Queued /\ Known' = Known
  BY <1>1 DEF Queued, Known
<1>5. j \notin JobsOf(done) /\ j \in Known
  BY <1>2, HeldApart DEF HeldInv, AttemptKnown
<1>6. CASE done' = Append(done, m)
  <2>. HIDE DEF m
  <2>1. /\ JobsOf(done') = JobsOf(done) \cup {j} /\ DistinctJobs(done')
        /\ ToRetry(done') = ToRetry(done) \cup (IF j \in Working THEN {j} ELSE {})
    <3>1. JobsOf(done') = JobsOf(done) \cup {j} /\ DistinctJobs(done')
      <4>1. done \in Seq(JobDoneMsg) /\ DistinctJobs(done)
        BY HeldApart
      <4>2. JobsOf(Append(done, m)) = JobsOf(done) \cup {m.job} /\ DistinctJobs(Append(done, m))
        BY SMT, <1>3, <1>5, <4>1, AppendJobs
      <4>. QED
        BY <1>3, <1>6, <4>2
    <3>2. ToRetry(done') = ToRetry(done) \cup (IF m.retryAt > 0 THEN {m.job} ELSE {})
      BY <1>3, <1>6, HeldApart, AppendToRetry
    <3>. QED
      BY <1>2, <1>3, <3>1, <3>2
  <2>2. HeldOnce'
    BY SMT, <1>1, <1>2, <2>1, ApartSix DEF HeldInv, HeldOnce
  <2>3. Held' = Held
    BY <1>1, <1>2, <2>1 DEF Held
  <2>4. NoJobLost'
    BY <1>1, <1>4, <2>3, HeldSets DEF NoJobLost, Queued
  <2>5. IdleEmpty' /\ AttemptKnown'
    BY <1>1, <1>2, <1>4, <1>5, <2>1 DEF HeldInv, IdleEmpty, LoopEmpty, AttemptKnown
  <2>. QED
    BY <1>2, <2>2, <2>4, <2>5 DEF HeldInv
<1>7. CASE stop /\ done' = done
  <2>2. HeldOnce'
    BY SMT, <1>1, <1>2, <1>7, ApartSix DEF HeldInv, HeldOnce
  <2>3. Held' \subseteq Held
    BY <1>1, <1>2, <1>7 DEF Held
  <2>4. NoJobLost'
    BY <1>1, <1>4, <1>7, <2>3, HeldSets DEF NoJobLost, Queued
  <2>5. IdleEmpty' /\ AttemptKnown'
    BY <1>1, <1>2, <1>4, <1>7 DEF HeldInv, IdleEmpty, LoopEmpty, AttemptKnown
  <2>. QED
    BY <1>2, <2>2, <2>4, <2>5 DEF HeldInv
<1>. QED
  BY <1>1, <1>6, <1>7

\* A sweep fails the queued job it removes, and no other.
LEMMA DropQueuedHeld ==
    ASSUME TypeOK, HeldInv, NEW STATE P, DropQueued(P), IdleEmpty'
    PROVE  HeldInv'
<1>. USE DEF envVars, jobVars, chanVars, loopVars, heldVars, slotVars, goVars
<1>1. PICK i \in DOMAIN queue :
          FailQueued(queue[i]) /\ queue' = Without(queue, i)
  BY DEF DropQueued
<1>. DEFINE x == queue[i]
<1>2. /\ row' = [row EXCEPT ![x] = "failed"]
      /\ UNCHANGED <<handing, cmds, waiting, done, attempt, report, stop>>
  BY <1>1 DEF FailQueued, DropQueued
<1>3. x \in Jobs
  BY SMTT(30) DEF TypeOK
<1>4. Members(queue') = Members(queue) \ {x} /\ DistinctMembers(queue') /\ x \in Members(queue)
  BY <1>1, WithoutMembers DEF TypeOK, HeldInv, HeldOnce
<1>. HIDE DEF x
<1>5. Attempting' = Attempting /\ Working' = Working /\ HookReport'
  BY <1>2 DEF HeldInv, HookReport, Attempting, Working
<1>6. HeldOnce'
  BY SMT, <1>2, <1>4, <1>5, ApartSix DEF HeldInv, HeldOnce
<1>7. Queued' = Queued \ {x} /\ Known' = Known \cup {x}
  BY <1>2, <1>3 DEF TypeOK, Queued, Known
<1>8. Held' = Held \ {x}
  <2>1. x \notin Working /\ x \notin ToRetry(done)
    BY <1>4, HeldSets, HeldApart
  <2>. QED
    BY <1>2, <1>4, <1>5, <2>1, HeldApart DEF Held
<1>9. NoJobLost' /\ AttemptKnown'
  BY <1>2, <1>5, <1>7, <1>8, HeldSets DEF NoJobLost, Queued, HeldInv, AttemptKnown
<1>. QED
  BY <1>5, <1>6, <1>9 DEF HeldInv

\* A sweep fails the waiting job it removes, and no other.
LEMMA DropWaitingHeld ==
    ASSUME TypeOK, HeldInv, NEW STATE P, DropWaiting(P), IdleEmpty'
    PROVE  HeldInv'
<1>. USE DEF envVars, jobVars, chanVars, loopVars, heldVars, slotVars, goVars
<1>1. PICK i \in DOMAIN waiting :
          FailQueued(waiting[i].job) /\ waiting' = Without(waiting, i)
  BY DEF DropWaiting
<1>. DEFINE x == waiting[i].job
<1>2. /\ row' = [row EXCEPT ![x] = "failed"]
      /\ UNCHANGED <<handing, cmds, queue, done, attempt, report, stop>>
  BY <1>1 DEF FailQueued, DropWaiting
<1>3. x \in Jobs
  <2>1. waiting[i] \in WaitingJob
    BY SMT DEF TypeOK
  <2>. QED
    BY <2>1 DEF WaitingJob
<1>4. JobsOf(waiting') = JobsOf(waiting) \ {x} /\ DistinctJobs(waiting') /\ x \in JobsOf(waiting)
  BY <1>1, WithoutJobs DEF TypeOK, HeldInv, HeldOnce
<1>. HIDE DEF x
<1>5. Attempting' = Attempting /\ Working' = Working /\ HookReport'
  BY <1>2 DEF HeldInv, HookReport, Attempting, Working
<1>6. HeldOnce'
  BY SMT, <1>2, <1>4, <1>5, ApartSix DEF HeldInv, HeldOnce
<1>7. Queued' = Queued \ {x} /\ Known' = Known \cup {x}
  BY <1>2, <1>3 DEF TypeOK, Queued, Known
<1>8. Held' = Held \ {x}
  <2>1. x \notin Working /\ x \notin ToRetry(done)
    BY <1>4, HeldSets, HeldApart
  <2>. QED
    BY <1>2, <1>4, <1>5, <2>1, HeldApart DEF Held
<1>9. NoJobLost' /\ AttemptKnown'
  BY <1>2, <1>5, <1>7, <1>8, HeldSets DEF NoJobLost, Queued, HeldInv, AttemptKnown
<1>. QED
  BY <1>5, <1>6, <1>9 DEF HeldInv

\* The head of the queue gets a goroutine of its own.
LEMMA DispatchHeld ==
    ASSUME TypeOK, HeldInv, Dispatch
    PROVE  HeldInv'
<1>. USE DEF envVars, jobVars, chanVars, loopVars, heldVars, slotVars, goVars
<1>. DEFINE x == Head(queue)
<1>1. /\ queue # <<>> /\ queue' = Tail(queue) /\ pc = "dispatch" /\ pc' = pc
      /\ attempt' = [attempt EXCEPT ![x] = "run"]
      /\ UNCHANGED <<row, handing, cmds, waiting, done, report, stop>>
  BY DEF Dispatch, CanDispatch
<1>2. x \in Jobs
  BY SMT, <1>1 DEF TypeOK
<1>3. Members(queue') = Members(queue) \ {x} /\ DistinctMembers(queue') /\ x \in Members(queue)
  BY <1>1, HeldApart, TailMembers
<1>. HIDE DEF x
<1>4. /\ Attempting' = Attempting \cup {x} /\ Working' = Working \cup {x} /\ HookReport'
  BY <1>1, <1>2 DEF TypeOK, HeldInv, HookReport, Attempting, Working
<1>5. HeldOnce'
  <2>1. Apart(<<handing, Members(cmds), Members(queue) \ {x}, JobsOf(waiting),
               Attempting \cup {x}, JobsOf(done)>>)
    BY <1>3, HeldPlaces, ApartMove
  <2>. QED
    BY <1>1, <1>3, <1>4, <2>1, HeldApart DEF HeldOnce
<1>6. Queued' = Queued /\ Known' = Known /\ Held' = Held
  BY <1>1, <1>3, <1>4 DEF Queued, Known, Held
<1>7. x \in Known
  BY <1>3, HeldSets DEF Held
<1>8. NoJobLost' /\ AttemptKnown' /\ IdleEmpty'
  BY <1>1, <1>4, <1>6, <1>7, HeldSets DEF NoJobLost, Queued, HeldInv, AttemptKnown, IdleEmpty
<1>. QED
  BY <1>4, <1>5, <1>8 DEF HeldInv

\* The loop moves a job from the channel to the queue.
LEMMA ReadCmdHeld ==
    ASSUME TypeOK, HeldInv, ReadCmd
    PROVE  HeldInv'
<1>. USE DEF envVars, jobVars, chanVars, loopVars, heldVars, slotVars, goVars
<1>. DEFINE x == Head(cmds)
<1>1. /\ cmds # <<>> /\ cmds' = Tail(cmds) /\ queue' = Append(queue, x) /\ pc' = "sweep"
      /\ UNCHANGED <<row, handing, waiting, done, attempt, report, stop>>
  BY DEF ReadCmd
<1>2. x \in Jobs
  BY SMT, <1>1 DEF TypeOK
<1>3. Members(cmds') = Members(cmds) \ {x} /\ DistinctMembers(cmds') /\ x \in Members(cmds)
  BY <1>1, HeldApart, TailMembers
<1>4. x \notin Members(queue)
  BY SMT, <1>3, ApartSix DEF HeldInv, HeldOnce
<1>. HIDE DEF x
<1>5. Members(queue') = Members(queue) \cup {x} /\ DistinctMembers(queue')
  <2>1. queue \in Seq(Jobs) /\ DistinctMembers(queue)
    BY HeldApart
  <2>2. Members(Append(queue, x)) = Members(queue) \cup {x} /\ DistinctMembers(Append(queue, x))
    BY SMTT(30), <1>2, <1>4, <2>1, AppendMembers
  <2>. QED
    BY <1>1, <2>2
<1>6. Attempting' = Attempting /\ Working' = Working /\ HookReport'
  BY <1>1 DEF HeldInv, HookReport, Attempting, Working
<1>7. HeldOnce'
  <2>1. Apart(<<handing, Members(cmds) \ {x}, Members(queue) \cup {x}, JobsOf(waiting),
               Attempting, JobsOf(done)>>)
    BY <1>3, HeldPlaces, ApartMove
  <2>. QED
    BY <1>1, <1>3, <1>5, <1>6, <2>1, HeldApart DEF HeldOnce
<1>8. Queued' = Queued /\ Known' = Known /\ Held' = Held
  BY <1>1, <1>3, <1>5, <1>6 DEF Queued, Known, Held
<1>9. NoJobLost' /\ AttemptKnown' /\ IdleEmpty'
  BY <1>1, <1>6, <1>8, HeldSets DEF NoJobLost, Queued, HeldInv, AttemptKnown, IdleEmpty
<1>. QED
  BY <1>6, <1>7, <1>9 DEF HeldInv

\* A message is read: the job backs off, or the queue is done with it.
LEMMA ReadDoneHeld ==
    ASSUME TypeOK, HeldInv, ReadDone
    PROVE  HeldInv'
<1>. USE DEF envVars, jobVars, chanVars, loopVars, heldVars, slotVars, goVars
<1>. DEFINE m == Head(done)
            e == [job |-> m.job, at |-> m.retryAt]
<1>1. /\ done # <<>> /\ done' = Tail(done) /\ pc' = "sweep"
      /\ waiting' = IF m.retryAt > 0 THEN Append(waiting, e) ELSE waiting
      /\ UNCHANGED <<row, handing, cmds, queue, attempt, report, stop>>
  BY DEF ReadDone
<1>2. m \in JobDoneMsg
  BY SMT, <1>1 DEF TypeOK
<1>3. m.job \in Jobs /\ e \in WaitingJob /\ e.job = m.job
  BY <1>2 DEF JobDoneMsg, WaitingJob
<1>4. /\ JobsOf(done') = JobsOf(done) \ {m.job} /\ DistinctJobs(done')
      /\ ToRetry(done') = ToRetry(done) \ {m.job}
      /\ m.job \in JobsOf(done) /\ (m.retryAt > 0 <=> m.job \in ToRetry(done))
  <2>1. done \in Seq(JobDoneMsg) /\ DistinctJobs(done)
    BY HeldApart
  <2>. QED
    BY <1>1, <2>1, TailJobs, TailToRetry
<1>5. m.job \notin JobsOf(waiting)
  BY <1>4, HeldApart
<1>. HIDE DEF m, e
<1>6. /\ JobsOf(waiting') = JobsOf(waiting) \cup (IF m.retryAt > 0 THEN {m.job} ELSE {})
      /\ DistinctJobs(waiting')
  <2>1. CASE m.retryAt > 0
    <3>1. waiting' = Append(waiting, e)
      BY <1>1, <2>1
    <3>2. waiting \in Seq(WaitingJob) /\ DistinctJobs(waiting)
      BY HeldApart
    <3>3. /\ JobsOf(Append(waiting, e)) = JobsOf(waiting) \cup {e.job}
          /\ DistinctJobs(Append(waiting, e))
      BY SMT, <1>3, <1>5, <3>2, AppendJobs
    <3>. QED
      BY <1>3, <2>1, <3>1, <3>3
  <2>2. CASE ~(m.retryAt > 0)
    BY <1>1, <2>2, HeldApart
  <2>. QED
    BY <2>1, <2>2
<1>7. Attempting' = Attempting /\ Working' = Working /\ HookReport'
  BY <1>1 DEF HeldInv, HookReport, Attempting, Working
<1>8. HeldOnce'
  <2>1. /\ Apart(<<handing, Members(cmds), Members(queue), JobsOf(waiting) \cup {m.job},
                  Attempting, JobsOf(done) \ {m.job}>>)
        /\ Apart(<<handing, Members(cmds), Members(queue), JobsOf(waiting),
                  Attempting, JobsOf(done) \ {m.job}>>)
    BY <1>4, HeldPlaces, ApartMove
  <2>2. JobsOf(waiting') = JobsOf(waiting) \cup {m.job} \/ JobsOf(waiting') = JobsOf(waiting)
    BY <1>6
  <2>. QED
    BY <1>1, <1>4, <1>6, <1>7, <2>1, <2>2, HeldApart DEF HeldOnce
<1>9. Queued' = Queued /\ Known' = Known /\ Held' = Held
  BY SMTT(30), <1>1, <1>4, <1>6, <1>7 DEF Queued, Known, Held
<1>10. NoJobLost' /\ AttemptKnown' /\ IdleEmpty'
  BY <1>1, <1>4, <1>7, <1>9, HeldSets DEF NoJobLost, Queued, HeldInv, AttemptKnown, IdleEmpty
<1>. QED
  BY <1>7, <1>8, <1>10 DEF HeldInv

\* The retry timer moves a due job from the waiting list to the queue.
LEMMA RequeueDueHeld ==
    ASSUME TypeOK, HeldInv, RequeueDue
    PROVE  HeldInv'
<1>. USE DEF envVars, jobVars, chanVars, loopVars, heldVars, slotVars, goVars
<1>1. PICK i \in DOMAIN waiting :
          queue' = Append(queue, waiting[i].job) /\ waiting' = Without(waiting, i)
  BY DEF RequeueDue, StillWaiting
<1>. DEFINE x == waiting[i].job
<1>2. pc' = "retry" /\ UNCHANGED <<row, handing, cmds, done, attempt, report, stop>>
  BY DEF RequeueDue
<1>3. x \in Jobs
  <2>1. waiting[i] \in WaitingJob
    BY SMT DEF TypeOK
  <2>. QED
    BY <2>1 DEF WaitingJob
<1>4. JobsOf(waiting') = JobsOf(waiting) \ {x} /\ DistinctJobs(waiting') /\ x \in JobsOf(waiting)
  BY <1>1, WithoutJobs DEF TypeOK, HeldInv, HeldOnce
<1>5. x \notin Members(queue)
  BY SMT, <1>4, ApartSix DEF HeldInv, HeldOnce
<1>6. Members(queue') = Members(queue) \cup {x} /\ DistinctMembers(queue')
  <2>1. queue' = Append(queue, x)
    BY <1>1
  <2>. HIDE DEF x
  <2>. QED
    <3>1. queue \in Seq(Jobs) /\ DistinctMembers(queue)
      BY HeldApart
    <3>2. Members(Append(queue, x)) = Members(queue) \cup {x} /\ DistinctMembers(Append(queue, x))
      BY SMTT(30), <1>3, <1>5, <3>1, AppendMembers
    <3>. QED
      BY <2>1, <3>2
<1>. HIDE DEF x
<1>7. Attempting' = Attempting /\ Working' = Working /\ HookReport'
  BY <1>2 DEF HeldInv, HookReport, Attempting, Working
<1>8. HeldOnce'
  <2>1. Apart(<<handing, Members(cmds), Members(queue) \cup {x}, JobsOf(waiting) \ {x},
               Attempting, JobsOf(done)>>)
    BY <1>4, HeldPlaces, ApartMove
  <2>. QED
    BY <1>2, <1>4, <1>6, <1>7, <2>1, HeldApart DEF HeldOnce
<1>9. Queued' = Queued /\ Known' = Known /\ Held' = Held
  BY <1>2, <1>4, <1>6, <1>7 DEF Queued, Known, Held
<1>10. NoJobLost' /\ AttemptKnown' /\ IdleEmpty'
  BY <1>2, <1>7, <1>9, HeldSets DEF NoJobLost, Queued, HeldInv, AttemptKnown, IdleEmpty
<1>. QED
  BY <1>7, <1>8, <1>10 DEF HeldInv

\* run starts again, or the queue retires or stops: the loop held nothing.
LEMMA SuperviseHeld ==
    ASSUME TypeOK, HeldInv, Supervise
    PROVE  HeldInv'
<1>. USE DEF envVars, jobVars, chanVars, loopVars, heldVars, slotVars, goVars
<1>1. UNCHANGED <<row, handing, cmds, done, attempt, report, stop>>
  BY DEF Supervise
<1>2. LoopEmpty
  BY DEF Supervise, HeldInv, IdleEmpty
<1>3. queue' = queue /\ waiting' = waiting /\ inFlight' = inFlight
  BY <1>2 DEF Supervise, FreshRun, LoopEmpty
<1>4. IdleEmpty'
  BY <1>2, <1>3 DEF IdleEmpty, LoopEmpty
<1>5. Attempting' = Attempting /\ Working' = Working /\ HookReport'
  BY <1>1 DEF HeldInv, HookReport, Attempting, Working
<1>. QED
  BY <1>1, <1>3, <1>4, <1>5, UnmovedHeld

\* Goroutines that hand a webhook over.
LEMMA HookHeld ==
    ASSUME TypeOK, HeldInv, NEW j \in Jobs, HookQueued(j) \/ HookExecuted(j)
    PROVE  HeldInv'
<1>. USE DEF envVars, jobVars, chanVars, loopVars, heldVars, slotVars, goVars
<1>1. Hook[j] \in Jobs
  BY SMTT(30), HookAssumption DEF TypeOK, HookQueued, HookExecuted
<1>2. UNCHANGED <<cmds, done, stop, report>>
  BY DEF HookQueued, HookExecuted
<1>3. Attempting' = Attempting /\ Working' = Working /\ HookReport'
  <2>1. CASE HookQueued(j)
    BY <2>1 DEF HookQueued, HeldInv, HookReport, Attempting, Working
  <2>2. CASE HookExecuted(j)
    <3>1. attempt[j] = "hook" /\ \E a \in {"handoff", "send"} :
              attempt' = [attempt EXCEPT ![j] = a]
      BY <2>2 DEF HookExecuted
    <3>. QED
      BY SMT, <1>2, <3>1 DEF TypeOK, HeldInv, HookReport, Attempting, Working
  <2>. QED
    BY <2>1, <2>2
<1>4. CASE HookSkipped(j)
  <2>1. UNCHANGED <<row, handing, queue, waiting, inFlight, pc>>
    BY <1>4 DEF HookQueued, HookExecuted
  <2>2. IdleEmpty'
    BY <2>1 DEF HeldInv, IdleEmpty, LoopEmpty
  <2>. QED
    BY <1>2, <1>3, <2>1, <2>2, UnmovedHeld
<1>5. CASE ~HookSkipped(j)
  <2>1. Reserve(Hook[j]) /\ ~stop
    BY <1>5 DEF HookQueued, HookExecuted, HookSkipped
  <2>. QED
    BY <1>1, <1>2, <1>3, <2>1, ReserveHeld
<1>. QED
  BY <1>4, <1>5

\* Every way an attempt ends keeps each job in one place.
LEMMA ExecuteHeld ==
    ASSUME TypeOK, HeldInv, NEW j \in Jobs, Execute(j)
    PROVE  HeldInv'
<1>1. CASE ExecuteExpired(j)
  BY <1>1, EndAttemptHeld DEF ExecuteExpired, NoReport, Report, Health
<1>2. CASE ExecuteCompleted(j)
  BY <1>2, EndAttemptHeld DEF ExecuteCompleted, Report, Health
<1>3. CASE ExecuteFailed(j)
  <2>1. PICK h \in {"failed", "none"} :
            EndAttempt(j, "failed", [retryAt |-> 0, health |-> h])
    BY <1>3 DEF ExecuteFailed
  <2>2. [retryAt |-> 0, health |-> h] \in Report
    BY DEF Report, Health
  <2>. QED
    BY <1>3, <2>1, <2>2, EndAttemptHeld DEF ExecuteFailed
<1>. QED
  BY <1>1, <1>2, <1>3, ExecuteRetryHeld, ExecuteCancelledHeld DEF Execute

\* Steps of the loop, the clock and Stop that touch no job.
LEMMA QuietHeld ==
    ASSUME TypeOK, HeldInv,
           UNCHANGED <<row, handing, cmds, queue, waiting, done, attempt, report>>,
           IdleEmpty', stop => stop'
    PROVE  HeldInv'
<1>1. Attempting' = Attempting /\ Working' = Working /\ HookReport'
  BY DEF HeldInv, HookReport, Attempting, Working
<1>. QED
  BY <1>1, UnmovedHeld

\* Every step of a pass of the loop keeps each job in one place.
LEMMA PassHeld ==
    ASSUME TypeOK, HeldInv, Pass
    PROVE  HeldInv'
<1>. USE DEF envVars, jobVars, chanVars, loopVars, heldVars, slotVars, goVars, timerVars
<1>1. CASE DropExpired \/ FailDeadQueued
  <2>1. IdleEmpty'
    BY <1>1 DEF DropExpired, FailDeadQueued, DropQueued, IdleEmpty
  <2>. QED
    BY <1>1, <2>1, DropQueuedHeld DEF DropExpired, FailDeadQueued
<1>2. CASE DropExpiredWaiting \/ FailDeadWaiting
  <2>1. IdleEmpty'
    BY <1>2 DEF DropExpiredWaiting, FailDeadWaiting, DropWaiting, IdleEmpty
  <2>. QED
    BY <1>2, <2>1, DropWaitingHeld DEF DropExpiredWaiting, FailDeadWaiting
<1>3. CASE FailDeadEnd \/ DispatchExpired \/ DispatchEnd
  BY SMT, <1>3, QuietHeld DEF FailDeadEnd, DispatchExpired, DispatchEnd, Goto, IdleEmpty
<1>4. CASE DropExpiredEnd
  BY <1>4, QuietHeld DEF DropExpiredEnd, IdleEmpty
<1>5. CASE DropExpiredWaitingEnd
  BY <1>5, QuietHeld DEF DropExpiredWaitingEnd, IdleEmpty
<1>6. CASE DispatchPaced
  BY <1>6, QuietHeld DEF DispatchPaced, IdleEmpty
<1>7. CASE RequeueEnd
  BY <1>7, QuietHeld DEF RequeueEnd, IdleEmpty
<1>. QED
  BY <1>1, <1>2, <1>3, <1>4, <1>5, <1>6, <1>7, DispatchHeld, RequeueDueHeld,
     SuperviseHeld DEF Pass

\* Every case of the select keeps each job in one place.
LEMMA SelectHeld ==
    ASSUME TypeOK, HeldInv, Select
    PROVE  HeldInv'
<1>. USE DEF envVars, jobVars, chanVars, loopVars, heldVars, slotVars, goVars, timerVars
<1>1. CASE TimerFires("dispatch") \/ TimerFires("position")
  BY SMT, <1>1, QuietHeld DEF TimerFires, IdleEmpty
<1>2. CASE RetryTimerFires
  BY <1>2, QuietHeld DEF RetryTimerFires, IdleEmpty
<1>3. CASE IdleFires
  BY <1>3, QuietHeld DEF IdleFires, IdleEmpty, LoopEmpty
<1>4. CASE ReadStop
  BY <1>4, QuietHeld DEF ReadStop, IdleEmpty
<1>. QED
  BY <1>1, <1>2, <1>3, <1>4, ReadCmdHeld, ReadDoneHeld DEF Select

\* Every step of the queue keeps HeldInv.
LEMMA HeldStep == TypeOK /\ HeldInv /\ [Next]_vars => HeldInv'
<1>. SUFFICES ASSUME TypeOK, HeldInv, [Next]_vars PROVE HeldInv'
  OBVIOUS
<1>. USE DEF envVars, jobVars, chanVars, loopVars, heldVars, slotVars, goVars, timerVars
<1>1. ASSUME NEW j \in Jobs, Accept(j) PROVE HeldInv'
  <2>1. Attempting' = Attempting /\ Working' = Working /\ HookReport'
    BY <1>1 DEF Accept, HeldInv, HookReport, Attempting, Working
  <2>. QED
    BY <1>1, <2>1, ReserveHeld DEF Accept
<1>2. ASSUME NEW j \in Jobs,
             Accept(j) \/ Sender(j) \/ Execute(j) \/ ExecutePanicked(j) \/ SendDone(j)
      PROVE  HeldInv'
  BY <1>1, <1>2, HandoffHeld, HandoffStoppedHeld, HookHeld, ExecuteHeld, ExecutePanickedHeld,
     SendDoneHeld DEF Sender
<1>3. CASE Tick \/ PaceElapses \/ Stop
  <2>1. /\ UNCHANGED <<row, handing, cmds, queue, waiting, done, attempt, report, pc, inFlight>>
        /\ stop => stop'
    BY SMT, <1>3 DEF Tick, PaceElapses, Stop
  <2>2. IdleEmpty'
    BY <2>1 DEF HeldInv, IdleEmpty, LoopEmpty
  <2>. QED
    BY <2>1, <2>2, QuietHeld
<1>4. CASE Finished \/ UNCHANGED vars
  <2>1. UNCHANGED <<row, handing, cmds, queue, waiting, done, attempt, report, pc, inFlight, stop>>
    BY <1>4 DEF Finished, vars
  <2>2. IdleEmpty'
    BY <2>1 DEF HeldInv, IdleEmpty, LoopEmpty
  <2>. QED
    BY <2>1, <2>2, QuietHeld
<1>. QED
  BY <1>2, <1>3, <1>4, PassHeld, SelectHeld DEF Next

\* A new queue holds nothing.
LEMMA HeldInit == Init => HeldInv
<1>. SUFFICES ASSUME Init PROVE HeldInv
  OBVIOUS
<1>1. /\ handing = {} /\ Members(cmds) = {} /\ Members(queue) = {}
      /\ JobsOf(waiting) = {} /\ JobsOf(done) = {} /\ ToRetry(done) = {}
  BY EmptySlice DEF Init
<1>2. Attempting = {} /\ Working = {} /\ {j \in Jobs : row[j] = "queued"} = {}
  BY DEF Init, Attempting, Working
<1>3. /\ DistinctMembers(cmds) /\ DistinctMembers(queue)
      /\ DistinctJobs(waiting) /\ DistinctJobs(done)
  BY EmptySlice DEF Init
<1>4. HeldOnce
  BY SMTT(30), <1>1, <1>2, <1>3, ApartSix DEF HeldOnce
<1>5. NoJobLost
  BY <1>1, <1>2 DEF NoJobLost, Held
<1>6. IdleEmpty /\ HookReport /\ AttemptKnown
  BY <1>1, <1>2 DEF Init, IdleEmpty, LoopEmpty, HookReport, AttemptKnown
<1>. QED
  BY <1>4, <1>5, <1>6 DEF HeldInv

-----------------------------------------------------------------------------
(* The type invariant. *)

\* QueueDeadline yields a time.
LEMMA DeadlineType == TypeOK => \A j \in Jobs : QueueDeadline(j) \in Nat
  BY SMT, DeadlineAssumption DEF TypeOK, QueueDeadline

\* trackDeadline keeps nextDeadline a time.
LEMMA TrackDeadlineType ==
    ASSUME TypeOK, NEW next \in Nat, NEW j \in Jobs
    PROVE  TrackDeadline(next, j) \in Nat
  BY DeadlineType DEF TrackDeadline

\* resetRetryTimer sets the timer to a time, 0 when nothing waits.
LEMMA RetryTimerType ==
    ASSUME NEW w \in Seq(WaitingJob)
    PROVE  ResetRetryTimer(w) \in Nat
<1>1. \A i \in DOMAIN w : w[i] \in WaitingJob
  BY SMT
<1>2. {w[i].at : i \in DOMAIN w} \in SUBSET Nat
  BY <1>1 DEF WaitingJob
<1>. QED
  BY <1>2, EarliestIsLeast DEF ResetRetryTimer

\* Reserve stores and counts a job and starts the loop of a retired queue.
LEMMA ReserveType ==
    ASSUME TypeOK, NEW j \in Jobs, Reserve(j)
    PROVE  /\ row' \in [Jobs -> Statuses]
           /\ createdAt' \in [Jobs -> Nat]
           /\ backlog' \in Int
           /\ handing' \in SUBSET Jobs
           /\ pc' \in Places
           /\ queue' \in Seq(Jobs)
           /\ waiting' \in Seq(WaitingJob)
           /\ nextDeadline' \in Nat
           /\ inFlight' \in Int
           /\ maxConc' \in 1..ConfiguredMaxConc
           /\ pace' \in {"ready", "wait"}
           /\ timers' \in SUBSET Timers
           /\ retryTimer' \in Nat
           /\ lastDeadSweep' \in Nat
<1>1. CASE pc = "retired"
  BY SMTT(30), <1>1, LimitAssumption DEF TypeOK, Reserve, FreshRun, Statuses, Places, Timers
<1>2. CASE pc # "retired"
  BY SMT, <1>2 DEF TypeOK, Reserve, Statuses, loopVars, heldVars, slotVars, timerVars
<1>. QED
  BY <1>1, <1>2

\* The end of a handoff leaves attempts typed, and only jobs with a webhook hand
\* one over.
LEMMA AfterHandoffType ==
    ASSUME TypeOK, NEW j
    PROVE  /\ AfterHandoff(j) \in [Jobs -> {"none", "run", "hook", "handoff", "send"}]
           /\ \A k \in Jobs : AfterHandoff(j)[k] \in {"hook", "handoff"} =>
                 Hook[k] # NoHook
  BY DEF TypeOK, AfterHandoff

\* failQueuedJob keeps the types of what it writes.
LEMMA FailQueuedType ==
    ASSUME TypeOK, NEW STATE j, j \in Jobs, FailQueued(j)
    PROVE  /\ row' \in [Jobs -> Statuses]
           /\ backlog' \in Int
           /\ hookers' \in SUBSET {k \in Jobs : Hook[k] # NoHook}
  BY SMT DEF TypeOK, FailQueued, SendsHook, Statuses

\* The queue's variables keep their types.
LEMMA TypeStep == TypeOK /\ [Next]_vars => TypeOK'
<1>. SUFFICES ASSUME TypeOK, [Next]_vars PROVE TypeOK'
  OBVIOUS
<1>. USE DEF envVars, jobVars, chanVars, heldVars, slotVars, timerVars, goVars,
             loopVars
<1>1. ASSUME NEW j \in Jobs, Accept(j) PROVE TypeOK'
  BY <1>1, ReserveType DEF TypeOK, Accept
<1>2. ASSUME NEW j \in Jobs, Handoff(j) PROVE TypeOK'
  <2>1. cmds \in Seq(Jobs) /\ handing \in SUBSET Jobs
    BY DEF TypeOK
  <2>2. cmds' \in Seq(Jobs) /\ handing' \in SUBSET Jobs
    BY SMT, <1>2, <2>1 DEF Handoff
  <2>3. /\ attempt' \in [Jobs -> {"none", "run", "hook", "handoff", "send"}]
        /\ \A k \in Jobs : attempt'[k] \in {"hook", "handoff"} => Hook[k] # NoHook
    BY <1>2, AfterHandoffType DEF Handoff
  <2>4. UNCHANGED <<envVars, jobVars, backlog, hookers, done, loopVars, report>>
    BY <1>2 DEF Handoff
  <2>. QED
    BY <2>2, <2>3, <2>4 DEF TypeOK
<1>3. ASSUME NEW j \in Jobs, HandoffStopped(j) PROVE TypeOK'
  BY SMTT(30), <1>3, AfterHandoffType DEF TypeOK, HandoffStopped
<1>4. ASSUME NEW j \in Jobs, HookQueued(j) PROVE TypeOK'
  <2>1. Hook[j] \in Jobs
    BY SMTT(30), <1>4, HookAssumption DEF TypeOK, HookQueued
  <2>2. CASE HookSkipped(j)
    BY <1>4, <2>2 DEF TypeOK, HookQueued
  <2>3. CASE ~HookSkipped(j)
    BY <1>4, <2>1, <2>3, ReserveType DEF TypeOK, HookQueued
  <2>. QED BY <2>2, <2>3
<1>5. ASSUME NEW j \in Jobs, HookExecuted(j) PROVE TypeOK'
  <2>1. Hook[j] \in Jobs
    BY SMTT(30), <1>5, HookAssumption DEF TypeOK, HookExecuted
  <2>2. CASE HookSkipped(j)
    BY <1>5, <2>2 DEF TypeOK, HookExecuted
  <2>3. CASE ~HookSkipped(j)
    BY <1>5, <2>1, <2>3, ReserveType DEF TypeOK, HookExecuted
  <2>. QED BY <2>2, <2>3
<1>6. ASSUME NEW j \in Jobs, NEW s \in Statuses, NEW m \in Report,
             EndAttempt(j, s, m)
      PROVE  TypeOK'
  BY <1>6 DEF TypeOK, EndAttempt, SendsHook
<1>7. ASSUME NEW j \in Jobs, Execute(j) PROVE TypeOK'
  <2>1. CASE ExecuteExpired(j)
    BY <2>1, <1>6 DEF ExecuteExpired, Statuses, NoReport, Report, Health
  <2>2. CASE ExecuteCompleted(j)
    BY <2>2, <1>6 DEF ExecuteCompleted, Statuses, Report, Health
  <2>3. CASE ExecuteFailed(j)
    BY <2>3, <1>6 DEF ExecuteFailed, Statuses, Report, Health
  <2>4. CASE ExecuteRetry(j)
    <3>1. PICK r : r \in Report /\ report' = [report EXCEPT ![j] = r]
      <4>1. PICK d \in Delays, h \in {"failed", "none"} :
                report' = [report EXCEPT ![j] = [retryAt |-> now + d, health |-> h]]
        BY <2>4 DEF ExecuteRetry
      <4>2. now + d \in Nat
        BY SMT, RetryAssumption DEF TypeOK
      <4>3. [retryAt |-> now + d, health |-> h] \in Report
        BY <4>2 DEF Report, Health
      <4>. QED
        BY <4>1, <4>3
    <3>2. attempts' \in [Jobs -> Nat]
      BY SMTT(30), <2>4 DEF TypeOK, ExecuteRetry
    <3>. QED
      BY <2>4, <3>1, <3>2 DEF TypeOK, ExecuteRetry
  <2>5. CASE ExecuteCancelled(j)
    BY <2>5 DEF TypeOK, ExecuteCancelled, Statuses, NoReport, Report, Health
  <2>. QED BY <1>7, <2>1, <2>2, <2>3, <2>4, <2>5 DEF Execute
<1>8. ASSUME NEW j \in Jobs, SendDone(j) PROVE TypeOK'
  <2>1. [job |-> j, retryAt |-> report[j].retryAt, health |-> report[j].health]
            \in JobDoneMsg
    BY DEF TypeOK, Report, JobDoneMsg
  <2>2. done \in Seq(JobDoneMsg)
    BY DEF TypeOK
  <2>3. done' \in Seq(JobDoneMsg)
    BY SMTT(30), <1>8, <2>1, <2>2 DEF SendDone
  <2>. QED
    BY <1>8, <2>3 DEF TypeOK, SendDone, NoReport, Report, Health
<1>9. ASSUME NEW STATE P, DropQueued(P) PROVE TypeOK'
  <2>1. PICK i \in DOMAIN queue : FailQueued(queue[i]) /\ queue' = Without(queue, i)
    BY <1>9 DEF DropQueued, TypeOK
  <2>2. queue \in Seq(Jobs)
    BY DEF TypeOK
  <2>3. queue[i] \in Jobs /\ queue' \in Seq(Jobs)
    BY SMTT(30), <2>1, <2>2, WithoutSeq
  <2>. QED
    BY <1>9, <2>1, <2>3, FailQueuedType DEF TypeOK, DropQueued
<1>10. ASSUME NEW STATE P, DropWaiting(P) PROVE TypeOK'
  <2>1. PICK i \in DOMAIN waiting :
            FailQueued(waiting[i].job) /\ waiting' = Without(waiting, i)
    BY <1>10 DEF DropWaiting, TypeOK
  <2>2. waiting \in Seq(WaitingJob)
    BY DEF TypeOK
  <2>3. waiting[i] \in WaitingJob /\ waiting' \in Seq(WaitingJob)
    BY SMT, <2>1, <2>2, WithoutSeq
  <2>4. waiting[i].job \in Jobs
    BY <2>3 DEF WaitingJob
  <2>. QED
    BY <1>10, <2>1, <2>3, <2>4, FailQueuedType DEF TypeOK, DropWaiting
<1>11. ASSUME NEW place \in Places, Goto(place) PROVE TypeOK'
  BY <1>11 DEF TypeOK, Goto
<1>12. CASE Pass
  <2>1. CASE DropExpired \/ FailDeadQueued
    BY <1>9, <2>1 DEF DropExpired, FailDeadQueued
  <2>2. CASE DropExpiredWaiting \/ FailDeadWaiting
    BY <1>10, <2>2 DEF DropExpiredWaiting, FailDeadWaiting
  <2>3. CASE FailDeadEnd \/ DispatchExpired \/ DispatchEnd
    BY <1>11, <2>3 DEF FailDeadEnd, DispatchExpired, DispatchEnd, Places
  <2>4. CASE DropExpiredEnd
    <3>0. \A i \in DOMAIN queue : queue[i] \in Jobs
      BY SMTT(30) DEF TypeOK
    <3>1. {QueueDeadline(queue[i]) : i \in DOMAIN queue} \ {0} \in SUBSET Nat
      BY <3>0, DeadlineType
    <3>2. nextDeadline' \in Nat
      BY <2>4, <3>1, EarliestIsLeast DEF TypeOK, DropExpiredEnd
    <3>. QED
      BY <2>4, <3>2 DEF TypeOK, DropExpiredEnd, Places
  <2>5. CASE DropExpiredWaitingEnd
    BY <2>5 DEF TypeOK, DropExpiredWaitingEnd, Places
  <2>6. CASE DispatchPaced
    BY <2>6 DEF TypeOK, DispatchPaced, Places, Timers
  <2>7. CASE Dispatch
    BY SMTT(30), <2>7 DEF TypeOK, Dispatch, CanDispatch
  <2>8. CASE RequeueDue
    <3>1. PICK i \in DOMAIN waiting :
              /\ queue' = Append(queue, waiting[i].job)
              /\ nextDeadline' = TrackDeadline(nextDeadline, waiting[i].job)
              /\ waiting' = Without(waiting, i)
      BY <2>8 DEF RequeueDue, StillWaiting, TypeOK
    <3>2. waiting \in Seq(WaitingJob) /\ queue \in Seq(Jobs) /\ nextDeadline \in Nat
      BY DEF TypeOK
    <3>3. waiting[i] \in WaitingJob /\ waiting' \in Seq(WaitingJob)
      BY SMT, <3>1, <3>2, WithoutSeq
    <3>4. waiting[i].job \in Jobs
      BY <3>3 DEF WaitingJob
    <3>5. queue' \in Seq(Jobs) /\ nextDeadline' \in Nat
      BY SMTT(30), <3>1, <3>2, <3>4, TrackDeadlineType
    <3>. QED
      BY <2>8, <3>3, <3>5 DEF TypeOK, RequeueDue
  <2>9. CASE RequeueEnd
    BY <2>9, RetryTimerType DEF TypeOK, RequeueEnd, Places
  <2>10. CASE Supervise
    <3>1. CASE FreshRun /\ UNCHANGED <<nextDeadline, lastDeadSweep>>
      BY SMTT(30), <2>10, <3>1, LimitAssumption DEF TypeOK, Supervise, FreshRun, Places, Timers
    <3>2. CASE pc' \in {"stopped", "retired"}
               /\ UNCHANGED <<heldVars, slotVars, timerVars, lastDeadSweep>>
      BY <2>10, <3>2 DEF TypeOK, Supervise, Places
    <3>. QED
      BY <2>10, <3>1, <3>2 DEF Supervise
  <2>. QED
    BY <1>12, <2>1, <2>2, <2>3, <2>4, <2>5, <2>6, <2>7, <2>8, <2>9, <2>10 DEF Pass
<1>13. CASE Select
  <2>1. CASE ReadCmd
    <3>1. cmds \in Seq(Jobs) /\ queue \in Seq(Jobs) /\ nextDeadline \in Nat
      BY DEF TypeOK
    <3>2. cmds' \in Seq(Jobs) /\ queue' \in Seq(Jobs) /\ Head(cmds) \in Jobs
      BY SMT, <2>1, <3>1 DEF ReadCmd
    <3>3. nextDeadline' \in Nat
      BY <2>1, <3>1, <3>2, TrackDeadlineType DEF ReadCmd
    <3>. QED
      BY <2>1, <3>2, <3>3 DEF TypeOK, ReadCmd, Places
  <2>2. CASE ReadDone
    <3>1. done \in Seq(JobDoneMsg) /\ waiting \in Seq(WaitingJob)
      BY DEF TypeOK
    <3>3. Head(done) \in JobDoneMsg /\ done' \in Seq(JobDoneMsg)
      BY SMT, <2>2, <3>1 DEF ReadDone
    <3>4. [job |-> Head(done).job, at |-> Head(done).retryAt] \in WaitingJob
      BY <3>3 DEF JobDoneMsg, WaitingJob
    <3>5. waiting' \in Seq(WaitingJob)
      <4>1. Append(waiting, [job |-> Head(done).job, at |-> Head(done).retryAt])
                \in Seq(WaitingJob)
        BY SMT, <3>1, <3>4
      <4>. QED
        BY <2>2, <3>1, <4>1 DEF ReadDone
    <3>6. retryTimer' \in Nat
      <4>1. ResetRetryTimer(waiting') \in Nat
        BY <3>5, RetryTimerType
      <4>2. retryTimer \in Nat
        BY DEF TypeOK
      <4>. QED
        BY <2>2, <4>1, <4>2 DEF ReadDone
    <3>2. maxConc' \in 1..ConfiguredMaxConc
      BY SMTT(30), <2>2, LimitAssumption DEF TypeOK, ReadDone, NewMaxConc
    <3>. QED
      <4>1. inFlight' \in Int /\ backlog' \in Int /\ failingSince' \in Nat
            /\ timers' \in SUBSET Timers /\ pc' \in Places
        BY SMTT(30), <2>2 DEF TypeOK, ReadDone, InFlightAfter, Places
      <4>2. UNCHANGED <<now, stop, jobVars, handing, hookers, cmds, queue,
                        nextDeadline, pace, lastDeadSweep, goVars>>
        BY <2>2 DEF ReadDone
      <4>. QED
        BY <3>2, <3>3, <3>5, <3>6, <4>1, <4>2 DEF TypeOK
  <2>3. CASE TimerFires("dispatch") \/ TimerFires("position")
    BY <2>3 DEF TypeOK, TimerFires, Places
  <2>4. CASE RetryTimerFires
    BY <2>4 DEF TypeOK, RetryTimerFires, Places
  <2>5. CASE IdleFires
    BY <2>5 DEF TypeOK, IdleFires, Places
  <2>6. CASE ReadStop
    BY SMTT(30), <2>6 DEF TypeOK, ReadStop, Places
  <2>. QED
    BY <1>13, <2>1, <2>2, <2>3, <2>4, <2>5, <2>6 DEF Select
<1>14. CASE Tick
  BY SMTT(30), <1>14 DEF TypeOK, Tick, Timers
<1>15. CASE PaceElapses
  BY <1>15 DEF TypeOK, PaceElapses
<1>16. CASE Stop
  BY <1>16 DEF TypeOK, Stop
<1>17. CASE Finished \/ UNCHANGED vars
  BY <1>17 DEF TypeOK, Finished, vars
<1>18. ASSUME NEW j \in Jobs, ExecutePanicked(j) PROVE TypeOK'
  BY <1>18 DEF TypeOK, ExecutePanicked, SendsHook, Statuses, PanicReport, Report, Health
<1>19. CASE \E j \in Jobs : \/ Accept(j) \/ Sender(j)
                           \/ Execute(j) \/ ExecutePanicked(j) \/ SendDone(j)
  BY <1>19, <1>1, <1>2, <1>3, <1>4, <1>5, <1>7, <1>8, <1>18 DEF Sender
<1>. QED
  BY <1>12, <1>13, <1>14, <1>15, <1>16, <1>17, <1>19 DEF Next

\* A new queue is typed.
LEMMA TypeInit == Init => TypeOK
<1>. SUFFICES ASSUME Init PROVE TypeOK
  OBVIOUS
<1>1. NoReport \in Report
  BY DEF NoReport, Report, Health
<1>2. /\ cmds \in Seq(Jobs) /\ done \in Seq(JobDoneMsg)
      /\ queue \in Seq(Jobs) /\ waiting \in Seq(WaitingJob)
  BY SMT DEF Init
<1>3. /\ row \in [Jobs -> Statuses] /\ createdAt \in [Jobs -> Nat]
      /\ attempts \in [Jobs -> Nat] /\ report \in [Jobs -> Report]
      /\ attempt \in [Jobs -> {"none", "run", "hook", "handoff", "send"}]
      /\ \A j \in Jobs : attempt[j] \in {"hook", "handoff"} => Hook[j] # NoHook
  BY <1>1 DEF Init, Statuses
<1>4. maxConc \in 1..ConfiguredMaxConc
  BY SMT, LimitAssumption DEF Init
<1>5. /\ now \in Nat \ {0} /\ backlog \in Int /\ handing \in SUBSET Jobs
      /\ hookers \in SUBSET {j \in Jobs : Hook[j] # NoHook}
      /\ pc \in Places /\ nextDeadline \in Nat /\ inFlight \in Int
      /\ pace \in {"ready", "wait"} /\ timers \in SUBSET Timers
      /\ retryTimer \in Nat /\ failingSince \in Nat /\ lastDeadSweep \in Nat
  BY SMT DEF Init, Places
<1>6. stop \in BOOLEAN
  BY DEF Init
<1>. QED
  BY <1>2, <1>3, <1>4, <1>5, <1>6 DEF TypeOK

\* Every variable of the queue keeps its type, the concurrency limit the
\* target sets included: it is at least 1 and at most the configured one.
THEOREM TypeCorrect == Spec => []TypeOK
  BY TypeInit, TypeStep, PTL DEF Spec

\* No job is ever in two places of the queue or twice in one, and none is lost
\* on its way through the channels, the slices and the attempts, whatever the
\* capacities, limits and deadlines.
THEOREM HeldCorrect == Spec => []JobsHeld
<1>1. Init => TypeOK /\ HeldInv
  BY HeldInit, TypeInit
<1>2. TypeOK /\ HeldInv /\ [Next]_vars => (TypeOK /\ HeldInv)'
  BY TypeStep, HeldStep
<1>3. HeldInv => JobsHeld
  BY DEF HeldInv, JobsHeld
<1>. QED
  BY <1>1, <1>2, <1>3, PTL DEF Spec

-----------------------------------------------------------------------------
(* The counters, the refinement of JobLifecycle and the timers.            *)

\* The number of attempts never exceeds inFlight, even when a stopping queue
\* no longer reads their messages.
SlotInv ==
    /\ Cardinality(Attempting) + Len(done) <= inFlight
    /\ inFlight <= ConfiguredMaxConc
    /\ InFlightExact

CountInv == SlotInv /\ BacklogExact /\ RetiredEmpty

\* The sets and lists that are counted are finite.
LEMMA CountTypes ==
    ASSUME TypeOK
    PROVE  /\ IsFiniteSet(Attempting) /\ Cardinality(Attempting) \in Nat
           /\ IsFiniteSet(handing) /\ Cardinality(handing) \in Nat
           /\ Len(done) \in Nat /\ Len(cmds) \in Nat /\ Len(queue) \in Nat
           /\ Len(waiting) \in Nat /\ inFlight \in Int /\ backlog \in Int
           /\ ConfiguredMaxConc \in Nat
<1>1. IsFiniteSet(Attempting) /\ IsFiniteSet(handing)
  BY JobsAssumption, FS_Subset DEF TypeOK, Attempting
<1>2. Cardinality(Attempting) \in Nat /\ Cardinality(handing) \in Nat
  BY <1>1, FS_CardinalityType
<1>. QED
  BY SMTT(30), <1>1, <1>2, LimitAssumption DEF TypeOK

\* The sum behind backlog, with the types its arithmetic needs.
LEMMA BacklogSum ==
    ASSUME TypeOK, CountInv, ~stop
    PROVE  /\ backlog = Cardinality(handing) + Len(cmds) + Len(queue) + Len(waiting)
                        + inFlight
           /\ Cardinality(handing) \in Nat /\ Len(cmds) \in Nat /\ Len(queue) \in Nat
           /\ Len(waiting) \in Nat /\ inFlight \in Int /\ backlog \in Int
  BY CountTypes DEF CountInv, BacklogExact

\* Steps that change no count.
LEMMA SameCounts ==
    ASSUME TypeOK, CountInv, Attempting' = Attempting, stop => stop',
           UNCHANGED <<handing, cmds, queue, waiting, done, inFlight, backlog>>,
           pc' = "retired" => pc = "retired"
    PROVE  CountInv'
  BY DEF CountInv, SlotInv, InFlightExact, BacklogExact, RetiredEmpty

\* reserve raises backlog with the job it counts.
LEMMA ReserveCounts ==
    ASSUME TypeOK, HeldInv, CountInv, NEW j \in Jobs, Reserve(j), ~stop,
           UNCHANGED <<cmds, done, stop>>, Attempting' = Attempting
    PROVE  CountInv'
<1>1. queue' = queue /\ waiting' = waiting /\ inFlight' = inFlight /\ pc' # "retired"
  BY ReserveKeeps
<1>2. handing' = handing \cup {j} /\ j \notin handing /\ backlog' = backlog + 1
  <2>1. row[j] = "none" /\ handing' = handing \cup {j} /\ backlog' = backlog + 1
    BY DEF Reserve
  <2>. QED
    BY <2>1, UnknownNowhere
<1>3. Cardinality(handing') = Cardinality(handing) + 1
  BY <1>2, CountTypes, FS_AddElement
<1>4. SlotInv'
  BY <1>1 DEF CountInv, SlotInv, InFlightExact
<1>5. BacklogExact'
  BY SMTT(30), <1>1, <1>2, <1>3, CountTypes DEF CountInv, BacklogExact
<1>6. RetiredEmpty'
  BY <1>1 DEF RetiredEmpty
<1>. QED
  BY <1>4, <1>5, <1>6 DEF CountInv

\* handoff moves one job of the backlog.
LEMMA HandoffCounts ==
    ASSUME TypeOK, HeldInv, CountInv, NEW j \in Jobs, Handoff(j)
    PROVE  CountInv'
<1>. USE DEF envVars, loopVars, heldVars, slotVars
<1>1. Attempting' = Attempting
  BY AfterHandoffHeld DEF Handoff
<1>2. /\ j \in handing /\ handing' = handing \ {j} /\ cmds' = Append(cmds, j)
      /\ UNCHANGED <<queue, waiting, inFlight, backlog, done, pc, stop>>
  BY DEF Handoff
<1>3. Cardinality(handing') = Cardinality(handing) - 1
  BY <1>2, CountTypes, FS_RemoveElement
<1>4. Len(cmds') = Len(cmds) + 1
  BY SMT, <1>2 DEF TypeOK
<1>. QED
  BY SMTT(30), <1>1, <1>2, <1>3, <1>4, CountTypes
     DEF CountInv, SlotInv, InFlightExact, BacklogExact, RetiredEmpty

\* A handoff that meets a stopped queue needs no count.
LEMMA HandoffStoppedCounts ==
    ASSUME TypeOK, HeldInv, CountInv, NEW j \in Jobs, HandoffStopped(j)
    PROVE  CountInv'
<1>. USE DEF envVars, loopVars, heldVars, slotVars
<1>1. Attempting' = Attempting
  BY AfterHandoffHeld DEF HandoffStopped
<1>2. stop /\ UNCHANGED <<inFlight, done, stop>>
  BY DEF HandoffStopped
<1>. QED
  BY <1>1, <1>2 DEF CountInv, SlotInv, InFlightExact, BacklogExact, RetiredEmpty

\* An attempt that reports trades its slot for its message.
LEMMA SendDoneCounts ==
    ASSUME TypeOK, HeldInv, CountInv, NEW j \in Jobs, SendDone(j)
    PROVE  CountInv'
<1>. USE DEF envVars, loopVars, heldVars, slotVars
<1>. DEFINE m == [job |-> j, retryAt |-> report[j].retryAt, health |-> report[j].health]
<1>1. /\ attempt[j] = "send" /\ attempt' = [attempt EXCEPT ![j] = "none"]
      /\ UNCHANGED <<handing, cmds, queue, waiting, inFlight, backlog, pc, stop>>
      /\ done' = Append(done, m) \/ (stop /\ done' = done)
  BY DEF SendDone
<1>2. j \in Attempting /\ Attempting' = Attempting \ {j}
  BY <1>1 DEF TypeOK, Attempting
<1>3. Cardinality(Attempting') = Cardinality(Attempting) - 1
  BY <1>2, CountTypes, FS_RemoveElement
<1>4. m \in JobDoneMsg
  BY DEF TypeOK, Report, JobDoneMsg
<1>5. CASE done' = Append(done, m)
  <2>. HIDE DEF m
  <2>1. Len(done') = Len(done) + 1
    BY SMT, <1>4, <1>5 DEF TypeOK
  <2>. QED
    BY SMTT(30), <1>1, <1>2, <1>3, <2>1, CountTypes
       DEF CountInv, SlotInv, InFlightExact, BacklogExact, RetiredEmpty
<1>6. CASE stop /\ done' = done
  BY SMT, <1>1, <1>3, <1>6, CountTypes
     DEF CountInv, SlotInv, InFlightExact, BacklogExact, RetiredEmpty
<1>. QED
  BY <1>1, <1>5, <1>6

\* A job that fails while it waits leaves its slice and the backlog.
LEMMA DropCounts ==
    ASSUME TypeOK, HeldInv, CountInv, NEW STATE P, pc # "retired",
           DropQueued(P) \/ DropWaiting(P)
    PROVE  CountInv'
<1>. USE DEF envVars, loopVars, heldVars, slotVars, goVars
<1>1. Attempting' = Attempting
  BY DEF DropQueued, DropWaiting, Attempting
<1>2. UNCHANGED <<handing, cmds, done, inFlight, pc, stop>>
  BY DEF DropQueued, DropWaiting
<1>3. backlog' = backlog - 1
  BY DEF DropQueued, DropWaiting, FailQueued
<1>4. SlotInv'
  BY <1>1, <1>2 DEF CountInv, SlotInv, InFlightExact
<1>5. BacklogExact'
  <2>1. CASE DropQueued(P)
    <3>1. PICK i \in DOMAIN queue : queue' = Without(queue, i)
      BY <2>1 DEF DropQueued
    <3>2. queue \in Seq(Jobs)
      BY DEF TypeOK
    <3>3. waiting' = waiting /\ Len(queue') = Len(queue) - 1
      BY <2>1, <3>1, <3>2, WithoutSeq DEF DropQueued
    <3>. QED
      BY SMTT(60), <1>2, <1>3, <3>3, BacklogSum DEF BacklogExact
  <2>2. CASE DropWaiting(P)
    <3>1. PICK i \in DOMAIN waiting : waiting' = Without(waiting, i)
      BY <2>2 DEF DropWaiting
    <3>2. waiting \in Seq(WaitingJob)
      BY DEF TypeOK
    <3>3. queue' = queue /\ Len(waiting') = Len(waiting) - 1
      BY <2>2, <3>1, <3>2, WithoutSeq DEF DropWaiting
    <3>. QED
      BY SMTT(60), <1>2, <1>3, <3>3, BacklogSum DEF BacklogExact
  <2>. QED
    BY <2>1, <2>2
<1>6. RetiredEmpty'
  BY <1>2 DEF RetiredEmpty
<1>. QED
  BY <1>4, <1>5, <1>6 DEF CountInv

\* A dispatch takes a slot that is free: the job it takes from the queue is not
\* being attempted already.
LEMMA DispatchCounts ==
    ASSUME TypeOK, HeldInv, CountInv, Dispatch
    PROVE  CountInv'
<1>. USE DEF envVars, chanVars, loopVars, heldVars, slotVars
<1>. DEFINE x == Head(queue)
<1>1. /\ queue # <<>> /\ inFlight < maxConc /\ queue' = Tail(queue)
      /\ inFlight' = inFlight + 1 /\ attempt' = [attempt EXCEPT ![x] = "run"]
      /\ UNCHANGED <<handing, cmds, waiting, done, backlog, pc, stop>> /\ pc = "dispatch"
  BY DEF Dispatch, CanDispatch
<1>2. x \in Jobs /\ Len(queue') = Len(queue) - 1
  <2>1. queue \in Seq(Jobs)
    BY DEF TypeOK
  <2>. QED
    BY SMT, <1>1, <2>1
<1>3. x \in Members(queue)
  BY <1>1, TailMembers DEF TypeOK, HeldInv, HeldOnce
<1>. HIDE DEF x
<1>4. x \notin Attempting
  BY SMT, <1>3, ApartSix DEF HeldInv, HeldOnce
<1>5. Attempting' = Attempting \cup {x}
  BY <1>1, <1>2 DEF TypeOK, Attempting
<1>6. Cardinality(Attempting') = Cardinality(Attempting) + 1
  BY <1>4, <1>5, CountTypes, FS_AddElement
<1>7. inFlight' <= ConfiguredMaxConc
  <2>1. maxConc \in 1..ConfiguredMaxConc /\ inFlight \in Int /\ ConfiguredMaxConc \in Nat
    BY CountTypes DEF TypeOK
  <2>. QED
    BY SMT, <1>1, <2>1
<1>8. SlotInv'
  BY SMTT(30), <1>1, <1>6, <1>7, CountTypes DEF CountInv, SlotInv, InFlightExact
<1>9. BacklogExact'
  BY SMTT(30), <1>1, <1>2, CountTypes DEF CountInv, BacklogExact
<1>10. RetiredEmpty'
  BY <1>1 DEF RetiredEmpty
<1>. QED
  BY <1>8, <1>9, <1>10 DEF CountInv

\* Reading a job moves one of the backlog.
LEMMA ReadCmdCounts ==
    ASSUME TypeOK, HeldInv, CountInv, ReadCmd
    PROVE  CountInv'
<1>. USE DEF envVars, chanVars, loopVars, heldVars, slotVars, goVars
<1>1. /\ cmds # <<>> /\ cmds' = Tail(cmds) /\ queue' = Append(queue, Head(cmds))
      /\ UNCHANGED <<handing, waiting, done, inFlight, backlog, stop, attempt>>
      /\ pc' = "sweep"
  BY DEF ReadCmd
<1>2. cmds \in Seq(Jobs) /\ queue \in Seq(Jobs)
  BY DEF TypeOK
<1>3. Len(cmds') = Len(cmds) - 1 /\ Len(queue') = Len(queue) + 1
  BY SMT, <1>1, <1>2
<1>4. SlotInv'
  BY <1>1 DEF CountInv, SlotInv, InFlightExact, Attempting
<1>5. BacklogExact'
  BY SMT, <1>1, <1>3, CountTypes DEF CountInv, BacklogExact
<1>6. RetiredEmpty'
  BY <1>1 DEF RetiredEmpty
<1>. QED
  BY <1>4, <1>5, <1>6 DEF CountInv

\* A message frees the slot; the job leaves the backlog unless it is retried.
LEMMA ReadDoneCounts ==
    ASSUME TypeOK, HeldInv, CountInv, ReadDone
    PROVE  CountInv'
<1>. USE DEF envVars, chanVars, loopVars, heldVars, slotVars, goVars
<1>. DEFINE m == Head(done)
            e == [job |-> m.job, at |-> m.retryAt]
<1>1. /\ done # <<>> /\ done' = Tail(done) /\ inFlight' = inFlight - 1
      /\ \/ waiting' = Append(waiting, e) /\ backlog' = backlog
         \/ waiting' = waiting /\ backlog' = backlog - 1
      /\ UNCHANGED <<handing, cmds, queue, stop, attempt>> /\ pc' = "sweep"
  BY DEF ReadDone, InFlightAfter
<1>2. done \in Seq(JobDoneMsg) /\ waiting \in Seq(WaitingJob)
  BY DEF TypeOK
<1>3. m \in JobDoneMsg /\ Len(done') = Len(done) - 1
  BY SMT, <1>1, <1>2
<1>4. e \in WaitingJob
  BY <1>3 DEF JobDoneMsg, WaitingJob
<1>. HIDE DEF m, e
<1>5. Len(Append(waiting, e)) = Len(waiting) + 1
  BY SMT, <1>2, <1>4
<1>6. SlotInv'
  BY SMTT(30), <1>1, <1>3, CountTypes DEF CountInv, SlotInv, InFlightExact, Attempting
<1>7. CASE waiting' = Append(waiting, e) /\ backlog' = backlog
  <2>0. ASSUME ~stop
        PROVE  backlog = Cardinality(handing) + Len(cmds) + Len(queue)
                         + (Len(waiting) + 1) + (inFlight - 1)
    <3>. DEFINE rest == Cardinality(handing) + Len(cmds) + Len(queue)
    <3>1. /\ backlog = rest + Len(waiting) + inFlight
          /\ rest \in Int /\ Len(waiting) \in Int /\ inFlight \in Int
      BY SMT, <2>0, BacklogSum
    <3>. HIDE DEF rest
    <3>2. rest + Len(waiting) + inFlight = rest + (Len(waiting) + 1) + (inFlight - 1)
      BY SMT, <3>1
    <3>. QED
      BY <3>1, <3>2 DEF rest
  <2>1. BacklogExact'
    BY <1>1, <1>5, <1>7, <2>0 DEF BacklogExact
  <2>. QED
    BY <1>1, <1>6, <2>1 DEF CountInv, RetiredEmpty
<1>8. CASE waiting' = waiting /\ backlog' = backlog - 1
  <2>1. BacklogExact'
    BY SMTT(30), <1>1, <1>8, BacklogSum DEF BacklogExact
  <2>. QED
    BY <1>1, <1>6, <2>1 DEF CountInv, RetiredEmpty
<1>. QED
  BY <1>1, <1>7, <1>8

\* Requeueing a due job moves one of the backlog.
LEMMA RequeueDueCounts ==
    ASSUME TypeOK, HeldInv, CountInv, RequeueDue
    PROVE  CountInv'
<1>. USE DEF envVars, chanVars, loopVars, heldVars, slotVars, goVars
<1>1. PICK i \in DOMAIN waiting :
          queue' = Append(queue, waiting[i].job) /\ waiting' = Without(waiting, i)
  BY DEF RequeueDue, StillWaiting
<1>2. UNCHANGED <<handing, cmds, done, inFlight, backlog, stop, attempt>> /\ pc' = "retry"
  BY DEF RequeueDue
<1>3. queue \in Seq(Jobs) /\ waiting \in Seq(WaitingJob)
  BY DEF TypeOK
<1>4. waiting[i].job \in Jobs
  <2>1. waiting[i] \in WaitingJob
    BY SMT, <1>3
  <2>. QED
    BY <2>1 DEF WaitingJob
<1>5. Len(queue') = Len(queue) + 1 /\ Len(waiting') = Len(waiting) - 1
  BY SMTT(30), <1>1, <1>3, <1>4, WithoutSeq
<1>6. SlotInv'
  BY <1>2 DEF CountInv, SlotInv, InFlightExact, Attempting
<1>7. BacklogExact'
  BY SMTT(30), <1>2, <1>5, CountTypes DEF CountInv, BacklogExact
<1>8. RetiredEmpty'
  BY <1>2 DEF RetiredEmpty
<1>. QED
  BY <1>6, <1>7, <1>8 DEF CountInv

\* A queue retires only without backlog, and then it holds nothing at all.
LEMMA SuperviseCounts ==
    ASSUME TypeOK, HeldInv, CountInv, Supervise
    PROVE  CountInv'
<1>. USE DEF envVars, jobVars, chanVars, loopVars, heldVars, slotVars, goVars
<1>1. UNCHANGED <<handing, cmds, done, attempt, backlog, stop>>
  BY DEF Supervise
<1>2. LoopEmpty
  BY DEF Supervise, HeldInv, IdleEmpty
<1>3. queue' = queue /\ waiting' = waiting /\ inFlight' = inFlight
  BY <1>2 DEF Supervise, FreshRun, LoopEmpty
<1>4. Attempting' = Attempting
  BY <1>1 DEF Attempting
<1>5. SlotInv' /\ BacklogExact'
  BY <1>1, <1>3, <1>4 DEF CountInv, SlotInv, InFlightExact, BacklogExact
<1>6. ASSUME pc' = "retired", ~stop
      PROVE  handing = {} /\ cmds = <<>> /\ Attempting = {} /\ done = <<>>
  <2>1. backlog <= 0 /\ cmds = <<>>
    BY <1>6 DEF Supervise, MayRetire, FreshRun
  <2>2. /\ backlog = Cardinality(handing) + Len(cmds) + Len(queue) + Len(waiting) + inFlight
        /\ inFlight = Cardinality(Attempting) + Len(done)
    BY <1>6 DEF CountInv, SlotInv, InFlightExact, BacklogExact
  <2>3. Cardinality(handing) = 0 /\ Cardinality(Attempting) = 0 /\ Len(done) = 0
    BY SMTT(30), <1>2, <2>1, <2>2, CountTypes DEF LoopEmpty
  <2>4. handing = {} /\ Attempting = {}
    BY <2>3, CountTypes, FS_EmptySet
  <2>5. done = <<>>
    BY SMT, <2>3 DEF TypeOK
  <2>. QED
    BY <2>1, <2>4, <2>5
<1>7. RetiredEmpty'
  BY <1>1, <1>2, <1>3, <1>4, <1>6 DEF RetiredEmpty, LoopEmpty
<1>. QED
  BY <1>5, <1>7 DEF CountInv

\* Every step of a job outside the loop keeps the counts.
LEMMA JobCounts ==
    ASSUME TypeOK, HeldInv, CountInv, NEW j \in Jobs,
           Accept(j) \/ Sender(j) \/ Execute(j) \/ ExecutePanicked(j) \/ SendDone(j)
    PROVE  CountInv'
<1>. USE DEF envVars, jobVars, chanVars, loopVars, heldVars, slotVars, goVars
<1>1. CASE Accept(j)
  <2>1. Attempting' = Attempting
    BY <1>1 DEF Accept, Attempting
  <2>. QED
    BY <1>1, <2>1, ReserveCounts DEF Accept
<1>2. CASE HookQueued(j) \/ HookExecuted(j)
  <2>1. Hook[j] \in Jobs
    BY SMTT(30), <1>2, HookAssumption DEF TypeOK, HookQueued, HookExecuted
  <2>2. Attempting' = Attempting /\ UNCHANGED <<cmds, done, stop>>
    BY <1>2 DEF TypeOK, HookQueued, HookExecuted, Attempting
  <2>3. CASE HookSkipped(j)
    <3>1. UNCHANGED <<handing, queue, waiting, inFlight, backlog, pc>>
      BY <1>2, <2>3 DEF HookQueued, HookExecuted
    <3>. QED
      BY <2>2, <3>1, SameCounts
  <2>4. CASE ~HookSkipped(j)
    <3>1. Reserve(Hook[j]) /\ ~stop
      BY <1>2, <2>4 DEF HookQueued, HookExecuted, HookSkipped
    <3>. QED
      BY <2>1, <2>2, <3>1, ReserveCounts
  <2>. QED
    BY <2>3, <2>4
<1>3. CASE Execute(j) \/ ExecutePanicked(j)
  <2>1. attempt[j] # "none" /\ \E a \in {"hook", "send"} :
            attempt' = [attempt EXCEPT ![j] = a]
    BY <1>3 DEF Execute, ExecuteExpired, ExecuteCompleted, ExecuteFailed, ExecuteRetry,
                ExecuteCancelled, ExecutePanicked, EndAttempt
  <2>2. Attempting' = Attempting
    BY <2>1 DEF TypeOK, Attempting
  <2>3. UNCHANGED <<handing, cmds, queue, waiting, done, inFlight, backlog, pc, stop>>
    BY <1>3 DEF Execute, ExecuteExpired, ExecuteCompleted, ExecuteFailed, ExecuteRetry,
                ExecuteCancelled, ExecutePanicked, EndAttempt
  <2>. QED
    BY <2>2, <2>3, SameCounts
<1>. QED
  BY <1>1, <1>2, <1>3, HandoffCounts, HandoffStoppedCounts, SendDoneCounts DEF Sender

\* Steps of the loop, the clock and Stop that move nothing.
LEMMA QuietCounts ==
    ASSUME TypeOK, CountInv,
           UNCHANGED <<attempt, handing, cmds, queue, waiting, done, inFlight, backlog>>,
           stop => stop', pc' = "retired" => pc = "retired"
    PROVE  CountInv'
  BY SameCounts DEF Attempting

\* Every step of the queue keeps CountInv.
LEMMA CountStep == TypeOK /\ HeldInv /\ CountInv /\ [Next]_vars => CountInv'
<1>. SUFFICES ASSUME TypeOK, HeldInv, CountInv, [Next]_vars PROVE CountInv'
  OBVIOUS
<1>. USE DEF envVars, jobVars, chanVars, loopVars, heldVars, slotVars, goVars, timerVars
<1>1. CASE Pass
  <2>1. CASE DropExpired \/ FailDeadQueued \/ DropExpiredWaiting \/ FailDeadWaiting
    BY <2>1, DropCounts DEF DropExpired, FailDeadQueued, DropExpiredWaiting, FailDeadWaiting
  <2>2. CASE FailDeadEnd \/ DispatchExpired \/ DispatchEnd
    BY SMT, <2>2, QuietCounts DEF FailDeadEnd, DispatchExpired, DispatchEnd, Goto
  <2>3. CASE DropExpiredEnd
    BY <2>3, QuietCounts DEF DropExpiredEnd
  <2>4. CASE DropExpiredWaitingEnd \/ DispatchPaced \/ RequeueEnd
    BY SMTT(30), <2>4, QuietCounts DEF DropExpiredWaitingEnd, DispatchPaced, RequeueEnd
  <2>. QED
    BY <1>1, <2>1, <2>2, <2>3, <2>4, DispatchCounts, RequeueDueCounts, SuperviseCounts
       DEF Pass
<1>2. CASE Select
  <2>1. CASE TimerFires("dispatch") \/ TimerFires("position") \/ RetryTimerFires
    BY SMT, <2>1, QuietCounts DEF TimerFires, RetryTimerFires
  <2>2. CASE IdleFires
    BY <2>2, QuietCounts DEF IdleFires
  <2>3. CASE ReadStop
    <3>1. stop' /\ UNCHANGED <<attempt, done, inFlight>>
      BY <2>3 DEF ReadStop
    <3>. QED
      BY <3>1 DEF CountInv, SlotInv, InFlightExact, BacklogExact, RetiredEmpty, Attempting
  <2>. QED
    BY <1>2, <2>1, <2>2, <2>3, ReadCmdCounts, ReadDoneCounts DEF Select
<1>3. CASE Tick \/ PaceElapses \/ Stop \/ Finished \/ UNCHANGED vars
  BY SMTT(30), <1>3, QuietCounts DEF Tick, PaceElapses, Stop, Finished, vars
<1>. QED
  BY <1>1, <1>2, <1>3, JobCounts DEF Next

\* A new queue counts nothing.
LEMMA CountInit == Init => CountInv
<1>. SUFFICES ASSUME Init PROVE CountInv
  OBVIOUS
<1>1. Attempting = {} /\ handing = {} /\ Cardinality({}) = 0
  BY FS_EmptySet DEF Init, Attempting
<1>2. Len(done) = 0 /\ Len(cmds) = 0 /\ Len(queue) = 0 /\ Len(waiting) = 0
  BY DEF Init
<1>3. inFlight = 0 /\ backlog = 0
  BY DEF Init
<1>4. SlotInv
  BY SMT, <1>1, <1>2, <1>3, LimitAssumption DEF SlotInv, InFlightExact
<1>5. BacklogExact
  BY SMT, <1>1, <1>2, <1>3 DEF BacklogExact
<1>6. RetiredEmpty
  BY <1>1 DEF Init, RetiredEmpty
<1>. QED
  BY <1>4, <1>5, <1>6 DEF CountInv

\* inFlight and backlog are exact for as long as the queue is not stopped, no
\* more attempts run at once than configured whatever limit the target sets,
\* and a queue that retired holds nothing: no sender, message, job or attempt.
THEOREM CountsCorrect ==
    Spec => [](CountsExact /\ RetiredEmpty)
<1>. DEFINE IInv == TypeOK /\ HeldInv /\ CountInv
<1>1. Init => IInv
  BY TypeInit, HeldInit, CountInit
<1>2. IInv /\ [Next]_vars => IInv'
  BY TypeStep, HeldStep, CountStep
<1>3. IInv => CountsExact /\ RetiredEmpty
  <2>1. IInv => ConcurrencyBound
    BY SMT, CountTypes DEF CountInv, SlotInv, ConcurrencyBound
  <2>. QED
    BY <2>1 DEF CountInv, SlotInv, CountsExact
<1>. QED
  BY <1>1, <1>2, <1>3, PTL DEF Spec

-----------------------------------------------------------------------------
(* The refinement: every step of the queue is a step of the lifecycle of one *)
(* job, or changes none.                                                     *)

Sending == {j \in Jobs : attempt[j] = "run"}
Ending == {j \in Jobs : attempt[j] \in {"hook", "handoff", "send"}}

\* What HeldInv says of a job whose request is out, and of one that waits.
LEMMA SendingQueued ==
    ASSUME TypeOK, HeldInv
    PROVE  /\ \A j \in Sending : row[j] = "queued"
           /\ \A j \in Members(queue) \cup JobsOf(waiting) :
                 j \in Jobs /\ row[j] = "queued" /\ j \notin Sending \cup Ending
<1>1. Sending \subseteq Working /\ Sending \subseteq Attempting /\ Ending \subseteq Attempting
  BY DEF Sending, Ending, Working, Attempting
<1>2. Held \subseteq Queued
  BY HeldSets
<1>3. Members(queue) \cap Attempting = {} /\ JobsOf(waiting) \cap Attempting = {}
  BY SMT, ApartSix DEF HeldInv, HeldOnce
<1>. QED
  BY <1>1, <1>2, <1>3 DEF Held, Queued

\* A step that writes no row, no retry count and no attempt is a stutter.
LEMMA LifecycleStutter ==
    ASSUME row' = row, attempts' = attempts, Sending' = Sending, Ending' = Ending
    PROVE  UNCHANGED Lifecycle!vars
  BY DEF Lifecycle!vars, Sending, Ending

\* reserve accepts a job.
LEMMA ReserveAccepts ==
    ASSUME NEW j \in Jobs, Reserve(j), attempts' = attempts,
           Sending' = Sending, Ending' = Ending
    PROVE  Lifecycle!Next
<1>1. Lifecycle!Accept(j)
  BY DEF Reserve, Lifecycle!Accept, Sending, Ending
<1>. QED
  BY <1>1 DEF Lifecycle!Next

\* An attempt whose request is over winds up.
LEMMA RequestOver ==
    ASSUME TypeOK, NEW j \in Jobs, attempt[j] = "run",
           \E a \in {"hook", "send"} : attempt' = [attempt EXCEPT ![j] = a]
    PROVE  j \in Sending /\ Sending' = Sending \ {j} /\ Ending' = Ending \cup {j}
  BY DEF TypeOK, Sending, Ending

\* The end of an attempt with an outcome settles its job.
LEMMA OutcomeSettlesJob ==
    ASSUME TypeOK, HeldInv, NEW j \in Jobs, attempt[j] = "run",
           NEW s \in {"completed", "failed"},
           row' = [row EXCEPT ![j] = s], attempts' = attempts,
           \E a \in {"hook", "send"} : attempt' = [attempt EXCEPT ![j] = a]
    PROVE  Lifecycle!Next
<1>1. j \in Sending /\ Sending' = Sending \ {j} /\ Ending' = Ending \cup {j}
  BY RequestOver
<1>2. row[j] = "queued"
  BY <1>1, SendingQueued
<1>3. Lifecycle!Settle(j, s)
  BY <1>1, <1>2 DEF Lifecycle!Settle, Lifecycle!Over, Sending, Ending
<1>. QED
  BY <1>3 DEF Lifecycle!Next

\* failQueuedJob gives up a job that waits.
LEMMA FailQueuedGivesUp ==
    ASSUME TypeOK, HeldInv, NEW STATE j, j \in Members(queue) \cup JobsOf(waiting),
           FailQueued(j), UNCHANGED <<attempts, attempt>>
    PROVE  Lifecycle!Next
<1>1. j \in Jobs /\ row[j] = "queued" /\ j \notin Sending \cup Ending
  BY SendingQueued
<1>2. Lifecycle!GiveUp(j)
  BY <1>1 DEF FailQueued, Lifecycle!GiveUp, Sending, Ending
<1>. QED
  BY <1>1, <1>2 DEF Lifecycle!Next

\* Every end of an attempt is one the lifecycle has.
LEMMA ExecuteImplements ==
    ASSUME TypeOK, HeldInv, NEW j \in Jobs, Execute(j)
    PROVE  Lifecycle!Next
<1>0. attempt[j] = "run" /\ \E a \in {"hook", "send"} : attempt' = [attempt EXCEPT ![j] = a]
  BY DEF Execute, ExecuteExpired, ExecuteCompleted, ExecuteFailed, ExecuteRetry,
         ExecuteCancelled, EndAttempt
<1>1. CASE ExecuteExpired(j) \/ ExecuteCompleted(j) \/ ExecuteFailed(j)
  <2>1. PICK s \in {"completed", "failed"} : row' = [row EXCEPT ![j] = s] /\ attempts' = attempts
    BY <1>1 DEF ExecuteExpired, ExecuteCompleted, ExecuteFailed, EndAttempt
  <2>. QED
    BY <1>0, <2>1, OutcomeSettlesJob
<1>2. CASE ExecuteRetry(j)
  <2>1. j \in Sending /\ Sending' = Sending \ {j} /\ Ending' = Ending \cup {j}
    BY <1>0, RequestOver
  <2>2. Lifecycle!Retry(j)
    BY <1>2, <2>1 DEF ExecuteRetry, HasRetriesLeft, Lifecycle!Retry, Lifecycle!Over, Sending, Ending
  <2>. QED
    BY <2>2 DEF Lifecycle!Next
<1>3. CASE ExecuteCancelled(j)
  <2>1. j \in Sending /\ Sending' = Sending \ {j} /\ Ending' = Ending \cup {j}
    BY <1>0, RequestOver
  <2>2. row' = row
    BY <1>3, <2>1, SendingQueued DEF ExecuteCancelled, TypeOK
  <2>3. Lifecycle!Cancel(j)
    BY <1>3, <2>1, <2>2 DEF ExecuteCancelled, Lifecycle!Cancel, Lifecycle!Over, Sending, Ending
  <2>. QED
    BY <2>3 DEF Lifecycle!Next
<1>. QED
  BY <1>1, <1>2, <1>3 DEF Execute

\* A panic settles a job whose request is out, and fails one whose attempt is
\* winding up.
LEMMA PanicImplements ==
    ASSUME TypeOK, HeldInv, NEW j \in Jobs, ExecutePanicked(j)
    PROVE  Lifecycle!Next
<1>1. /\ attempt[j] \in {"run", "hook", "send"}
      /\ row' = [row EXCEPT ![j] = "failed"] /\ attempts' = attempts
      /\ \E a \in {"hook", "send"} : attempt' = [attempt EXCEPT ![j] = a]
  BY DEF ExecutePanicked
<1>2. CASE attempt[j] = "run"
  BY <1>1, <1>2, OutcomeSettlesJob
<1>3. CASE attempt[j] \in {"hook", "send"}
  <2>1. j \in Ending /\ Ending' = Ending /\ Sending' = Sending
    BY <1>1, <1>3 DEF TypeOK, Sending, Ending
  <2>2. Lifecycle!Panic(j)
    BY <1>1, <2>1 DEF Lifecycle!Panic, Sending, Ending
  <2>. QED
    BY <2>2 DEF Lifecycle!Next
<1>. QED
  BY <1>1, <1>2, <1>3

\* A dispatch sends a job that is queued and has no open attempt.
LEMMA DispatchSends ==
    ASSUME TypeOK, HeldInv, Dispatch
    PROVE  Lifecycle!Next
<1>1. queue \in Seq(Jobs) /\ queue # <<>>
  BY DEF TypeOK, Dispatch, CanDispatch
<1>2. Head(queue) \in Members(queue)
  BY <1>1, TailMembers DEF HeldInv, HeldOnce
<1>3. PICK j \in Jobs : j = Head(queue) /\ row[j] = "queued" /\ j \notin Sending \cup Ending
  BY <1>2, SendingQueued
<1>4. Sending' = Sending \cup {j} /\ Ending' = Ending
  BY <1>3 DEF Dispatch, TypeOK, Sending, Ending
<1>5. UNCHANGED <<row, attempts>>
  BY DEF Dispatch, jobVars
<1>6. Lifecycle!Send(j)
  BY <1>3, <1>4, <1>5 DEF Lifecycle!Send, Sending, Ending
<1>. QED
  BY <1>6 DEF Lifecycle!Next

\* Every step of the queue is a step of JobLifecycle or a stutter.
LEMMA LifecycleStep == TypeOK /\ HeldInv /\ [Next]_vars => [Lifecycle!Next]_(Lifecycle!vars)
<1>. SUFFICES ASSUME TypeOK, HeldInv, [Next]_vars
              PROVE  Lifecycle!Next \/ UNCHANGED Lifecycle!vars
  OBVIOUS
<1>. USE DEF envVars, jobVars, chanVars, loopVars, heldVars, slotVars, goVars, timerVars
<1>1. ASSUME NEW j \in Jobs, Accept(j) PROVE Lifecycle!Next
  BY <1>1, ReserveAccepts DEF Accept, Sending, Ending
<1>2. ASSUME NEW j \in Jobs, Sender(j) PROVE Lifecycle!Next \/ UNCHANGED Lifecycle!vars
  <2>1. CASE Handoff(j) \/ HandoffStopped(j)
    <3>1. Sending' = Sending /\ Ending' = Ending
      BY <2>1 DEF Handoff, HandoffStopped, AfterHandoff, TypeOK, Sending, Ending
    <3>. QED
      BY <2>1, <3>1, LifecycleStutter DEF Handoff, HandoffStopped
  <2>2. CASE HookQueued(j)
    <3>1. Hook[j] \in Jobs
      BY SMTT(30), <2>2, HookAssumption DEF TypeOK, HookQueued
    <3>2. Sending' = Sending /\ Ending' = Ending /\ attempts' = attempts
      BY <2>2 DEF HookQueued, Sending, Ending
    <3>. QED
      BY <2>2, <3>1, <3>2, ReserveAccepts, LifecycleStutter DEF HookQueued
  <2>3. CASE HookExecuted(j)
    <3>1. Hook[j] \in Jobs
      BY SMTT(30), <2>3, HookAssumption DEF TypeOK, HookExecuted
    <3>2. Sending' = Sending /\ Ending' = Ending /\ attempts' = attempts
      BY <2>3 DEF HookExecuted, TypeOK, Sending, Ending
    <3>. QED
      BY <2>3, <3>1, <3>2, ReserveAccepts, LifecycleStutter DEF HookExecuted
  <2>. QED
    BY <1>2, <2>1, <2>2, <2>3 DEF Sender
<1>3. ASSUME NEW j \in Jobs, SendDone(j) PROVE Lifecycle!Next
  <2>1. Sending' = Sending /\ Ending' = Ending \ {j} /\ j \in Ending
    BY <1>3 DEF SendDone, TypeOK, Sending, Ending
  <2>2. Lifecycle!Close(j)
    BY <1>3, <2>1 DEF SendDone, Lifecycle!Close, Sending, Ending
  <2>. QED
    BY <2>2 DEF Lifecycle!Next
<1>4. ASSUME NEW STATE P, DropQueued(P) PROVE Lifecycle!Next
  <2>1. PICK i \in DOMAIN queue : FailQueued(queue[i])
    BY <1>4 DEF DropQueued
  <2>2. queue[i] \in Members(queue)
    BY <2>1 DEF Members
  <2>. QED
    BY <1>4, <2>1, <2>2, FailQueuedGivesUp DEF DropQueued
<1>5. ASSUME NEW STATE P, DropWaiting(P) PROVE Lifecycle!Next
  <2>1. PICK i \in DOMAIN waiting : FailQueued(waiting[i].job)
    BY <1>5 DEF DropWaiting
  <2>2. waiting[i].job \in JobsOf(waiting)
    BY <2>1 DEF JobsOf
  <2>. QED
    BY <1>5, <2>1, <2>2, FailQueuedGivesUp DEF DropWaiting
<1>6. ASSUME UNCHANGED <<row, attempts, attempt>> PROVE UNCHANGED Lifecycle!vars
  BY <1>6, LifecycleStutter DEF Sending, Ending
<1>7. CASE Pass
  <2>1. CASE DropExpired \/ FailDeadQueued
    BY <1>4, <2>1 DEF DropExpired, FailDeadQueued
  <2>2. CASE DropExpiredWaiting \/ FailDeadWaiting
    BY <1>5, <2>2 DEF DropExpiredWaiting, FailDeadWaiting
  <2>3. CASE DropExpiredEnd \/ DropExpiredWaitingEnd \/ FailDeadEnd \/ DispatchExpired
             \/ DispatchPaced \/ DispatchEnd \/ RequeueDue \/ RequeueEnd \/ Supervise
    BY <1>6, <2>3 DEF DropExpiredEnd, DropExpiredWaitingEnd, FailDeadEnd, DispatchExpired,
                      DispatchPaced, DispatchEnd, RequeueDue, RequeueEnd, Supervise, Goto
  <2>. QED
    BY <1>7, <2>1, <2>2, <2>3, DispatchSends DEF Pass
<1>8. CASE Select
  BY <1>6, <1>8 DEF Select, ReadCmd, ReadDone, TimerFires, RetryTimerFires, IdleFires, ReadStop
<1>9. CASE Tick \/ PaceElapses \/ Stop \/ Finished \/ UNCHANGED vars
  BY <1>6, <1>9 DEF Tick, PaceElapses, Stop, Finished, vars
<1>. QED
  BY <1>1, <1>2, <1>3, <1>7, <1>8, <1>9, ExecuteImplements, PanicImplements DEF Next

\* The account queue implements JobLifecycle for any jobs, limits, capacities
\* and deadlines: no path through reserve, the loop, execute, its recovery and
\* the sweeps sends a job twice at once or after its outcome, retries it past
\* its limit, or fails it unsent while an attempt is open.  A panic at any point
\* of execute may turn a recorded outcome into failed, until the attempt has
\* sent its message; after that the outcome is final.
THEOREM LifecycleImplemented == Spec => ImplementsLifecycle
<1>1. Init => TypeOK /\ HeldInv
  BY HeldInit, TypeInit
<1>2. TypeOK /\ HeldInv /\ [Next]_vars => (TypeOK /\ HeldInv)'
  BY TypeStep, HeldStep
<1>3. Init => Lifecycle!Init
  BY DEF Init, Lifecycle!Init
<1>. QED
  BY <1>1, <1>2, <1>3, LifecycleStep, PTL DEF Spec, ImplementsLifecycle, Lifecycle!Spec

-----------------------------------------------------------------------------
(* The timers.  TimersArmed is inductive once no retry is due at time 0,  *)
(* the value that means no timer is set.                                    *)

RetryDated == \A i \in DOMAIN waiting : waiting[i].at > 0
TimersInv == TimersArmed /\ RetryDated

\* The same of the members of the slices: positions do not matter.
Tracked(j) == QueueDeadline(j) > 0 => nextDeadline # 0 /\ nextDeadline <= QueueDeadline(j)

\* Steps that neither move a job nor set a timer.
LEMMA TimersQuiet ==
    ASSUME TimersInv, UNCHANGED <<queue, waiting, nextDeadline, retryTimer, createdAt>>,
           pc = "retry" => pc' = "retry"
    PROVE  TimersInv'
  BY DEF TimersInv, TimersArmed, DeadlineTracked, QueueDeadline, RetryArmed, RetryDated

\* A reserved job is not queued yet, and a new loop holds none.
LEMMA ReserveTimers ==
    ASSUME TypeOK, HeldInv, TimersInv, NEW j \in Jobs, Reserve(j)
    PROVE  TimersInv'
<1>1. CASE pc = "retired"
  BY SMT, <1>1 DEF Reserve, FreshRun, TimersInv, TimersArmed, DeadlineTracked, RetryArmed, RetryDated
<1>2. CASE pc # "retired"
  <2>1. row[j] = "none"
    BY DEF Reserve
  <2>2. \A i \in DOMAIN queue : queue[i] # j /\ queue[i] \in Jobs
    <3>1. j \notin Members(queue) /\ queue \in Seq(Jobs)
      BY <2>1, UnknownNowhere DEF TypeOK
    <3>. QED
      BY SMT, <3>1 DEF Members
  <2>3. \A i \in DOMAIN queue : createdAt'[queue[i]] = createdAt[queue[i]]
    BY <2>2 DEF Reserve, TypeOK
  <2>4. UNCHANGED <<pc, queue, waiting, nextDeadline, retryTimer>>
    BY <1>2 DEF Reserve, loopVars, heldVars, timerVars
  <2>. QED
    BY <2>3, <2>4 DEF TimersInv, TimersArmed, DeadlineTracked, QueueDeadline, RetryArmed, RetryDated
<1>. QED
  BY <1>1, <1>2

\* Dropping a queued job delays no other deadline.
LEMMA DropQueuedTimers ==
    ASSUME TypeOK, TimersInv, NEW STATE P, DropQueued(P)
    PROVE  TimersInv'
<1>1. PICK i \in DOMAIN queue : queue' = Without(queue, i)
  BY DEF DropQueued
<1>2. \A k \in DOMAIN queue' : \E n \in DOMAIN queue : queue'[k] = queue[n]
  <2>1. queue \in Seq(Jobs)
    BY DEF TypeOK
  <2> QED
    BY <1>1, <2>1, WithoutIndex
<1>3. UNCHANGED <<pc, waiting, nextDeadline, retryTimer, createdAt>>
  BY DEF DropQueued, timerVars
<1>. QED
  BY <1>2, <1>3 DEF TimersInv, TimersArmed, DeadlineTracked, QueueDeadline, RetryArmed, RetryDated

\* Dropping a waiting job delays no other retry.
LEMMA DropWaitingTimers ==
    ASSUME TypeOK, TimersInv, NEW STATE P, DropWaiting(P)
    PROVE  TimersInv'
<1>1. PICK i \in DOMAIN waiting : waiting' = Without(waiting, i)
  BY DEF DropWaiting
<1>2. \A k \in DOMAIN waiting' : \E n \in DOMAIN waiting : waiting'[k] = waiting[n]
  <2>1. waiting \in Seq(WaitingJob)
    BY DEF TypeOK
  <2> QED
    BY <1>1, <2>1, WithoutIndex
<1>3. UNCHANGED <<pc, queue, nextDeadline, retryTimer, createdAt>>
  BY DEF DropWaiting, timerVars
<1>. QED
  BY <1>2, <1>3 DEF TimersInv, TimersArmed, DeadlineTracked, QueueDeadline, RetryArmed, RetryDated

\* The scan leaves the earliest deadline of the jobs it kept.
LEMMA DropExpiredEndTimers ==
    ASSUME TypeOK, TimersInv, DropExpiredEnd
    PROVE  TimersInv'
<1>1. UNCHANGED <<queue, waiting, retryTimer, createdAt>> /\ pc # "retry"
  BY DEF DropExpiredEnd, timerVars, jobVars
<1>2. CASE queue # <<>> /\ ScanDue
  <2> DEFINE D == {QueueDeadline(queue[i]) : i \in DOMAIN queue} \ {0}
  <2>1. \A i \in DOMAIN queue : queue[i] \in Jobs
    <3>1. queue \in Seq(Jobs)
      BY DEF TypeOK
    <3> QED
      BY SMT, <3>1
  <2>2. D \in SUBSET Nat
    BY <2>1, DeadlineType
  <2>3. nextDeadline' = Earliest(D)
    BY <1>2 DEF DropExpiredEnd
  <2>4. \A i \in DOMAIN queue : QueueDeadline(queue[i]) > 0 => QueueDeadline(queue[i]) \in D
    BY SMT, <2>1, DeadlineType
  <2> HIDE DEF D
  <2>5. \A i \in DOMAIN queue :
            QueueDeadline(queue[i]) > 0 => Earliest(D) \in D /\ Earliest(D) <= QueueDeadline(queue[i])
    BY <2>2, <2>4, EarliestIsLeast
  <2>6. 0 \notin D
    BY DEF D
  <2>. QED
    BY <1>1, <2>3, <2>5, <2>6
       DEF TimersInv, TimersArmed, DeadlineTracked, QueueDeadline, RetryArmed, RetryDated
<1>3. CASE queue # <<>> /\ ~ScanDue
  BY <1>1, <1>3
     DEF DropExpiredEnd, TimersInv, TimersArmed, DeadlineTracked, QueueDeadline, RetryArmed, RetryDated
<1>4. CASE queue = <<>>
  BY SMT, <1>1, <1>4 DEF TimersInv, TimersArmed, DeadlineTracked, RetryArmed, RetryDated
<1>. QED
  BY <1>2, <1>3, <1>4

\* trackDeadline covers the job that joins the queue and those already in it.
LEMMA TrackDeadlineTimers ==
    ASSUME TypeOK, DeadlineTracked, NEW j \in Jobs, queue' = Append(queue, j),
           nextDeadline' = TrackDeadline(nextDeadline, j), createdAt' = createdAt
    PROVE  DeadlineTracked'
<1>1. queue \in Seq(Jobs) /\ nextDeadline \in Nat /\ \A k \in Jobs : QueueDeadline(k) \in Nat
  BY DeadlineType DEF TypeOK
<1>2. \A k \in Jobs : QueueDeadline(k)' = QueueDeadline(k)
  BY DEF QueueDeadline
<1>3. \A i \in DOMAIN queue' : queue'[i] = j \/ \E n \in DOMAIN queue : queue'[i] = queue[n]
  BY SMT, <1>1, AppendIndex
<1>4. \A i \in DOMAIN queue' : queue'[i] \in Jobs
  BY SMT, <1>1
<1>5. QueueDeadline(j) > 0 => nextDeadline' # 0 /\ nextDeadline' <= QueueDeadline(j)
  BY SMT, <1>1 DEF TrackDeadline
<1>6. \A k \in Jobs : Tracked(k) => (QueueDeadline(k) > 0 => nextDeadline' # 0 /\ nextDeadline' <= QueueDeadline(k))
  BY SMT, <1>1 DEF TrackDeadline, Tracked
<1>7. \A n \in DOMAIN queue : Tracked(queue[n])
  BY DEF DeadlineTracked, Tracked
<1>. QED
  BY <1>2, <1>3, <1>4, <1>5, <1>6, <1>7 DEF DeadlineTracked

\* resetRetryTimer sets the timer for the first of the dated retries.
LEMMA RetryTimerFirst ==
    ASSUME NEW w \in Seq(WaitingJob), \A i \in DOMAIN w : w[i].at > 0
    PROVE  \A i \in DOMAIN w : ResetRetryTimer(w) # 0 /\ ResetRetryTimer(w) <= w[i].at
<1> DEFINE A == {w[i].at : i \in DOMAIN w}
<1>1. \A i \in DOMAIN w : w[i] \in WaitingJob
  BY SMT
<1>2. A \in SUBSET Nat /\ 0 \notin A
  BY SMT, <1>1 DEF WaitingJob
<1>3. \A i \in DOMAIN w : w[i].at \in A
  OBVIOUS
<1>4. ResetRetryTimer(w) = Earliest(A)
  BY DEF ResetRetryTimer
<1> HIDE DEF A
<1>5. \A t \in A : Earliest(A) # 0 /\ Earliest(A) <= t
  BY SMT, <1>2, EarliestIsLeast
<1>. QED
  BY <1>3, <1>4, <1>5

\* A job read from cmds is tracked.
LEMMA ReadCmdTimers ==
    ASSUME TypeOK, TimersInv, ReadCmd
    PROVE  TimersInv'
<1>1. Head(cmds) \in Jobs
  BY SMT DEF TypeOK, ReadCmd
<1>2. DeadlineTracked'
  BY <1>1, TrackDeadlineTimers DEF ReadCmd, jobVars, TimersInv, TimersArmed
<1>. QED
  BY <1>2 DEF ReadCmd, TimersInv, TimersArmed, RetryArmed, RetryDated

\* A job that starts to wait sets the timer.
LEMMA ReadDoneTimers ==
    ASSUME TypeOK, TimersInv, ReadDone
    PROVE  TimersInv'
<1>1. UNCHANGED <<queue, nextDeadline, createdAt>> /\ pc # "retry"
  BY DEF ReadDone, jobVars
<1>2. CASE Head(done).retryAt > 0
  <2> DEFINE e == [job |-> Head(done).job, at |-> Head(done).retryAt]
  <2>1. done \in Seq(JobDoneMsg) /\ done # <<>> /\ waiting \in Seq(WaitingJob)
    BY DEF TypeOK, ReadDone
  <2>2. Head(done) \in JobDoneMsg
    BY SMT, <2>1
  <2>3. e \in WaitingJob /\ e.at > 0
    BY <1>2, <2>2 DEF JobDoneMsg, WaitingJob
  <2>4. waiting' = Append(waiting, e) /\ retryTimer' = ResetRetryTimer(waiting')
    BY <1>2 DEF ReadDone
  <2> HIDE DEF e
  <2>5. waiting' \in Seq(WaitingJob)
    BY SMTT(30), <2>1, <2>3, <2>4
  <2>6. \A i \in DOMAIN waiting' : waiting'[i] = e \/ \E n \in DOMAIN waiting : waiting'[i] = waiting[n]
    BY SMTT(30), <2>1, <2>3, <2>4, AppendIndex
  <2>7. \A i \in DOMAIN waiting' : waiting'[i].at > 0
    BY <2>3, <2>6 DEF TimersInv, RetryDated
  <2>8. \A i \in DOMAIN waiting' : retryTimer' # 0 /\ retryTimer' <= waiting'[i].at
    BY <2>4, <2>5, <2>7, RetryTimerFirst
  <2>. QED
    BY <1>1, <2>7, <2>8
       DEF TimersInv, TimersArmed, DeadlineTracked, QueueDeadline, RetryArmed, RetryDated
<1>3. CASE ~(Head(done).retryAt > 0)
  BY <1>1, <1>3, TimersQuiet DEF ReadDone
<1>. QED
  BY <1>2, <1>3

\* A job requeued for its retry is tracked, and the others still wait.
LEMMA RequeueDueTimers ==
    ASSUME TypeOK, TimersInv, RequeueDue
    PROVE  TimersInv'
<1>1. PICK i \in DOMAIN waiting :
          /\ queue' = Append(queue, waiting[i].job)
          /\ nextDeadline' = TrackDeadline(nextDeadline, waiting[i].job)
          /\ waiting' = Without(waiting, i)
  BY DEF RequeueDue, StillWaiting
<1>2. waiting \in Seq(WaitingJob) /\ waiting[i] \in WaitingJob
  BY SMT DEF TypeOK
<1>3. waiting[i].job \in Jobs
  BY <1>2 DEF WaitingJob
<1>4. \A k \in DOMAIN waiting' : \E n \in DOMAIN waiting : waiting'[k] = waiting[n]
  BY <1>1, <1>2, WithoutIndex
<1>5. DeadlineTracked'
  BY <1>1, <1>3, TrackDeadlineTimers DEF RequeueDue, jobVars, TimersInv, TimersArmed
<1>. QED
  BY <1>4, <1>5 DEF RequeueDue, TimersInv, TimersArmed, RetryArmed, RetryDated

\* Every step of the queue keeps the timers armed.
LEMMA TimersStep == TypeOK /\ HeldInv /\ TimersInv /\ [Next]_vars => TimersInv'
<1>. SUFFICES ASSUME TypeOK, HeldInv, TimersInv, [Next]_vars PROVE TimersInv'
  OBVIOUS
<1>. USE DEF envVars, jobVars, chanVars, loopVars, heldVars, slotVars, goVars, timerVars
<1>1. ASSUME NEW j \in Jobs, Accept(j) PROVE TimersInv'
  BY <1>1, ReserveTimers DEF Accept
<1>2. ASSUME NEW j \in Jobs, Sender(j) PROVE TimersInv'
  <2>1. CASE Handoff(j) \/ HandoffStopped(j)
    BY <2>1, TimersQuiet DEF Handoff, HandoffStopped
  <2>2. CASE HookQueued(j)
    <3>1. Hook[j] \in Jobs
      BY SMTT(30), <2>2, HookAssumption DEF TypeOK, HookQueued
    <3>. QED
      BY <2>2, <3>1, ReserveTimers, TimersQuiet DEF HookQueued
  <2>3. CASE HookExecuted(j)
    <3>1. Hook[j] \in Jobs
      BY SMTT(30), <2>3, HookAssumption DEF TypeOK, HookExecuted
    <3>. QED
      BY <2>3, <3>1, ReserveTimers, TimersQuiet DEF HookExecuted
  <2>. QED
    BY <1>2, <2>1, <2>2, <2>3 DEF Sender
<1>3. ASSUME NEW j \in Jobs, Execute(j) \/ ExecutePanicked(j) \/ SendDone(j) PROVE TimersInv'
  <2>1. UNCHANGED <<queue, waiting, nextDeadline, retryTimer, createdAt, pc>>
    BY <1>3 DEF Execute, ExecuteExpired, ExecuteCompleted, ExecuteFailed, ExecuteRetry,
                ExecuteCancelled, ExecutePanicked, EndAttempt, SendDone
  <2>. QED
    BY <2>1, TimersQuiet
<1>4. CASE Pass
  <2>1. CASE DropExpired \/ FailDeadQueued
    BY <2>1, DropQueuedTimers DEF DropExpired, FailDeadQueued
  <2>2. CASE DropExpiredWaiting \/ FailDeadWaiting
    BY <2>2, DropWaitingTimers DEF DropExpiredWaiting, FailDeadWaiting
  <2>3. CASE DropExpiredWaitingEnd \/ FailDeadEnd \/ DispatchExpired \/ DispatchPaced \/ DispatchEnd
    BY <2>3, TimersQuiet DEF DropExpiredWaitingEnd, FailDeadEnd, DispatchExpired, DispatchPaced,
                             DispatchEnd, Goto
  <2>4. CASE Dispatch
    <3>1. \A k \in DOMAIN queue' : \E n \in DOMAIN queue : queue'[k] = queue[n]
      BY SMTT(30), <2>4, TailIndex DEF Dispatch, CanDispatch, TypeOK
    <3>2. UNCHANGED <<pc, waiting, nextDeadline, retryTimer, createdAt>>
      BY <2>4 DEF Dispatch
    <3>. QED
      BY <3>1, <3>2 DEF TimersInv, TimersArmed, DeadlineTracked, QueueDeadline, RetryArmed, RetryDated
  <2>5. CASE RequeueEnd
    <3>1. waiting \in Seq(WaitingJob)
      BY DEF TypeOK
    <3>2. \A i \in DOMAIN waiting : retryTimer' # 0 /\ retryTimer' <= waiting[i].at
      BY <2>5, <3>1, RetryTimerFirst DEF RequeueEnd, TimersInv, RetryDated
    <3>. QED
      BY <2>5, <3>2 DEF RequeueEnd, TimersInv, TimersArmed, DeadlineTracked, QueueDeadline,
                        RetryArmed, RetryDated
  <2>6. CASE Supervise
    <3>1. CASE FreshRun
      BY SMT, <3>1 DEF FreshRun, TimersInv, TimersArmed, DeadlineTracked, RetryArmed, RetryDated
    <3>2. CASE UNCHANGED <<heldVars, timerVars>>
      BY <2>6, <3>2, TimersQuiet DEF Supervise
    <3>. QED
      BY <2>6, <3>1, <3>2 DEF Supervise
  <2>. QED
    BY <1>4, <2>1, <2>2, <2>3, <2>4, <2>5, <2>6, DropExpiredEndTimers, RequeueDueTimers DEF Pass
<1>5. CASE Select
  <2>1. CASE TimerFires("dispatch") \/ TimerFires("position") \/ IdleFires \/ ReadStop
    BY <2>1, TimersQuiet DEF TimerFires, IdleFires, ReadStop
  <2>2. CASE RetryTimerFires
    BY <2>2 DEF RetryTimerFires, TimersInv, TimersArmed, DeadlineTracked, QueueDeadline, RetryArmed,
                RetryDated
  <2>. QED
    BY <1>5, <2>1, <2>2, ReadCmdTimers, ReadDoneTimers DEF Select
<1>6. CASE Tick \/ PaceElapses \/ Stop \/ Finished \/ UNCHANGED vars
  BY <1>6, TimersQuiet DEF Tick, PaceElapses, Stop, Finished, vars
<1>. QED
  BY <1>1, <1>2, <1>3, <1>4, <1>5, <1>6 DEF Next

\* nextDeadline and retryTimer are never late for any job the loop holds,
\* whatever is accepted, dropped, requeued or reported in whatever order: the
\* sweep that skips its scan misses no expired job, and no retry is forgotten.
THEOREM TimersCorrect == Spec => []TimersArmed
<1>. DEFINE IInv == TypeOK /\ HeldInv /\ TimersInv
<1>1. Init => IInv
  <2>1. Init => TimersInv
    BY SMT DEF Init, TimersInv, TimersArmed, DeadlineTracked, RetryArmed, RetryDated
  <2>. QED
    BY <2>1, TypeInit, HeldInit
<1>2. IInv /\ [Next]_vars => IInv'
  BY TypeStep, HeldStep, TimersStep
<1>3. IInv => TimersArmed
  BY DEF TimersInv
<1>. QED
  BY <1>1, <1>2, <1>3, PTL DEF Spec
=============================================================================
