------------------------- MODULE PagedRecoveryProofs -------------------------
(***************************************************************************)
(* Proofs, for any stored and new jobs, any page size and any number of    *)
(* panics, failed reads and retries, that paged recovery leaves no         *)
(* unfinished job behind, and that without a panic the queue holds a job   *)
(* once and runs none that is finished.                                    *)
(***************************************************************************)
EXTENDS PagedRecovery, FiniteSetTheorems, WellFoundedInduction, TLAPS

\* The leaves are first-order and set reasoning except where they say SMT.
USE ZenonT(40)

-----------------------------------------------------------------------------
(* Pages: the first rows of a set, in the order of the jobs.               *)

\* A set of numbers has a least one.
LEMMA LeastExists ==
    ASSUME NEW S \in SUBSET Nat, S # {}
    PROVE  \E m \in S : \A n \in S : m <= n
<1> DEFINE R == {p \in Nat \X Nat : p[1] < p[2]}
<1>1. OpToRel(<, Nat) = R
  BY Zenon DEF OpToRel
<1>2. IsWellFoundedOn(R, Nat)
  BY <1>1, NatLessThanWellFounded, Zenon
<1>3. \A x, y \in S : <<y, x>> \notin R => ~(y < x)
  OBVIOUS
<1> HIDE DEF R
<1>4. PICK m \in S : \A y \in S : <<y, m>> \notin R
  BY <1>2, WFMin
<1>5. \A n \in S : m \in Nat /\ n \in Nat /\ ~(n < m)
  BY <1>3, <1>4
<1> QED
  BY <1>5, SMT

\* Jobs are the numbers from 1 on.
LEMMA JobsNumbers ==
    /\ \A j \in Jobs : j \in Nat /\ j > 0 /\ j <= Cardinality(Jobs)
    /\ IsFiniteSet(Jobs) /\ Cardinality(Jobs) \in Nat
    /\ Old \subseteq Jobs /\ Live \subseteq Jobs
    /\ \A S \in SUBSET Jobs : IsFiniteSet(S) /\ Cardinality(S) \in Nat
<1>1. IsFiniteSet(Jobs) /\ Jobs = 1 .. Cardinality(Jobs) /\ Cardinality(Jobs) \in Nat
  BY RecoveryAssumption, FS_CardinalityType
<1>2. \A S \in SUBSET Jobs : IsFiniteSet(S) /\ Cardinality(S) \in Nat
  BY <1>1, FS_Subset, FS_CardinalityType
<1>3. \A j \in Jobs : j \in Nat /\ j > 0 /\ j <= Cardinality(Jobs)
  BY <1>1, SMT
<1> QED
  BY <1>1, <1>2, <1>3 DEF Jobs

\* Min and Max of jobs.
LEMMA MinOfJobs ==
    ASSUME NEW S \in SUBSET Jobs, S # {}
    PROVE  Min(S) \in S /\ \A k \in S : Min(S) <= k
<1>1. S \in SUBSET Nat
  BY JobsNumbers
<1> QED
  BY <1>1, LeastExists DEF Min

\* A set of jobs has a greatest, which Max returns.
LEMMA MaxOfJobs ==
    ASSUME NEW S \in SUBSET Jobs, S # {}
    PROVE  Max(S) \in S /\ Max(S) \in Nat /\ \A k \in S : k <= Max(S)
<1> DEFINE U == {u \in Nat : \A k \in S : k <= u}
<1>1. S \in SUBSET Nat
  BY JobsNumbers
<1>2. Cardinality(Jobs) \in U
  BY JobsNumbers
<1>3. PICK m \in U : \A u \in U : m <= u
  BY <1>2, LeastExists
<1>4. m \in S
  <2> SUFFICES ASSUME m \notin S PROVE FALSE
    OBVIOUS
  <2>1. \A k \in S : k <= m - 1 /\ k \in Nat
    BY <1>1, <1>3, SMT
  <2>2. PICK k \in S : k <= m - 1 /\ k \in Nat
    BY <2>1
  <2>3. m \in Nat /\ m - 1 \in Nat /\ ~(m <= m - 1)
    BY <1>3, <2>2, SMT
  <2> QED
    BY <1>3, <2>1, <2>3
<1>5. \E x \in S : \A y \in S : x >= y
  BY <1>1, <1>3, <1>4
<1> QED
  BY <1>1, <1>5 DEF Max

\* A page is an initial part of the rows, of at most the rows asked for; a page
\* that is shorter has them all.
LEMMA FirstOfPage ==
    ASSUME NEW S \in SUBSET Jobs, NEW n \in Int
    PROVE  /\ FirstOf(S, n) \subseteq S
           /\ \A j \in FirstOf(S, n), k \in S \ FirstOf(S, n) : j < k
           /\ Cardinality(FirstOf(S, n)) < n => FirstOf(S, n) = S
<1> DEFINE Before(j) == {k \in S : k < j}
           P == FirstOf(S, n)
<1>0. \A j \in S : Before(j) \in SUBSET Jobs /\ j \in Nat
  BY JobsNumbers
<1>1. P = {j \in S : Cardinality(Before(j)) < n}
  BY DEF FirstOf
<1>2. \A j \in P, k \in S \ P : j < k
  <2> SUFFICES ASSUME NEW j \in P, NEW k \in S \ P, ~(j < k) PROVE FALSE
    OBVIOUS
  <2>1. Before(k) \subseteq Before(j)
    BY <1>0, <1>1, SMT
  <2>2. /\ IsFiniteSet(Before(j)) /\ Cardinality(Before(k)) <= Cardinality(Before(j))
        /\ Cardinality(Before(k)) \in Nat /\ Cardinality(Before(j)) \in Nat
    BY <1>0, <1>1, <2>1, JobsNumbers, FS_Subset
  <2> QED
    BY <1>1, <2>2, SMT
<1>3. ASSUME Cardinality(P) < n PROVE P = S
  <2> SUFFICES ASSUME S \ P # {} PROVE FALSE
    BY <1>1
  <2>1. S \ P \in SUBSET Nat
    BY JobsNumbers
  <2>2. PICK k \in S \ P : \A i \in S \ P : k <= i
    BY <2>1, LeastExists
  <2>3. Before(k) \subseteq P
    <3>1. \A i \in Before(k) : i \in S /\ ~(k <= i)
      BY <1>0, SMT
    <3> QED
      BY <2>2, <3>1
  <2>4. /\ Cardinality(Before(k)) <= Cardinality(P)
        /\ Cardinality(Before(k)) \in Nat /\ Cardinality(P) \in Nat
    BY <1>0, <1>1, <2>3, JobsNumbers, FS_Subset
  <2> QED
    BY <1>1, <1>3, <2>2, <2>4, SMT
<1> QED
  BY <1>1, <1>2, <1>3

-----------------------------------------------------------------------------
(* The inductive invariant of NothingLost.                                 *)

\* What a sender holds: a job and the call it is about to make.
SenderStates == [Senders -> [job : Jobs \cup {0}, call : {"none", "key", "send"}]]
\* Where recovery is, with what it has to do, has seen and has counted.
RecoveryStates ==
    [at : {"moved", "page", "first", "attach", "done"}, todo : SUBSET Jobs,
     seen : SUBSET Jobs, last : Nat, count : Nat]

\* The types the arguments need.  The backlog is left out, as it subtracts a
\* sum over a set.
Types ==
    /\ status \in [Jobs -> {"none", "pending", "done"}]
    /\ keyed \in SUBSET Jobs /\ present \in SUBSET Jobs
    /\ aged \in Jobs \cup {0}
    /\ sender \in SenderStates
    /\ cmds \in Seq(Jobs)
    /\ attached \in Seq(Source) /\ spills \in Seq(Source)
    /\ recent \in BOOLEAN /\ panicked \in BOOLEAN
    /\ memory \in [Jobs -> Nat] /\ running \in [Jobs -> Nat]
    /\ finals \in [Jobs -> Nat] /\ retries \in [Jobs -> Nat]
    /\ rec \in RecoveryStates

\* The queue has a copy of j in memory, in an attempt or in a message.
Copied(j) == memory[j] > 0 \/ running[j] > 0 \/ finals[j] > 0 \/ retries[j] > 0

\* A source of s has still to read job j.
Unread(s, j) == \E i \in 1..Len(s) : s[i].after < j

\* What is on the way has its row under the queue's key before it is sent;
\* recovery hands over what it has seen, and a live sender new jobs.
Handed ==
    /\ \A w \in Senders :
          /\ sender[w].call = "none" <=> sender[w].job = 0
          /\ sender[w].call = "send" => sender[w].job \in keyed
    /\ sender["live"].job \in Live \cup {0}
    /\ sender["recovery"].job \in rec.seen \cup {0}
    /\ Range(cmds) \subseteq keyed

\* A copy has its row under the queue's key, so a panic finds it on disk, a
\* job in present is not forgotten, and a final message follows the row.
Backed ==
    /\ \A j \in Jobs : Copied(j) => j \in keyed
    /\ \A j \in present : Copied(j)
    /\ \A j \in Jobs : finals[j] > 0 => status[j] = "done"

\* Stored jobs of the queue's key that are not finished.
OldOnDisk == {j \in Old \cap keyed : status[j] = "pending"}

\* Recovery's count covers the stored jobs when it reads the first page, and
\* those under other keys have been handed over by then.
Counting ==
    /\ loop = "refill" => spills # <<>>
    /\ rec.at = "moved" =>
          /\ Old \ (keyed \cup rec.seen) \subseteq rec.todo
          /\ rec.seen = {} => Cardinality(OldOnDisk) <= rec.count
    /\ rec.at = "page" =>
          /\ rec.todo = {} /\ RecoveryIdle
          /\ Old \subseteq keyed \cup rec.seen
          /\ Cardinality(OldOnDisk) <= rec.count
    /\ rec.at \in {"attach", "done"} => rec.todo = {}

\* Recovery has still to hand over j, or to leave it to a source.
Owed(j) ==
    /\ j \notin rec.seen
    /\ \/ rec.at \in {"moved", "page"} /\ j \in Old
       \/ /\ rec.at \in {"first", "attach"}
          /\ j \in rec.todo \/ (rec.count > 0 /\ j \in keyed /\ rec.last < j)

\* Where an unfinished job is.
Accounted(j) ==
    \/ Copied(j)
    \/ j \in Range(cmds)
    \/ \E w \in Senders : sender[w].job = j
    \/ j \in keyed /\ (Unread(spills, j) \/ Unread(attached, j))
    \/ Owed(j)

\* Every unfinished job is somewhere.
AllAccounted == \A j \in Jobs : status[j] = "pending" => Accounted(j)

\* The inductive invariant of NothingLost.
LostInv == Types /\ Handed /\ Backed /\ Counting /\ AllAccounted

-----------------------------------------------------------------------------
(* Sequences.                                                              *)

\* What a channel holds after a send and after a receive.
LEMMA ChannelSend ==
    ASSUME NEW S, NEW s \in Seq(S), NEW e \in S
    PROVE  /\ Append(s, e) \in Seq(S) /\ Range(Append(s, e)) = Range(s) \cup {e}
           /\ Len(Append(s, e)) = Len(s) + 1 /\ Append(s, e)[Len(s) + 1] = e
           /\ \A i \in 1..Len(s) : Append(s, e)[i] = s[i]
<1> DEFINE t == Append(s, e)
<1>1. /\ t \in Seq(S) /\ Len(t) = Len(s) + 1 /\ t[Len(s) + 1] = e
      /\ Len(s) \in Nat /\ DOMAIN s = 1..Len(s) /\ DOMAIN t = 1..Len(t)
      /\ \A i \in 1..Len(s) : t[i] = s[i]
  BY SMT
<1> HIDE DEF t
<1>2. \A i : i \in DOMAIN t <=> i \in DOMAIN s \/ i = Len(s) + 1
  BY <1>1, SMT
<1>3. Range(t) = Range(s) \cup {e}
  BY <1>1, <1>2 DEF Range
<1> QED
  BY <1>1, <1>3 DEF t

\* Receiving from a channel takes its first element and leaves the others in order.
LEMMA ChannelReceive ==
    ASSUME NEW S, NEW s \in Seq(S), s # <<>>
    PROVE  /\ Tail(s) \in Seq(S) /\ Head(s) \in S /\ Head(s) = s[1] /\ Len(s) \in Nat /\ Len(s) > 0
           /\ Len(Tail(s)) = Len(s) - 1 /\ \A i \in 1..(Len(s) - 1) : Tail(s)[i] = s[i + 1]
           /\ Range(s) = Range(Tail(s)) \cup {Head(s)}
<1> DEFINE t == Tail(s)
<1>1. /\ t \in Seq(S) /\ Head(s) \in S /\ Head(s) = s[1] /\ Len(s) \in Nat /\ Len(s) > 0
      /\ Len(t) = Len(s) - 1 /\ DOMAIN s = 1..Len(s) /\ DOMAIN t = 1..Len(t)
      /\ \A i \in 1..(Len(s) - 1) : t[i] = s[i + 1]
  BY SMT
<1> HIDE DEF t
<1>2. /\ 1 \in DOMAIN s
      /\ \A i \in DOMAIN t : i + 1 \in DOMAIN s /\ t[i] = s[i + 1]
      /\ \A i \in DOMAIN s : i = 1 \/ (i - 1 \in DOMAIN t /\ t[i - 1] = s[i])
  BY <1>1, SMT
<1>3. Range(s) = Range(t) \cup {Head(s)}
  <2>1. ASSUME NEW x \in Range(s) PROVE x \in Range(t) \cup {Head(s)}
    <3>1. PICK i \in DOMAIN s : x = s[i]
      BY <2>1 DEF Range
    <3>2. CASE i = 1
      BY <1>1, <3>1, <3>2
    <3>3. CASE i - 1 \in DOMAIN t /\ t[i - 1] = s[i]
      BY <3>1, <3>3 DEF Range
    <3> QED
      BY <1>2, <3>2, <3>3
  <2>2. ASSUME NEW x \in Range(t) PROVE x \in Range(s)
    <3>1. PICK i \in DOMAIN t : x = t[i]
      BY <2>2 DEF Range
    <3>2. i + 1 \in DOMAIN s /\ x = s[i + 1]
      BY <1>2, <3>1
    <3> QED
      BY <3>2 DEF Range
  <2>3. Head(s) \in Range(s)
    BY <1>1, <1>2 DEF Range
  <2> QED
    BY <2>1, <2>2, <2>3
<1> QED
  BY <1>1, <1>3 DEF t

\* What sources have still to read, as sources are added and the first is
\* replaced or ends.
LEMMA UnreadAdded ==
    ASSUME NEW s \in Seq(Source), NEW t \in Seq(Source), NEW j
    PROVE  s \o t \in Seq(Source) /\ (Unread(s \o t, j) <=> Unread(s, j) \/ Unread(t, j))
<1> DEFINE u == s \o t
<1>1. /\ u \in Seq(Source) /\ Len(u) = Len(s) + Len(t) /\ Len(s) \in Nat /\ Len(t) \in Nat
      /\ \A i \in 1..Len(s) : u[i] = s[i]
      /\ \A i \in 1..Len(t) : u[i + Len(s)] = t[i]
  BY SMT
<1> HIDE DEF u
<1>2. /\ \A i \in 1..Len(s) : i \in 1..Len(u)
      /\ \A i \in 1..Len(t) : i + Len(s) \in 1..Len(u)
      /\ \A i \in 1..Len(u) : i \in 1..Len(s) \/ (i - Len(s) \in 1..Len(t) /\ u[i] = t[i - Len(s)])
  <2>1. /\ \A i \in 1..Len(s) : i \in 1..Len(u)
        /\ \A i \in 1..Len(t) : i + Len(s) \in 1..Len(u)
    BY <1>1, SMT
  <2>2. ASSUME NEW i \in 1..Len(u), i \notin 1..Len(s)
        PROVE  i - Len(s) \in 1..Len(t) /\ u[i] = t[i - Len(s)]
    <3>1. i - Len(s) \in 1..Len(t) /\ (i - Len(s)) + Len(s) = i
      BY <1>1, <2>2, SMT
    <3>2. u[(i - Len(s)) + Len(s)] = t[i - Len(s)]
      BY <1>1, <3>1
    <3> QED
      BY <3>1, <3>2
  <2> QED
    BY <2>1, <2>2
<1>3. Unread(u, j) <=> Unread(s, j) \/ Unread(t, j)
  BY <1>1, <1>2 DEF Unread
<1> QED
  BY <1>1, <1>3 DEF u

\* A queue of one source has unread what that source has.
LEMMA UnreadOne ==
    ASSUME NEW x \in Source, NEW j
    PROVE  <<x>> \in Seq(Source) /\ (Unread(<<x>>, j) <=> x.after < j)
<1>1. <<x>> \in Seq(Source) /\ Len(<<x>>) = 1 /\ <<x>>[1] = x /\ 1..1 = {1}
  BY SMT
<1> QED
  BY <1>1 DEF Unread

\* Attaching a source adds what it has unread to the queue's.
LEMMA UnreadAppend ==
    ASSUME NEW s \in Seq(Source), NEW x \in Source, NEW j
    PROVE  /\ Append(s, x) \in Seq(Source)
           /\ Unread(Append(s, x), j) <=> Unread(s, j) \/ x.after < j
<1>1. Append(s, x) = s \o <<x>>
  BY SMT
<1>2. /\ <<x>> \in Seq(Source) 
      /\ Unread(<<x>>, j) <=> x.after < j
  BY UnreadOne
<1>3. /\ s \o <<x>> \in Seq(Source) 
      /\ Unread(s \o <<x>>, j) <=> Unread(s, j) \/ Unread(<<x>>, j)
  BY <1>2, UnreadAdded
<1> QED
  BY <1>1, <1>2, <1>3

\* Taking the first source off splits what is unread.
LEMMA UnreadFirst ==
    ASSUME NEW s \in Seq(Source), s # <<>>, NEW j
    PROVE  /\ Tail(s) \in Seq(Source) /\ Head(s) \in Source
           /\ Unread(s, j) <=> Head(s).after < j \/ Unread(Tail(s), j)
<1>1. s = <<Head(s)>> \o Tail(s) /\ Head(s) \in Source /\ Tail(s) \in Seq(Source)
  BY SMT
<1>2. /\ <<Head(s)>> \in Seq(Source) 
      /\ Unread(<<Head(s)>>, j) <=> Head(s).after < j
  BY <1>1, UnreadOne
<1>3. Unread(<<Head(s)>> \o Tail(s), j) <=> Unread(<<Head(s)>>, j) \/ Unread(Tail(s), j)
  BY <1>1, <1>2, UnreadAdded
<1> QED
  BY <1>1, <1>2, <1>3

\* Unread depends on the cursors alone.
LEMMA UnreadCursors ==
    ASSUME NEW s, NEW t, NEW j, Len(s) = Len(t),
           \A i \in 1..Len(s) : t[i].after = s[i].after
    PROVE  Unread(t, j) <=> Unread(s, j)
BY DEF Unread

-----------------------------------------------------------------------------
(* Pages and sources.                                                      *)

\* A page of the queue's rows.
LEMMA PageFacts ==
    ASSUME Types, NEW a \in Nat
    PROVE  /\ OnDisk(a) \in SUBSET Jobs /\ QueuedPage(a) \in SUBSET Jobs
           /\ QueuedPage(a) \subseteq OnDisk(a)
           /\ Cardinality(QueuedPage(a)) \in Nat
           /\ Cardinality(QueuedPage(a)) < PageSize => QueuedPage(a) = OnDisk(a)
           /\ \A j \in QueuedPage(a), k \in OnDisk(a) \ QueuedPage(a) : j < k
           /\ QueuedPage(a) # {} =>
                 /\ Max(QueuedPage(a)) \in QueuedPage(a) /\ Max(QueuedPage(a)) \in Nat
                 /\ \A k \in OnDisk(a) \ QueuedPage(a) : Max(QueuedPage(a)) < k
<1>1. OnDisk(a) \in SUBSET Jobs
  BY DEF OnDisk, Types
<1>2. PageSize \in Int
  BY RecoveryAssumption, SMT
<1> DEFINE page == FirstOf(OnDisk(a), PageSize)
<1>3. /\ page \subseteq OnDisk(a)
      /\ \A j \in page, k \in OnDisk(a) \ page : j < k
      /\ Cardinality(page) < PageSize => page = OnDisk(a)
  BY <1>1, <1>2, FirstOfPage
<1>4. QueuedPage(a) = page
  BY DEF QueuedPage
<1> HIDE DEF page
<1>5. page \in SUBSET Jobs /\ Cardinality(page) \in Nat
  BY <1>1, <1>3, JobsNumbers
<1>6. page # {} => Max(page) \in page /\ Max(page) \in Nat
  BY <1>5, MaxOfJobs
<1> QED
  BY <1>1, <1>3, <1>4, <1>5, <1>6

\* The rows that use up a reserved count.
LEMMA CountedFacts ==
    ASSUME NEW src, NEW rows \in SUBSET Jobs
    PROVE  Counted(src, rows) \in SUBSET Jobs /\ Cardinality(Counted(src, rows)) \in Nat
<1>1. Counted(src, rows) \in SUBSET Jobs
  BY DEF Counted, FirstOf
<1> QED
  BY <1>1, JobsNumbers

\* Sources as they are made, read, swept and started over.
LEMMA SourceMade ==
    ASSUME NEW a \in Nat, NEW n \in Nat
    PROVE  NewSource(a, n) \in Source /\ NewSource(a, n).after = a
BY SMT DEF NewSource, Source

\* A source after it read a page that ends at a, after one that skipped n jobs,
\* and when it starts over up to m.
ReadTo(x, n, a) == [x EXCEPT !.consumed = @ + n, !.after = a]
Used(x, n) == [x EXCEPT !.consumed = @ + n]
StartedOver(x, m) == [x EXCEPT !.after = 0, !.through = m]

\* Each is a source, and each is where it should be in the order.
LEMMA SourceRead ==
    ASSUME NEW x \in Source, NEW n \in Nat, NEW a \in Nat
    PROVE  /\ x.after \in Nat /\ x.through \in Nat
           /\ ReadTo(x, n, a) \in Source /\ ReadTo(x, n, a).after = a
           /\ Used(x, n) \in Source /\ Used(x, n).after = x.after
           /\ StartedOver(x, n) \in Source /\ StartedOver(x, n).after = 0
<1>1. x.after \in Nat /\ x.through \in Nat
  BY SMT DEF Source
<1>2. ReadTo(x, n, a) \in Source /\ ReadTo(x, n, a).after = a
  <2> DEFINE y == [x EXCEPT !.consumed = @ + n]
  <2>1. y \in Source
    BY SMT DEF Source
  <2> HIDE DEF y
  <2>2. [y EXCEPT !.after = a] \in Source /\ [y EXCEPT !.after = a].after = a
    BY <2>1, SMT DEF Source
  <2> QED
    BY <2>2 DEF ReadTo, y
<1>3. Used(x, n) \in Source /\ Used(x, n).after = x.after
  BY SMT DEF Source, Used
<1>4. StartedOver(x, n) \in Source /\ StartedOver(x, n).after = 0
  <2> DEFINE y == [x EXCEPT !.after = 0]
  <2>1. y \in Source /\ y.after = 0
    BY SMT DEF Source
  <2> HIDE DEF y
  <2>2. [y EXCEPT !.through = n] \in Source /\ [y EXCEPT !.through = n].after = y.after
    BY <2>1, SMT DEF Source
  <2> QED
    BY <2>1, <2>2 DEF StartedOver, y
<1> QED
  BY <1>1, <1>2, <1>3, <1>4

\* Max of two numbers is a number.
LEMMA MaxOfTwo ==
    ASSUME NEW a \in Nat, NEW b \in Nat
    PROVE  Max({a, b}) \in Nat
<1>1. \E x \in {a, b} : \A y \in {a, b} : x >= y
  BY SMT
<1>2. Max({a, b}) \in {a, b}
  BY <1>1 DEF Max
<1> QED
  BY <1>2

\* Sweep keeps the cursors.
LEMMA SweptSources ==
    ASSUME Types, Sweep
    PROVE  /\ spills' \in Seq(Source) /\ Len(spills') = Len(spills)
           /\ \A i \in 1..Len(spills) : spills'[i].after = spills[i].after
<1> DEFINE n(i) == Cardinality(Counted(spills[i], Swept(i)))
<1>1. /\ Len(spills) \in Nat /\ DOMAIN spills = 1..Len(spills)
      /\ \A i \in 1..Len(spills) : spills[i] \in Source
  BY SMT DEF Types
<1>2. spills' = [i \in 1..Len(spills) |-> Used(spills[i], n(i))]
  BY <1>1 DEF Sweep, Used
<1>3. ASSUME NEW i \in 1..Len(spills)
      PROVE  /\ Used(spills[i], n(i)) \in Source
             /\ Used(spills[i], n(i)).after = spills[i].after
  <2>1. spills[i] \in Source /\ spills[i].after \in Nat
    BY <1>1, SMT DEF Source
  <2>2. Swept(i) \in SUBSET Jobs
    BY DEF Swept, OnDisk, Types
  <2>3. n(i) \in Nat
    BY <2>2, CountedFacts
  <2> HIDE DEF n
  <2> QED
    BY <2>1, <2>3, SourceRead
<1> HIDE DEF n
<1>4. spills' \in [1..Len(spills) -> Source]
  BY <1>2, <1>3
<1>5. spills' \in Seq(Source) /\ Len(spills') = Len(spills)
  BY <1>1, <1>4, SMT
<1> QED
  BY <1>2, <1>3, <1>5

\* reloadAfterPanic leaves a source, and every source starts over.
LEMMA ReloadedSources ==
    ASSUME Types, Panic
    PROVE  spills' \in Seq(Source) /\ \A j \in Jobs : Unread(spills', j)
<1> DEFINE s == spills \o attached
           again(i) == StartedOver(s[i], Max({s[i].through, s[i].after}))
<1>1. /\ s \in Seq(Source) /\ Len(s) \in Nat /\ DOMAIN s = 1..Len(s)
      /\ \A i \in 1..Len(s) : s[i] \in Source
      /\ s # <<>> => 1 \in 1..Len(s)
  BY SMT DEF Types
<1>2. spills' = IF s = <<>> THEN <<NewSource(0, 0)>> ELSE [i \in 1..Len(s) |-> again(i)]
  BY <1>1 DEF Panic, Restarted, StartedOver
<1> HIDE DEF s
<1>3. ASSUME NEW i \in 1..Len(s)
      PROVE  again(i) \in Source /\ again(i).after = 0
  <2>1. s[i] \in Source /\ s[i].after \in Nat /\ s[i].through \in Nat
    BY <1>1, SMT DEF Source
  <2>2. Max({s[i].through, s[i].after}) \in Nat
    BY <2>1, MaxOfTwo
  <2> QED
    BY <2>1, <2>2, SourceRead
<1> HIDE DEF again
<1>4. \A j \in Jobs : 0 < j
  BY JobsNumbers, SMT
<1>5. CASE s = <<>>
  <2>1. NewSource(0, 0) \in Source /\ NewSource(0, 0).after = 0
    BY SourceMade
  <2>2. spills' = <<NewSource(0, 0)>>
    BY <1>2, <1>5
  <2> QED
    BY <1>4, <2>1, <2>2, UnreadOne
<1>6. CASE s # <<>>
  <2>1. spills' = [i \in 1..Len(s) |-> again(i)]
    BY <1>2, <1>6
  <2>2. spills' \in [1..Len(s) -> Source] /\ spills'[1].after = 0
    BY <1>1, <1>3, <1>6, <2>1
  <2>3. spills' \in Seq(Source) /\ 1 \in 1..Len(spills')
    BY <1>1, <1>6, <2>2, SMT
  <2> QED
    BY <1>4, <2>2, <2>3 DEF Unread
<1> QED
  BY <1>5, <1>6

\* RefillPage: what the page has is in the queue, and what the first source had
\* still to read beyond the page it has still.
LEMMA RefilledPage ==
    ASSUME Types, Counting, RefillPage
    PROVE  \E page \in SUBSET Jobs :
              /\ \A j \in page : j \in keyed /\ status[j] = "pending"
              /\ present' = present \cup page
              /\ memory' = [j \in Jobs |-> memory[j] + IF j \in page \ present THEN 1 ELSE 0]
              /\ recent' = (recent \/ page # {})
              /\ spills # <<>>
              /\ spills' \in Seq(Source)
              /\ \A j \in keyed : status[j] = "pending" /\ Unread(spills, j) =>
                    j \in page \/ Unread(spills', j)
<1> DEFINE src == Head(spills)
           page == QueuedPage(src.after)
           n == Cardinality(Counted(src, page))
           a == IF page = {} THEN src.after ELSE Max(page)
           new == ReadTo(src, n, a)
<1>1. spills # <<>> /\ spills \in Seq(Source)
  BY DEF RefillPage, Counting, Types
<1>2. src \in Source /\ Tail(spills) \in Seq(Source) /\ src.after \in Nat
  <2>1. src \in Source /\ Tail(spills) \in Seq(Source)
    BY <1>1, UnreadFirst
  <2> QED
    BY <2>1, SMT DEF Source
<1>3. /\ present' = present \cup page
      /\ memory' = [j \in Jobs |-> memory[j] + IF j \in page \ present THEN 1 ELSE 0]
      /\ recent' = (recent \/ page # {})
      /\ spills' = IF Cardinality(page) < PageSize THEN Tail(spills) ELSE <<new>> \o Tail(spills)
  <2>1. new = [src EXCEPT !.consumed = @ + n,
                          !.after = IF page = {} THEN @ ELSE Max(page)]
    BY DEF ReadTo
  <2> QED
    BY <2>1 DEF RefillPage
<1>4. /\ page \in SUBSET Jobs /\ page \subseteq OnDisk(src.after)
      /\ Cardinality(page) < PageSize => page = OnDisk(src.after)
      /\ page # {} => Max(page) \in Nat /\ \A k \in OnDisk(src.after) \ page : Max(page) < k
  BY <1>2, PageFacts
<1>5. OnDisk(src.after) = {j \in keyed : status[j] = "pending" /\ src.after < j}
  <2>1. \A j \in keyed : j <= src.after <=> ~(src.after < j)
    BY <1>2, JobsNumbers, SMT DEF Types
  <2> QED
    BY <2>1 DEF OnDisk, Covers
<1>6. n \in Nat
  BY <1>4, CountedFacts
<1> HIDE DEF page, n
<1>7. a \in Nat
  BY <1>2, <1>4
<1>8. \A k \in OnDisk(src.after) \ page : a < k
  BY <1>4, <1>5
<1> HIDE DEF a
<1>9. new \in Source /\ new.after = a
  BY <1>2, <1>6, <1>7, SourceRead
<1> HIDE DEF new
<1>10. spills' \in Seq(Source)
  <2>1. <<new>> \in Seq(Source)
    BY <1>9, UnreadOne
  <2> QED
    BY <1>2, <1>3, <2>1, UnreadAdded
<1>11. ASSUME NEW j \in keyed, status[j] = "pending", Unread(spills, j), j \notin page
       PROVE  Unread(spills', j)
  <2>1. src.after < j \/ Unread(Tail(spills), j)
    BY <1>1, <1>11, UnreadFirst
  <2>2. CASE Cardinality(page) < PageSize
    BY <1>3, <1>4, <1>5, <1>11, <2>1, <2>2
  <2>3. CASE ~(Cardinality(page) < PageSize)
    <3>1. a < j \/ Unread(Tail(spills), j)
      BY <1>5, <1>8, <1>11, <2>1
    <3>2. <<new>> \in Seq(Source) /\ (Unread(<<new>>, j) <=> a < j)
      BY <1>9, UnreadOne
    <3>3. Unread(<<new>> \o Tail(spills), j)
      BY <1>2, <3>1, <3>2, UnreadAdded
    <3> QED
      BY <1>3, <2>3, <3>3
  <2> QED
    BY <2>2, <2>3
<1>12. \A j \in page : j \in keyed /\ status[j] = "pending"
  BY <1>4, <1>5
<1> HIDE DEF src
<1> QED
  BY <1>1, <1>3, <1>4, <1>10, <1>11, <1>12

-----------------------------------------------------------------------------
(* Types.                                                                  *)

\* Recovery's place and locals, field by field.
Place(a, T, U, m, n) == [at |-> a, todo |-> T, seen |-> U, last |-> m, count |-> n]

\* Its type.
LEMMA PlaceTyped ==
    ASSUME NEW a \in {"moved", "page", "first", "attach", "done"},
           NEW T \in SUBSET Jobs, NEW U \in SUBSET Jobs, NEW m \in Nat, NEW n \in Nat
    PROVE  Place(a, T, U, m, n) \in RecoveryStates
BY SMT DEF Place, RecoveryStates

\* The fields of recovery's locals.
LEMMA RecordFields == ASSUME NEW r \in RecoveryStates
  PROVE /\ r.at \in {"moved", "page", "first", "attach", "done"} /\ r.todo \in SUBSET Jobs
        /\ r.seen \in SUBSET Jobs /\ r.last \in Nat /\ r.count \in Nat
BY SMT DEF RecoveryStates

\* Recovery moves on.
LEMMA PlaceAt ==
    ASSUME NEW r \in RecoveryStates, NEW a
    PROVE  [r EXCEPT !.at = a]
             = Place(a, r.todo, r.seen, r.last, r.count)
BY SMT DEF Place, RecoveryStates

\* Recovery passes over a job.
LEMMA PlaceTodo ==
    ASSUME NEW r \in RecoveryStates, NEW T
    PROVE  [r EXCEPT !.todo = T]
             = Place(r.at, T, r.seen, r.last, r.count)
BY SMT DEF Place, RecoveryStates

\* Recovery takes up a job.
LEMMA PlaceSeen ==
    ASSUME NEW r \in RecoveryStates, NEW T, NEW U
    PROVE  [r EXCEPT !.todo = T, !.seen = U]
             = Place(r.at, T, U, r.last, r.count)
<1> DEFINE x == [r EXCEPT !.todo = T]
<1>1. x = Place(r.at, T, r.seen, r.last, r.count)
  BY SMT DEF Place, RecoveryStates
<1> HIDE DEF x
<1>2. [x EXCEPT !.seen = U] = Place(r.at, T, U, r.last, r.count)
  BY <1>1, SMT DEF Place
<1> QED
  BY <1>2 DEF x

\* Recovery has counted the rows.
LEMMA PlaceCount ==
    ASSUME NEW r \in RecoveryStates, NEW a, NEW n
    PROVE  [r EXCEPT !.at = a, !.count = n]
             = Place(a, r.todo, r.seen, r.last, n)
<1> DEFINE x == [r EXCEPT !.at = a]
<1>1. x = Place(a, r.todo, r.seen, r.last, r.count)
  BY SMT DEF Place, RecoveryStates
<1> HIDE DEF x
<1>2. [x EXCEPT !.count = n] = Place(a, r.todo, r.seen, r.last, n)
  BY <1>1, SMT DEF Place
<1> QED
  BY <1>2 DEF x

\* Recovery ends.
Ended(r, a, m, n) == [r EXCEPT !.at = a, !.last = m, !.count = n]

\* Its place then.
LEMMA PlaceDone ==
    ASSUME NEW r \in RecoveryStates, NEW a, NEW m, NEW n
    PROVE  Ended(r, a, m, n) = Place(a, r.todo, r.seen, m, n)
<1> DEFINE x == [r EXCEPT !.at = a]
<1>1. x = Place(a, r.todo, r.seen, r.last, r.count)
  BY SMT DEF Place, RecoveryStates
<1> HIDE DEF x
<1> DEFINE y == [x EXCEPT !.last = m]
<1>2. y = Place(a, r.todo, r.seen, m, r.count)
  BY <1>1, SMT DEF Place
<1> HIDE DEF y
<1>3. [y EXCEPT !.count = n] = Place(a, r.todo, r.seen, m, n)
  BY <1>2, SMT DEF Place
<1> QED
  BY <1>3 DEF x, y, Ended

\* Recovery has read its page.
Paged(r, a, T, m, n) == [r EXCEPT !.at = a, !.todo = T, !.last = m, !.count = n]

\* Its place then.
LEMMA PlacePage ==
    ASSUME NEW r \in RecoveryStates, NEW a, NEW T, NEW m, NEW n
    PROVE  Paged(r, a, T, m, n) = Place(a, T, r.seen, m, n)
<1> DEFINE x == [r EXCEPT !.at = a]
<1>1. x = Place(a, r.todo, r.seen, r.last, r.count)
  BY SMT DEF Place, RecoveryStates
<1> HIDE DEF x
<1> DEFINE y == [x EXCEPT !.todo = T]
<1>2. y = Place(a, T, r.seen, r.last, r.count)
  BY <1>1, SMT DEF Place
<1> HIDE DEF y
<1> DEFINE z == [y EXCEPT !.last = m]
<1>3. z = Place(a, T, r.seen, m, r.count)
  BY <1>2, SMT DEF Place
<1> HIDE DEF z
<1>4. [z EXCEPT !.count = n] = Place(a, T, r.seen, m, n)
  BY <1>3, SMT DEF Place
<1> QED
  BY <1>4 DEF x, y, z, Paged

\* What a sender is handing over is a job.
LEMMA SenderFacts ==
    ASSUME Types, Handed, NEW w \in Senders
    PROVE  /\ sender[w].job \in Jobs \cup {0}
           /\ sender[w].call \in {"none", "key", "send"}
           /\ sender[w].call # "none" => sender[w].job \in Jobs
           /\ sender[w] = Idle <=> sender[w].call = "none"
           /\ sender[w] = Idle => sender[w].job = 0
BY SMT DEF Types, SenderStates, Handed, Idle

\* A step of a sender, Reserve included.
LEMMA SenderTypes ==
    ASSUME Types, NEW w \in Senders, NEW j \in Jobs, NEW c \in {"none", "key", "send"}
    PROVE  /\ [sender EXCEPT ![w] = [job |-> j, call |-> c]] \in SenderStates
           /\ [sender EXCEPT ![w] = Idle] \in SenderStates
           /\ [sender EXCEPT ![w].call = c] \in SenderStates
<1>1. [sender EXCEPT ![w] = [job |-> j, call |-> c]] \in SenderStates
  BY SMT DEF Types, SenderStates
<1>2. [sender EXCEPT ![w] = Idle] \in SenderStates
  BY SMT DEF Types, SenderStates, Idle
<1>3. [sender EXCEPT ![w].call = c] \in SenderStates
  <2> DEFINE y == [sender[w] EXCEPT !.call = c]
  <2>0. sender[w] \in [job : Jobs \cup {0}, call : {"none", "key", "send"}]
    BY DEF Types, SenderStates
  <2>1. y \in [job : Jobs \cup {0}, call : {"none", "key", "send"}]
    BY <2>0, SMT
  <2> HIDE DEF y
  <2>2. [sender EXCEPT ![w] = y] \in SenderStates
    BY <2>1 DEF Types, SenderStates
  <2> QED
    BY <2>2 DEF y
<1> QED
  BY <1>1, <1>2, <1>3

\* A number of copies stays one.
LEMMA CopyTypes ==
    ASSUME NEW f \in [Jobs -> Nat], NEW j \in Jobs
    PROVE  Plus(f, j) \in [Jobs -> Nat] /\ (f[j] > 0 => Less(f, j) \in [Jobs -> Nat])
BY SMT DEF Plus, Less

\* Every step keeps the types.
LEMMA TypesStep ==
    ASSUME Types, Handed, Counting, Next
    PROVE  Types'
<1> USE DEF storeVars, sendVars, pageVars, attemptVars, used
<1>1. ASSUME NEW w \in Senders, SetQueueKey(w)
      PROVE  Types'
  <2>1. sender[w].job \in Jobs
    BY <1>1, SenderFacts DEF SetQueueKey
  <2>2. keyed' \in SUBSET Jobs
    BY <1>1, <2>1 DEF SetQueueKey, Types
  <2>3. sender' \in SenderStates
    BY <1>1, <2>1, SenderTypes DEF SetQueueKey
  <2> QED
    BY <1>1, <2>2, <2>3 DEF SetQueueKey, Types
<1>2. ASSUME NEW w \in Senders, Send(w)
      PROVE  Types'
  <2>1. sender[w].job \in Jobs
    BY <1>2, SenderFacts DEF Send
  <2>2. cmds' \in Seq(Jobs)
    <3>1. cmds \in Seq(Jobs) /\ cmds' = Append(cmds, sender[w].job)
      BY <1>2 DEF Send, Types
    <3>2. Append(cmds, sender[w].job) \in Seq(Jobs)
      BY <2>1, <3>1, SMT
    <3> QED
      BY <3>1, <3>2
  <2>3. sender' \in SenderStates
    BY <1>2, <2>1, SenderTypes DEF Send
  <2> QED
    BY <1>2, <2>2, <2>3 DEF Send, Types
<1>3. ASSUME NEW j \in Live, Create(j)
      PROVE  Types'
  <2>1. j \in Jobs /\ "live" \in Senders
    BY DEF Jobs, Senders
  <2>2. sender' \in SenderStates
    BY <1>3, <2>1, SenderTypes DEF Create, Reserve
  <2>3. status' \in [Jobs -> {"none", "pending", "done"}]
    BY <1>3 DEF Create, Types
  <2> QED
    BY <1>3, <2>2, <2>3 DEF Create, Types
<1>4. CASE RecoverJob
  <2> DEFINE j == Min(rec.todo)
  <2>1. rec.todo \in SUBSET Jobs /\ rec.todo # {}
    BY <1>4, RecordFields DEF RecoverJob, Types
  <2>2. j \in Jobs /\ "recovery" \in Senders
    BY <2>1, MinOfJobs DEF Senders
  <2>3. rec' \in RecoveryStates
    <3> HIDE DEF j
    <3>1. /\ [rec EXCEPT !.todo = @ \ {j}] \in RecoveryStates
          /\ [rec EXCEPT !.todo = @ \ {j}, !.seen = @ \cup {j}] \in RecoveryStates
      <4>1. /\ rec \in RecoveryStates /\ rec.todo \ {j} \in SUBSET Jobs
            /\ rec.seen \cup {j} \in SUBSET Jobs
        BY <2>2, RecordFields DEF Types
      <4>2. /\ Place(rec.at, rec.todo \ {j}, rec.seen, rec.last, rec.count) \in RecoveryStates
            /\ Place(rec.at, rec.todo \ {j}, rec.seen \cup {j}, rec.last, rec.count)
                  \in RecoveryStates
        BY <4>1, RecordFields, PlaceTyped
      <4> QED
        BY <4>1, <4>2, PlaceTodo, PlaceSeen
    <3> QED
      BY <1>4, <3>1 DEF RecoverJob, RecoveryStep, j
  <2>4. sender' \in SenderStates
    <3>1. CASE sender' = sender
      BY <3>1 DEF Types
    <3>2. CASE Reserve("recovery", j)
      BY <2>2, <3>2, SenderTypes DEF Reserve
    <3> QED
      BY <1>4, <3>1, <3>2 DEF RecoverJob, RecoveryStep
  <2> QED
    BY <1>4, <2>3, <2>4 DEF RecoverJob, RecoveryStep, Types
<1>5. CASE Recount
  <2>1. OnDisk(0) \in SUBSET Jobs
    BY DEF OnDisk, Types
  <2>2. Cardinality(OnDisk(0)) \in Nat
    BY <2>1, JobsNumbers
  <2>3. /\ [rec EXCEPT !.at = "page", !.count = Cardinality(OnDisk(0))] \in RecoveryStates
        /\ [rec EXCEPT !.at = "page"] \in RecoveryStates
    <3>1. rec \in RecoveryStates
      BY DEF Types
    <3>2. /\ Place("page", rec.todo, rec.seen, rec.last, rec.count) \in RecoveryStates
          /\ Place("page", rec.todo, rec.seen, rec.last, Cardinality(OnDisk(0))) \in RecoveryStates
      BY <2>2, <3>1, RecordFields, PlaceTyped
    <3>3. [rec EXCEPT !.at = "page"] = Place("page", rec.todo, rec.seen, rec.last, rec.count)
      BY <3>1, PlaceAt
    <3>4. [rec EXCEPT !.at = "page", !.count = Cardinality(OnDisk(0))]
            = Place("page", rec.todo, rec.seen, rec.last, Cardinality(OnDisk(0)))
      BY <3>1, PlaceCount
    <3> QED
      BY <3>2, <3>3, <3>4
  <2> QED
    BY <1>5, <2>3 DEF Recount, RecoveryStep, Types
<1>6. CASE FirstPage
  <2> DEFINE page == QueuedPage(0)
             rest == rec.count - Cardinality(page)
             last == IF page = {} THEN 0 ELSE Max(page)
             count == IF Cardinality(page) < PageSize \/ rest < 0 THEN 0 ELSE rest
  <2>1. page \in SUBSET Jobs /\ last \in Nat /\ Cardinality(page) \in Nat
    BY PageFacts
  <2>2. rec' = [rec EXCEPT !.at = "first", !.todo = page, !.last = last, !.count = count]
    BY <1>6 DEF FirstPage, RecoveryStep
  <2> HIDE DEF page, last
  <2>3. count \in Nat
    BY <2>1, SMT DEF Types, RecoveryStates
  <2> HIDE DEF count
  <2>4. rec' \in RecoveryStates
    <3>1. rec \in RecoveryStates
      BY DEF Types
    <3>2. Place("first", page, rec.seen, last, count) \in RecoveryStates
      BY <2>1, <2>3, <3>1, RecordFields, PlaceTyped
    <3>3. rec' = Paged(rec, "first", page, last, count)
      BY <2>2 DEF Paged
    <3>4. Paged(rec, "first", page, last, count) = Place("first", page, rec.seen, last, count)
      BY <3>1, PlacePage
    <3> QED
      BY <3>2, <3>3, <3>4
  <2> QED
    BY <1>6, <2>4 DEF FirstPage, RecoveryStep, Types
<1>7. CASE NothingLeft \/ ReserveRest
  <2>1. /\ Recovered \in RecoveryStates
        /\ [rec EXCEPT !.at = "attach"] \in RecoveryStates
    <3>1. rec \in RecoveryStates
      BY DEF Types
    <3>2. /\ Place("done", rec.todo, rec.seen, 0, 0) \in RecoveryStates
          /\ Place("attach", rec.todo, rec.seen, rec.last, rec.count) \in RecoveryStates
      BY <3>1, RecordFields, PlaceTyped
    <3>3. [rec EXCEPT !.at = "attach"] = Place("attach", rec.todo, rec.seen, rec.last, rec.count)
      BY <3>1, PlaceAt
    <3>4. Recovered = Ended(rec, "done", 0, 0)
      BY DEF Recovered, Ended
    <3>5. Ended(rec, "done", 0, 0) = Place("done", rec.todo, rec.seen, 0, 0)
      BY <3>1, PlaceDone
    <3> QED
      BY <3>2, <3>3, <3>4, <3>5
  <2> QED
    BY <1>7, <2>1 DEF NothingLeft, ReserveRest, RecoveryStep, Types
<1>8. CASE AttachSpill
  <2>1. /\ Recovered \in RecoveryStates
        /\ rec.last \in Nat /\ rec.count \in Nat
    <3>1. rec \in RecoveryStates
      BY DEF Types
    <3>2. Place("done", rec.todo, rec.seen, 0, 0) \in RecoveryStates
      BY <3>1, RecordFields, PlaceTyped
    <3>3. Recovered = Ended(rec, "done", 0, 0)
      BY DEF Recovered, Ended
    <3>4. Ended(rec, "done", 0, 0) = Place("done", rec.todo, rec.seen, 0, 0)
      BY <3>1, PlaceDone
    <3> QED
      BY <3>1, <3>2, <3>3, <3>4, RecordFields
  <2>2. NewSource(rec.last, rec.count) \in Source
    BY <2>1, SourceMade
  <2>3. attached' \in Seq(Source)
    BY <1>8, <2>2, UnreadAppend DEF AttachSpill, Types
  <2> QED
    BY <1>8, <2>1, <2>3 DEF AttachSpill, Types
<1>9. CASE LoopTop
  <2>1. /\ status' \in [Jobs -> {"none", "pending", "done"}]
        /\ present' \in SUBSET Jobs
    BY <1>9 DEF LoopTop, Types
  <2>2. memory' \in [Jobs -> Nat]
    BY <1>9, SMT DEF LoopTop, Types
  <2>3. spills' \in Seq(Source) /\ attached' \in Seq(Source)
    <3>1. <<>> \in Seq(Source)
      BY SMT
    <3> QED
      BY <1>9, <3>1, UnreadAdded DEF LoopTop, Types
  <2> QED
    BY <1>9, <2>1, <2>2, <2>3 DEF LoopTop, Types
<1>10. CASE RefillPage
  <2>1. PICK page \in SUBSET Jobs :
             /\ present' = present \cup page
             /\ memory' = [j \in Jobs |-> memory[j] + IF j \in page \ present THEN 1 ELSE 0]
             /\ spills' \in Seq(Source)
    BY <1>10, RefilledPage
  <2>3. present' \in SUBSET Jobs
    BY <2>1 DEF Types
  <2>4. memory' \in [Jobs -> Nat]
    BY <2>1, SMT DEF Types, RecoveryStates
  <2>2. recent' \in BOOLEAN
    BY <1>10 DEF RefillPage, Types
  <2> QED
    BY <1>10, <2>1, <2>2, <2>3, <2>4 DEF RefillPage, Types
<1>11. CASE RefillFails \/ Wake \/ WindowEnds \/ BackoffEnds
  BY <1>11 DEF RefillFails, Wake, WindowEnds, BackoffEnds, Types
<1>12. ASSUME NEW j \in Jobs, Dispatch(j) \/ ReadRetry(j) \/ RetryLater(j)
       PROVE  Types'
  <2>0. \A f \in [Jobs -> Nat] :
          Plus(f, j) \in [Jobs -> Nat] /\ (f[j] > 0 => Less(f, j) \in [Jobs -> Nat])
    BY CopyTypes
  <2>1. /\ memory' \in [Jobs -> Nat] /\ running' \in [Jobs -> Nat]
        /\ retries' \in [Jobs -> Nat]
    <3>1. CASE Dispatch(j)
      BY <2>0, <3>1 DEF Dispatch, Types
    <3>2. CASE ReadRetry(j)
      BY <2>0, <3>2 DEF ReadRetry, Types
    <3>3. CASE RetryLater(j)
      BY <2>0, <3>3 DEF RetryLater, AttemptEnds, Types
    <3> QED
      BY <1>12, <3>1, <3>2, <3>3
  <2> QED
    BY <1>12, <2>1 DEF Dispatch, ReadRetry, RetryLater, AttemptEnds, Types
<1>13. CASE ReadCmd
  <2>1. Head(cmds) \in Jobs /\ Tail(cmds) \in Seq(Jobs)
    BY <1>13, ChannelReceive DEF ReadCmd, Types
  <2>2. Plus(memory, Head(cmds)) \in [Jobs -> Nat]
    BY <2>1, CopyTypes DEF Types
  <2> QED
    BY <1>13, <2>1, <2>2 DEF ReadCmd, Types
<1>14. ASSUME NEW j \in Jobs, ReadFinal(j) \/ Finish(j)
       PROVE  Types'
  <2>0. \A f \in [Jobs -> Nat] :
          Plus(f, j) \in [Jobs -> Nat] /\ (f[j] > 0 => Less(f, j) \in [Jobs -> Nat])
    BY CopyTypes
  <2>1. finals' \in [Jobs -> Nat] /\ running' \in [Jobs -> Nat]
    <3>1. CASE ReadFinal(j)
      BY <2>0, <3>1 DEF ReadFinal, Types
    <3>2. CASE Finish(j)
      BY <2>0, <3>2 DEF Finish, AttemptEnds, Types
    <3> QED
      BY <1>14, <3>1, <3>2
  <2>2. status' \in [Jobs -> {"none", "pending", "done"}] /\ present' \in SUBSET Jobs
    BY <1>14 DEF ReadFinal, Finish, AttemptEnds, Types
  <2> QED
    BY <1>14, <2>1, <2>2 DEF ReadFinal, Finish, AttemptEnds, Types
<1>15. CASE Sweep
  <2>1. spills' \in Seq(Source)
    BY <1>15, SweptSources
  <2>2. status' \in [Jobs -> {"none", "pending", "done"}]
    BY <1>15 DEF Sweep, Types
  <2> QED
    BY <1>15, <2>1, <2>2 DEF Sweep, Types
<1>16. CASE Panic
  <2>1. spills' \in Seq(Source)
    BY <1>16, ReloadedSources
  <2>2. None \in [Jobs -> Nat] /\ <<>> \in Seq(Source)
    BY SMT DEF None
  <2> QED
    BY <1>16, <2>1, <2>2 DEF Panic, Types
<1>17. ASSUME NEW j \in Jobs, Age(j)
       PROVE  Types'
  BY <1>17 DEF Age, Types
<1> QED
  BY <1>1, <1>2, <1>3, <1>4, <1>5, <1>6, <1>7, <1>8, <1>9, <1>10, <1>11, <1>12, <1>13, <1>14,
     <1>15, <1>16, <1>17
     DEF Next, Handing, Recovering, Looping, Dispatching, ReadDone, Attempting

-----------------------------------------------------------------------------
(* Recovery's steps, and the hand-offs.                                    *)

\* What the steps of RecoverQueuedJobs do to its place and its locals.
LEMMA RecoverySteps ==
    ASSUME Types
    PROVE  /\ RecoverJob =>
                 /\ rec.todo # {} /\ Min(rec.todo) \in rec.todo
                 /\ rec'.at = rec.at /\ rec'.last = rec.last /\ rec'.count = rec.count
                 /\ rec'.todo = rec.todo \ {Min(rec.todo)}
                 /\ rec'.seen = rec.seen \cup {Min(rec.todo)}
                 /\ \/ Min(rec.todo) \in rec.seen /\ sender' = sender
                    \/ /\ Min(rec.todo) \notin rec.seen /\ sender["recovery"] = Idle
                       /\ sender' = [sender EXCEPT !["recovery"] =
                                        [job |-> Min(rec.todo), call |-> "key"]]
           /\ Recount =>
                 /\ rec.at = "moved" /\ rec.todo = {} /\ RecoveryIdle
                 /\ rec'.at = "page" /\ rec'.todo = {} /\ rec'.seen = rec.seen
                 /\ \/ rec'.count = Cardinality(OnDisk(0))
                    \/ rec.seen = {} /\ rec'.count = rec.count
           /\ FirstPage =>
                 /\ rec.at = "page"
                 /\ rec'.at = "first" /\ rec'.todo = QueuedPage(0) /\ rec'.seen = rec.seen
                 /\ rec'.last = IF QueuedPage(0) = {} THEN 0 ELSE Max(QueuedPage(0))
                 /\ rec'.count = IF \/ Cardinality(QueuedPage(0)) < PageSize
                                    \/ rec.count - Cardinality(QueuedPage(0)) < 0
                                   THEN 0 ELSE rec.count - Cardinality(QueuedPage(0))
           /\ NothingLeft =>
                 /\ rec.at = "first" /\ rec.todo = {} /\ rec.count = 0
                 /\ rec'.at = "done" /\ rec'.todo = {} /\ rec'.seen = rec.seen
           /\ ReserveRest =>
                 /\ rec.at = "first" /\ rec.todo = {}
                 /\ rec'.at = "attach" /\ rec'.todo = {} /\ rec'.seen = rec.seen
                 /\ rec'.last = rec.last /\ rec'.count = rec.count
           /\ AttachSpill =>
                 /\ rec.at = "attach"
                 /\ rec'.at = "done" /\ rec'.todo = rec.todo /\ rec'.seen = rec.seen
<1>0. rec \in RecoveryStates
  BY DEF Types
<1>1. ASSUME RecoverJob
      PROVE  /\ rec.todo # {} /\ Min(rec.todo) \in rec.todo
             /\ rec'.at = rec.at /\ rec'.last = rec.last /\ rec'.count = rec.count
             /\ rec'.todo = rec.todo \ {Min(rec.todo)}
             /\ rec'.seen = rec.seen \cup {Min(rec.todo)}
             /\ \/ Min(rec.todo) \in rec.seen /\ sender' = sender
                \/ /\ Min(rec.todo) \notin rec.seen /\ sender["recovery"] = Idle
                   /\ sender' = [sender EXCEPT !["recovery"] =
                                    [job |-> Min(rec.todo), call |-> "key"]]
  <2> DEFINE j == Min(rec.todo)
  <2>1. rec.todo # {} /\ rec.todo \in SUBSET Jobs
    BY <1>1, RecordFields DEF RecoverJob, Types
  <2>2. j \in rec.todo
    BY <2>1, MinOfJobs
  <2>3. \/ /\ j \in rec.seen /\ sender' = sender
           /\ rec' = [rec EXCEPT !.todo = @ \ {j}]
        \/ /\ j \notin rec.seen /\ sender["recovery"] = Idle
           /\ sender' = [sender EXCEPT !["recovery"] = [job |-> j, call |-> "key"]]
           /\ rec' = [rec EXCEPT !.todo = @ \ {j}, !.seen = @ \cup {j}]
    BY <1>1 DEF RecoverJob, RecoveryStep, Reserve, sendVars
  <2> HIDE DEF j
  <2>4. /\ rec'.at = rec.at /\ rec'.last = rec.last /\ rec'.count = rec.count
        /\ rec'.todo = rec.todo \ {j} /\ rec'.seen = rec.seen \cup {j}
    <3>1. \/ j \in rec.seen /\ rec' = Place(rec.at, rec.todo \ {j}, rec.seen, rec.last, rec.count)
          \/ rec' = Place(rec.at, rec.todo \ {j}, rec.seen \cup {j}, rec.last, rec.count)
      <4>1. /\ [rec EXCEPT !.todo = rec.todo \ {j}]
                 = Place(rec.at, rec.todo \ {j}, rec.seen, rec.last, rec.count)
            /\ [rec EXCEPT !.todo = rec.todo \ {j}, !.seen = rec.seen \cup {j}]
                 = Place(rec.at, rec.todo \ {j}, rec.seen \cup {j}, rec.last, rec.count)
        BY <1>0, PlaceTodo, PlaceSeen
      <4> QED
        BY <2>3, <4>1
    <3>2. j \in rec.seen => rec.seen = rec.seen \cup {j}
      OBVIOUS
    <3> QED
      BY <3>1, <3>2, SMT DEF Place
  <2> QED
    BY <2>1, <2>2, <2>3, <2>4 DEF j
<1>2. ASSUME Recount
      PROVE  /\ rec.at = "moved" /\ rec.todo = {} /\ RecoveryIdle
             /\ rec'.at = "page" /\ rec'.todo = {} /\ rec'.seen = rec.seen
             /\ \/ rec'.count = Cardinality(OnDisk(0))
                \/ rec.seen = {} /\ rec'.count = rec.count
  <2>1. \/ rec' = Place("page", rec.todo, rec.seen, rec.last, Cardinality(OnDisk(0)))
        \/ rec.seen = {} /\ rec' = Place("page", rec.todo, rec.seen, rec.last, rec.count)
    <3>1. [rec EXCEPT !.at = "page"] = Place("page", rec.todo, rec.seen, rec.last, rec.count)
      BY <1>0, PlaceAt
    <3>2. [rec EXCEPT !.at = "page", !.count = Cardinality(OnDisk(0))]
            = Place("page", rec.todo, rec.seen, rec.last, Cardinality(OnDisk(0)))
      BY <1>0, PlaceCount
    <3>3. \/ rec' = [rec EXCEPT !.at = "page", !.count = Cardinality(OnDisk(0))]
          \/ rec.seen = {} /\ rec' = [rec EXCEPT !.at = "page"]
      BY <1>2 DEF Recount, RecoveryStep
    <3> QED
      BY <3>1, <3>2, <3>3
  <2>2. rec.at = "moved" /\ rec.todo = {} /\ RecoveryIdle
    BY <1>2 DEF Recount, RecoveryStep
  <2> QED
    BY <2>1, <2>2, SMT DEF Place
<1>3. ASSUME FirstPage
      PROVE  /\ rec.at = "page"
             /\ rec'.at = "first" /\ rec'.todo = QueuedPage(0) /\ rec'.seen = rec.seen
             /\ rec'.last = IF QueuedPage(0) = {} THEN 0 ELSE Max(QueuedPage(0))
             /\ rec'.count = IF \/ Cardinality(QueuedPage(0)) < PageSize
                                \/ rec.count - Cardinality(QueuedPage(0)) < 0
                               THEN 0 ELSE rec.count - Cardinality(QueuedPage(0))
  <2> DEFINE page == QueuedPage(0)
             last == IF page = {} THEN 0 ELSE Max(page)
             count == IF Cardinality(page) < PageSize \/ rec.count - Cardinality(page) < 0
                        THEN 0 ELSE rec.count - Cardinality(page)
  <2>1. /\ rec.at = "page"
        /\ rec' = [rec EXCEPT !.at = "first", !.todo = page, !.last = last, !.count = count]
    BY <1>3 DEF FirstPage, RecoveryStep
  <2> HIDE DEF page, last, count
  <2>2. rec' = Place("first", page, rec.seen, last, count)
    <3>1. rec' = Paged(rec, "first", page, last, count)
      BY <2>1 DEF Paged
    <3>2. Paged(rec, "first", page, last, count) = Place("first", page, rec.seen, last, count)
      BY <1>0, PlacePage
    <3> QED
      BY <3>1, <3>2
  <2>3. /\ rec'.at = "first" /\ rec'.todo = page /\ rec'.seen = rec.seen /\ rec'.last = last
        /\ rec'.count = count
    BY <2>2, SMT DEF Place
  <2> QED
    BY <2>1, <2>3 DEF page, last, count
<1>4. ASSUME NothingLeft
      PROVE  /\ rec.at = "first" /\ rec.todo = {} /\ rec.count = 0
             /\ rec'.at = "done" /\ rec'.todo = {} /\ rec'.seen = rec.seen
  <2>1. rec' = Place("done", rec.todo, rec.seen, 0, 0)
    <3>1. Recovered = Ended(rec, "done", 0, 0)
      BY DEF Recovered, Ended
    <3>2. Ended(rec, "done", 0, 0) = Place("done", rec.todo, rec.seen, 0, 0)
      BY <1>0, PlaceDone
    <3> QED
      BY <1>4, <3>1, <3>2 DEF NothingLeft, RecoveryStep
  <2> QED
    BY <1>4, <2>1, SMT DEF NothingLeft, Place
<1>5. ASSUME ReserveRest
      PROVE  /\ rec.at = "first" /\ rec.todo = {}
             /\ rec'.at = "attach" /\ rec'.todo = {} /\ rec'.seen = rec.seen
             /\ rec'.last = rec.last /\ rec'.count = rec.count
  <2>1. rec' = Place("attach", rec.todo, rec.seen, rec.last, rec.count)
    <3>1. [rec EXCEPT !.at = "attach"] = Place("attach", rec.todo, rec.seen, rec.last, rec.count)
      BY <1>0, PlaceAt
    <3> QED
      BY <1>5, <3>1 DEF ReserveRest
  <2> QED
    BY <1>5, <2>1, SMT DEF ReserveRest, Place
<1>6. ASSUME AttachSpill
      PROVE  /\ rec.at = "attach"
             /\ rec'.at = "done" /\ rec'.todo = rec.todo /\ rec'.seen = rec.seen
  <2>1. rec' = Place("done", rec.todo, rec.seen, 0, 0)
    <3>1. Recovered = Ended(rec, "done", 0, 0)
      BY DEF Recovered, Ended
    <3>2. Ended(rec, "done", 0, 0) = Place("done", rec.todo, rec.seen, 0, 0)
      BY <1>0, PlaceDone
    <3> QED
      BY <1>6, <3>1, <3>2 DEF AttachSpill
  <2> QED
    BY <1>6, <2>1, SMT DEF AttachSpill, Place
<1> QED
  BY <1>1, <1>2, <1>3, <1>4, <1>5, <1>6

\* What the steps of a sender do to it.
LEMMA SenderSteps ==
    ASSUME Types, NEW w \in Senders, NEW j \in Jobs
    PROVE  /\ j # 0 /\ Idle.job = 0
           /\ sender' = [sender EXCEPT ![w] = [job |-> j, call |-> "key"]] =>
                 /\ sender'[w].job = j /\ sender'[w].call = "key"
                 /\ \A v \in Senders \ {w} : sender'[v] = sender[v]
           /\ sender' = [sender EXCEPT ![w] = Idle] =>
                 /\ sender'[w] = Idle /\ sender'[w].job = 0 /\ sender'[w].call = "none"
                 /\ \A v \in Senders \ {w} : sender'[v] = sender[v]
           /\ sender' = [sender EXCEPT ![w].call = "send"] =>
                 /\ sender'[w].job = sender[w].job /\ sender'[w].call = "send"
                 /\ \A v \in Senders \ {w} : sender'[v] = sender[v]
<1>0. j # 0 /\ Idle.job = 0 /\ Idle.call = "none"
  BY JobsNumbers, SMT DEF Idle
<1>1. sender[w] \in [job : Jobs \cup {0}, call : {"none", "key", "send"}]
  BY DEF Types, SenderStates
<1>2. ASSUME NEW y, sender' = [sender EXCEPT ![w] = y]
      PROVE  sender'[w] = y /\ \A v \in Senders \ {w} : sender'[v] = sender[v]
  BY <1>2 DEF Types, SenderStates
<1>3. /\ [job |-> j, call |-> "key"].job = j /\ [job |-> j, call |-> "key"].call = "key"
      /\ [sender[w] EXCEPT !.call = "send"].job = sender[w].job
      /\ [sender[w] EXCEPT !.call = "send"].call = "send"
  BY <1>1, SMT
<1>4. ASSUME sender' = [sender EXCEPT ![w] = [job |-> j, call |-> "key"]]
      PROVE  /\ sender'[w].job = j /\ sender'[w].call = "key"
             /\ \A v \in Senders \ {w} : sender'[v] = sender[v]
  BY <1>2, <1>3, <1>4
<1>5. ASSUME sender' = [sender EXCEPT ![w] = Idle]
      PROVE  /\ sender'[w] = Idle /\ sender'[w].job = 0 /\ sender'[w].call = "none"
             /\ \A v \in Senders \ {w} : sender'[v] = sender[v]
  BY <1>0, <1>2, <1>5
<1>6. ASSUME sender' = [sender EXCEPT ![w].call = "send"]
      PROVE  /\ sender'[w].job = sender[w].job /\ sender'[w].call = "send"
             /\ \A v \in Senders \ {w} : sender'[v] = sender[v]
  BY <1>2, <1>3, <1>6
<1> QED
  BY <1>0, <1>4, <1>5, <1>6

\* What a hand-over puts in the channel.
LEMMA SendCmds ==
    ASSUME Types, Handed, NEW w \in Senders, Send(w)
    PROVE  /\ Range(cmds') = Range(cmds) \cup {sender[w].job}
           /\ Len(cmds') = Len(cmds) + 1 /\ cmds'[Len(cmds) + 1] = sender[w].job
           /\ \A a \in 1..Len(cmds) : cmds'[a] = cmds[a]
<1> DEFINE i == sender[w].job
<1>1. i \in Jobs /\ cmds \in Seq(Jobs) /\ cmds' = Append(cmds, i)
  BY SenderFacts DEF Send, Types
<1> HIDE DEF i
<1>2. /\ Range(Append(cmds, i)) = Range(cmds) \cup {i}
      /\ Len(Append(cmds, i)) = Len(cmds) + 1 /\ Append(cmds, i)[Len(cmds) + 1] = i
      /\ \A a \in 1..Len(cmds) : Append(cmds, i)[a] = cmds[a]
  BY <1>1, ChannelSend, SMT
<1>3. /\ Range(cmds') = Range(cmds) \cup {i}
      /\ Len(cmds') = Len(cmds) + 1 /\ cmds'[Len(cmds) + 1] = i
      /\ \A a \in 1..Len(cmds) : cmds'[a] = cmds[a]
  BY <1>1, <1>2
<1> QED
  BY <1>3 DEF i

\* Every step keeps the jobs on the way behind their rows.
LEMMA HandedStep ==
    ASSUME Types, Handed, Next
    PROVE  Handed'
<1> USE DEF storeVars, sendVars, pageVars, attemptVars, used
<1>0. "live" \in Senders /\ "recovery" \in Senders /\ "live" # "recovery"
      /\ Senders = {"live", "recovery"}
  BY DEF Senders
<1>1. ASSUME NEW w \in Senders, SetQueueKey(w)
      PROVE  Handed'
  <2>1. sender[w].job \in Jobs /\ sender[w].job # 0
    BY <1>1, SenderFacts, SenderSteps DEF SetQueueKey
  <2>2. /\ sender'[w].job = sender[w].job /\ sender'[w].call = "send"
        /\ \A v \in Senders \ {w} : sender'[v] = sender[v]
    BY <1>1, <2>1, SenderSteps DEF SetQueueKey
  <2>3. \A v \in Senders : sender'[v].job = sender[v].job
    BY <2>2
  <2>4. keyed' = keyed \cup {sender[w].job} /\ cmds' = cmds /\ rec' = rec
    BY <1>1 DEF SetQueueKey
  <2> QED
    BY <1>0, <2>1, <2>2, <2>3, <2>4, SMT DEF Handed
<1>2. ASSUME NEW w \in Senders, Send(w)
      PROVE  Handed'
  <2>1. sender[w].job \in Jobs /\ sender[w].job \in keyed
    BY <1>2, SenderFacts DEF Send, Handed
  <2>2. \A v \in Senders : \/ sender'[v] = sender[v]
                           \/ sender'[v].job = 0 /\ sender'[v].call = "none"
    BY <1>2, <2>1, SenderSteps DEF Send
  <2>3. Range(cmds') = Range(cmds) \cup {sender[w].job}
    BY <1>2, SendCmds
  <2>4. keyed' = keyed /\ rec' = rec
    BY <1>2 DEF Send
  <2> QED
    BY <1>0, <2>1, <2>2, <2>3, <2>4 DEF Handed
<1>3. ASSUME NEW j \in Live, Create(j)
      PROVE  Handed'
  <2>1. j \in Jobs
    BY DEF Jobs
  <2>2. /\ sender'["live"].job = j /\ sender'["live"].call = "key" /\ j # 0
        /\ sender'["recovery"] = sender["recovery"]
    BY <1>0, <1>3, <2>1, SenderSteps DEF Create, Reserve
  <2>3. keyed' = keyed /\ rec' = rec /\ cmds' = cmds
    BY <1>3 DEF Create
  <2> QED
    BY <1>0, <2>2, <2>3 DEF Handed
<1>4. CASE RecoverJob
  <2> DEFINE j == Min(rec.todo)
  <2>1. /\ j \in rec.todo /\ rec'.seen = rec.seen \cup {j}
        /\ \/ sender' = sender
           \/ sender' = [sender EXCEPT !["recovery"] = [job |-> j, call |-> "key"]]
    BY <1>4, RecoverySteps
  <2>2. j \in Jobs
    BY <2>1, SMT DEF Types, RecoveryStates
  <2>3. keyed' = keyed /\ cmds' = cmds
    BY <1>4 DEF RecoverJob, RecoveryStep
  <2> HIDE DEF j
  <2>4. CASE sender' = sender
    BY <2>1, <2>3, <2>4 DEF Handed
  <2>5. CASE sender' = [sender EXCEPT !["recovery"] = [job |-> j, call |-> "key"]]
    <3>1. /\ sender'["recovery"].job = j /\ sender'["recovery"].call = "key" /\ j # 0
          /\ sender'["live"] = sender["live"]
      BY <1>0, <2>2, <2>5, SenderSteps
    <3> QED
      BY <1>0, <2>1, <2>3, <3>1 DEF Handed
  <2> QED
    BY <2>1, <2>4, <2>5
<1>5. CASE ReadCmd
  <2>1. Range(cmds') \subseteq Range(cmds)
    BY <1>5, ChannelReceive DEF ReadCmd, Types
  <2> QED
    BY <1>5, <2>1 DEF ReadCmd, Handed
<1>6. CASE UNCHANGED <<sender, cmds, keyed>> /\ rec'.seen = rec.seen
  BY <1>6 DEF Handed
<1>7. CASE Recount \/ FirstPage \/ NothingLeft \/ ReserveRest \/ AttachSpill
  <2>1. rec'.seen = rec.seen
    BY <1>7, RecoverySteps
  <2>2. UNCHANGED <<sender, cmds, keyed>>
    BY <1>7 DEF Recount, FirstPage, NothingLeft, ReserveRest, AttachSpill, RecoveryStep
  <2> QED
    BY <1>6, <2>1, <2>2
<1>8. CASE LoopTop \/ RefillPage \/ RefillFails \/ Sweep \/ Wake \/ Panic \/ WindowEnds
           \/ BackoffEnds
  <2>1. UNCHANGED <<sender, cmds, keyed, rec>>
    BY <1>8 DEF LoopTop, RefillPage, RefillFails, Sweep, Wake, Panic, WindowEnds, BackoffEnds
  <2> QED
    BY <1>6, <2>1
<1>9. ASSUME NEW j \in Jobs,
             Dispatch(j) \/ ReadFinal(j) \/ ReadRetry(j) \/ Finish(j) \/ RetryLater(j) \/ Age(j)
      PROVE  Handed'
  <2>1. UNCHANGED <<sender, cmds, keyed, rec>>
    BY <1>9 DEF Dispatch, ReadFinal, ReadRetry, Finish, RetryLater, AttemptEnds, Age
  <2> QED
    BY <1>6, <2>1
<1> QED
  BY <1>1, <1>2, <1>3, <1>4, <1>5, <1>7, <1>8, <1>9
     DEF Next, Handing, Recovering, Looping, Dispatching, ReadDone, Attempting

-----------------------------------------------------------------------------
(* Copies have a row, and recovery's count.                                *)

\* The copies of a job are numbers.
LEMMA CopiesNumbers ==
    ASSUME Types
    PROVE  /\ memory \in [Jobs -> Nat] /\ running \in [Jobs -> Nat]
           /\ finals \in [Jobs -> Nat] /\ retries \in [Jobs -> Nat]
BY DEF Types

\* The numbers of copies after a step that adds or takes one.
LEMMA CopySteps ==
    ASSUME NEW f \in [Jobs -> Nat], NEW j \in Jobs
    PROVE  /\ \A k \in Jobs : Plus(f, j)[k] = IF k = j THEN f[k] + 1 ELSE f[k]
           /\ \A k \in Jobs : Less(f, j)[k] = IF k = j THEN f[k] - 1 ELSE f[k]
           /\ Plus(f, j)[j] > 0
           /\ \A k \in Jobs : f[k] > 0 => Plus(f, j)[k] > 0
           /\ \A k \in Jobs : Less(f, j)[k] > 0 => f[k] > 0
           /\ \A k \in Jobs \ {j} : Less(f, j)[k] = f[k]
           /\ \A k \in Jobs \ {j} : Plus(f, j)[k] = f[k]
BY SMT DEF Plus, Less

\* A copy that moves from one place to another leaves the same jobs copied.
LEMMA CopyMoves ==
    ASSUME NEW f \in [Jobs -> Nat], NEW g \in [Jobs -> Nat], NEW j \in Jobs, f[j] > 0
    PROVE  \A k \in Jobs : Less(f, j)[k] > 0 \/ Plus(g, j)[k] > 0 <=> f[k] > 0 \/ g[k] > 0
BY SMT DEF Plus, Less

\* And moves one of them.
LEMMA CopiesMoved ==
    ASSUME NEW f \in [Jobs -> Nat], NEW g \in [Jobs -> Nat], NEW j \in Jobs, NEW k \in Jobs, f[j] > 0
    PROVE  Less(f, j)[k] + Plus(g, j)[k] = f[k] + g[k]
BY SMT DEF Plus, Less

\* Every step keeps the copies behind their rows.
LEMMA BackedStep ==
    ASSUME Types, Handed, Backed, Counting, Next
    PROVE  Backed'
<1> USE DEF storeVars, sendVars, pageVars, attemptVars, used
<1>1. ASSUME UNCHANGED <<status, present, memory, running, finals, retries>>, keyed \subseteq keyed'
      PROVE  Backed'
  BY <1>1 DEF Backed, Copied
<1>2. ASSUME NEW w \in Senders, SetQueueKey(w) \/ Send(w)
      PROVE  Backed'
  BY <1>1, <1>2 DEF SetQueueKey, Send
<1>3. ASSUME NEW j \in Live, Create(j)
      PROVE  Backed'
  <2>1. \A k \in Jobs : status[k] = "done" => status'[k] = "done"
    BY <1>3, SMT DEF Create, Types
  <2>2. UNCHANGED <<keyed, present, memory, running, finals, retries>>
    BY <1>3 DEF Create
  <2> QED
    BY <2>1, <2>2 DEF Backed, Copied
<1>4. CASE RecoverJob \/ Recount \/ FirstPage \/ NothingLeft \/ ReserveRest \/ AttachSpill
  <2>1. UNCHANGED <<status, keyed, present, memory, running, finals, retries>>
    BY <1>4 DEF RecoverJob, Recount, FirstPage, NothingLeft, ReserveRest, AttachSpill, RecoveryStep
  <2> QED
    BY <1>1, <2>1
<1>5. CASE LoopTop
  <2> DEFINE late == {j \in Jobs : memory[j] > 0 /\ QueueExpired(j)}
  <2>1. /\ status' = [j \in Jobs |-> IF j \in late THEN "done" ELSE status[j]]
        /\ memory' = [j \in Jobs |-> IF j \in late THEN 0 ELSE memory[j]]
        /\ present' = present \ late
        /\ UNCHANGED <<keyed, running, finals, retries>>
    BY <1>5 DEF LoopTop
  <2> HIDE DEF late
  <2>2. \A j \in Jobs : /\ j \notin late => memory'[j] = memory[j]
                        /\ memory'[j] > 0 => memory[j] > 0
                        /\ status[j] = "done" => status'[j] = "done"
    BY <2>1, SMT
  <2> QED
    BY <2>1, <2>2 DEF Backed, Copied, Types
<1>6. CASE RefillPage
  <2>1. PICK page \in SUBSET Jobs :
             /\ \A j \in page : j \in keyed /\ status[j] = "pending"
             /\ present' = present \cup page
             /\ memory' = [j \in Jobs |-> memory[j] + IF j \in page \ present THEN 1 ELSE 0]
    BY <1>6, RefilledPage
  <2>2. UNCHANGED <<status, keyed, running, finals, retries>>
    BY <1>6 DEF RefillPage
  <2>3. \A j \in Jobs : /\ j \in page \ present => memory'[j] > 0
                        /\ memory[j] > 0 => memory'[j] > 0
                        /\ memory'[j] > 0 => memory[j] > 0 \/ j \in page
    BY <2>1, SMT DEF Types
  <2> QED
    BY <2>1, <2>2, <2>3 DEF Backed, Copied, Types
<1>7. CASE RefillFails \/ Wake \/ WindowEnds \/ BackoffEnds
  <2>1. UNCHANGED <<status, keyed, present, memory, running, finals, retries>>
    BY <1>7 DEF RefillFails, Wake, WindowEnds, BackoffEnds
  <2> QED
    BY <1>1, <2>1
<1>8. CASE ReadCmd
  <2> DEFINE j == Head(cmds)
  <2>1. j \in Jobs /\ j \in keyed
    BY <1>8, ChannelReceive DEF ReadCmd, Types, Handed
  <2>2. /\ \/ present' = present \cup {j} /\ memory' = Plus(memory, j)
           \/ present' = present /\ memory' = memory
        /\ UNCHANGED <<status, keyed, running, finals, retries>>
    BY <1>8 DEF ReadCmd
  <2> HIDE DEF j
  <2>3. /\ Plus(memory, j)[j] > 0
        /\ \A k \in Jobs : memory[k] > 0 => Plus(memory, j)[k] > 0
        /\ \A k \in Jobs \ {j} : Plus(memory, j)[k] = memory[k]
    BY <2>1, CopySteps, CopiesNumbers
  <2> QED
    BY <2>1, <2>2, <2>3 DEF Backed, Copied, Types
<1>9. ASSUME NEW j \in Jobs, Dispatch(j)
      PROVE  Backed'
  <2>1. /\ memory[j] > 0 /\ memory' = Less(memory, j) /\ running' = Plus(running, j)
        /\ UNCHANGED <<status, keyed, present, finals, retries>>
    BY <1>9 DEF Dispatch
  <2>2. \A k \in Jobs : Copied(k)' <=> Copied(k)
    <3>1. \A k \in Jobs : memory'[k] > 0 \/ running'[k] > 0 <=> memory[k] > 0 \/ running[k] > 0
      <4>1. \A k \in Jobs : Less(memory, j)[k] > 0 \/ Plus(running, j)[k] > 0
                              <=> memory[k] > 0 \/ running[k] > 0
        BY <2>1, CopyMoves, CopiesNumbers
      <4> QED
        BY <2>1, <4>1
    <3> QED
      BY <2>1, <3>1 DEF Copied
  <2> QED
    BY <2>1, <2>2 DEF Backed, Types
<1>10. ASSUME NEW j \in Jobs, ReadFinal(j)
       PROVE  Backed'
  <2>1. /\ finals[j] > 0 /\ finals' = Less(finals, j) /\ present' = present \ {j}
        /\ UNCHANGED <<status, keyed, memory, running, retries>>
    BY <1>10 DEF ReadFinal
  <2>2. /\ \A k \in Jobs : finals'[k] > 0 => finals[k] > 0
        /\ \A k \in Jobs \ {j} : finals'[k] = finals[k]
    BY <2>1, CopySteps, CopiesNumbers
  <2> QED
    BY <2>1, <2>2 DEF Backed, Copied, Types
<1>11. ASSUME NEW j \in Jobs, ReadRetry(j)
       PROVE  Backed'
  <2>1. /\ retries[j] > 0 /\ retries' = Less(retries, j) /\ memory' = Plus(memory, j)
        /\ UNCHANGED <<status, keyed, present, running, finals>>
    BY <1>11 DEF ReadRetry
  <2>2. \A k \in Jobs : Copied(k)' <=> Copied(k)
    <3>1. \A k \in Jobs : memory'[k] > 0 \/ retries'[k] > 0 <=> memory[k] > 0 \/ retries[k] > 0
      <4>1. \A k \in Jobs : Less(retries, j)[k] > 0 \/ Plus(memory, j)[k] > 0
                              <=> retries[k] > 0 \/ memory[k] > 0
        BY <2>1, CopyMoves, CopiesNumbers
      <4> QED
        BY <2>1, <4>1
    <3> QED
      BY <2>1, <3>1 DEF Copied
  <2> QED
    BY <2>1, <2>2 DEF Backed, Types
<1>12. ASSUME NEW j \in Jobs, Finish(j)
       PROVE  Backed'
  <2>1. /\ running[j] > 0 /\ running' = Less(running, j) /\ finals' = Plus(finals, j)
        /\ status' = [status EXCEPT ![j] = "done"]
        /\ UNCHANGED <<keyed, present, memory, retries>>
    BY <1>12 DEF Finish, AttemptEnds
  <2>2. \A k \in Jobs : Copied(k)' <=> Copied(k)
    <3>1. \A k \in Jobs : running'[k] > 0 \/ finals'[k] > 0 <=> running[k] > 0 \/ finals[k] > 0
      <4>1. \A k \in Jobs : Less(running, j)[k] > 0 \/ Plus(finals, j)[k] > 0
                              <=> running[k] > 0 \/ finals[k] > 0
        BY <2>1, CopyMoves, CopiesNumbers
      <4> QED
        BY <2>1, <4>1
    <3> QED
      BY <2>1, <3>1 DEF Copied
  <2>3. \A k \in Jobs : finals'[k] > 0 => status'[k] = "done"
    <3>1. \A k \in Jobs \ {j} : finals'[k] = finals[k]
      BY <2>1, CopySteps, CopiesNumbers
    <3>2. status'[j] = "done" /\ \A k \in Jobs \ {j} : status'[k] = status[k]
      BY <2>1 DEF Types
    <3> QED
      BY <3>1, <3>2 DEF Backed
  <2> QED
    BY <2>1, <2>2, <2>3 DEF Backed, Types
<1>13. ASSUME NEW j \in Jobs, RetryLater(j)
       PROVE  Backed'
  <2>1. /\ running[j] > 0 /\ running' = Less(running, j) /\ retries' = Plus(retries, j)
        /\ UNCHANGED <<status, keyed, present, memory, finals>>
    BY <1>13 DEF RetryLater, AttemptEnds
  <2>2. \A k \in Jobs : Copied(k)' <=> Copied(k)
    <3>1. \A k \in Jobs : running'[k] > 0 \/ retries'[k] > 0 <=> running[k] > 0 \/ retries[k] > 0
      <4>1. \A k \in Jobs : Less(running, j)[k] > 0 \/ Plus(retries, j)[k] > 0
                              <=> running[k] > 0 \/ retries[k] > 0
        BY <2>1, CopyMoves, CopiesNumbers
      <4> QED
        BY <2>1, <4>1
    <3> QED
      BY <2>1, <3>1 DEF Copied
  <2> QED
    BY <2>1, <2>2 DEF Backed, Types
<1>14. CASE Sweep
  <2>1. \A k \in Jobs : status[k] = "done" => status'[k] = "done"
    BY <1>14 DEF Sweep
  <2>2. UNCHANGED <<keyed, present, memory, running, finals, retries>>
    BY <1>14 DEF Sweep
  <2> QED
    BY <2>1, <2>2 DEF Backed, Copied
<1>15. CASE Panic
  <2>1. /\ memory' = None /\ present' = {}
        /\ UNCHANGED <<status, keyed, running, finals, retries>>
    BY <1>15 DEF Panic
  <2>2. \A k \in Jobs : ~(None[k] > 0)
    BY SMT DEF None
  <2> QED
    BY <2>1, <2>2 DEF Backed, Copied
<1>16. ASSUME NEW j \in Jobs, Age(j)
       PROVE  Backed'
  BY <1>1, <1>16 DEF Age
<1> QED
  BY <1>2, <1>3, <1>4, <1>5, <1>6, <1>7, <1>8, <1>9, <1>10, <1>11, <1>12, <1>13, <1>14,
     <1>15, <1>16
     DEF Next, Handing, Recovering, Looping, Dispatching, ReadDone, Attempting

\* The loop reads a page only from a source it has.
LEMMA RefillHasSource ==
    ASSUME loop = "refill" => spills # <<>>, Next
    PROVE  loop' = "refill" => spills' # <<>>
<1> USE DEF storeVars, sendVars, pageVars, attemptVars, used
<1>1. CASE UNCHANGED <<loop, spills>>
  BY <1>1
<1>2. CASE ThenRefill
  BY <1>2 DEF ThenRefill, WantsPage
<1>3. CASE loop' = "select" \/ loop' = "top"
  BY <1>3
<1>4. ASSUME NEW w \in Senders, SetQueueKey(w) \/ Send(w)
      PROVE  UNCHANGED <<loop, spills>>
  BY <1>4 DEF SetQueueKey, Send
<1>5. ASSUME NEW j, Create(j) \/ Dispatch(j) \/ Finish(j) \/ RetryLater(j) \/ Age(j)
      PROVE  UNCHANGED <<loop, spills>>
  BY <1>5 DEF Create, Dispatch, Finish, RetryLater, AttemptEnds, Age
<1>6. CASE RecoverJob \/ Recount \/ FirstPage \/ NothingLeft \/ ReserveRest \/ AttachSpill
           \/ WindowEnds \/ BackoffEnds
  <2>1. UNCHANGED <<loop, spills>>
    BY <1>6 DEF RecoverJob, Recount, FirstPage, NothingLeft, ReserveRest, AttachSpill,
                RecoveryStep, WindowEnds, BackoffEnds
  <2> QED
    BY <1>1, <2>1
<1>7. CASE LoopTop \/ RefillPage
  BY <1>2, <1>7 DEF LoopTop, RefillPage
<1>8. CASE RefillFails \/ ReadCmd \/ Sweep \/ Wake \/ Panic
  BY <1>3, <1>8 DEF RefillFails, ReadCmd, Sweep, Wake, Panic
<1>9. ASSUME NEW j, ReadFinal(j) \/ ReadRetry(j)
      PROVE  loop' = "top"
  BY <1>9 DEF ReadFinal, ReadRetry
<1> QED
  BY <1>1, <1>3, <1>4, <1>5, <1>6, <1>7, <1>8, <1>9
     DEF Next, Handing, Recovering, Looping, Dispatching, ReadDone, Attempting

\* The unfinished stored jobs of the queue's key are a finite set, and no more
\* become so than recovery hands over.
LEMMA FewerOnDisk ==
    ASSUME Types, Types',
           \A j \in Old : status'[j] = "pending" => status[j] = "pending",
           keyed' \cap Old \subseteq keyed
    PROVE  /\ Cardinality(OldOnDisk') <= Cardinality(OldOnDisk)
           /\ Cardinality(OldOnDisk') \in Nat /\ Cardinality(OldOnDisk) \in Nat
<1>1. OldOnDisk' \subseteq OldOnDisk /\ OldOnDisk \in SUBSET Jobs
  BY DEF OldOnDisk, Jobs
<1>2. IsFiniteSet(OldOnDisk)
  BY <1>1, JobsNumbers
<1> QED
  BY <1>1, <1>2, FS_Subset, JobsNumbers

\* No step makes a row unfinished again, or takes it back.
LEMMA RowSteps ==
    ASSUME Types, Next, NEW j \in Jobs
    PROVE  /\ status'[j] = "pending" => status[j] = "pending" \/ (j \in Live /\ Create(j))
           /\ status'[j] = "none" => status[j] = "none"

<1> USE DEF storeVars, sendVars, pageVars, attemptVars, used
<1>1. CASE status' = status
  BY <1>1
<1>2. ASSUME NEW w \in Senders, SetQueueKey(w) \/ Send(w)
      PROVE  status' = status
  BY <1>2 DEF SetQueueKey, Send
<1>3. ASSUME NEW k \in Live, Create(k)
      PROVE  /\ status'[j] = "pending" => status[j] = "pending" \/ (j \in Live /\ Create(j))
             /\ status'[j] # "none" \/ status[j] = "none"
  BY <1>3 DEF Create, Types
<1>4. CASE RecoverJob \/ Recount \/ FirstPage \/ NothingLeft \/ ReserveRest \/ AttachSpill
           \/ WindowEnds \/ BackoffEnds
  <2>1. status' = status
    BY <1>4 DEF RecoverJob, Recount, FirstPage, NothingLeft, ReserveRest, AttachSpill,
                RecoveryStep, WindowEnds, BackoffEnds
  <2> QED
    BY <1>1, <2>1
<1>5. CASE LoopTop \/ Sweep
  BY <1>5 DEF LoopTop, Sweep
<1>6. CASE RefillPage \/ RefillFails \/ ReadCmd \/ Wake \/ Panic
  <2>1. status' = status
    BY <1>6 DEF RefillPage, RefillFails, ReadCmd, Wake, Panic
  <2> QED
    BY <1>1, <2>1
<1>7. ASSUME NEW k \in Jobs, Finish(k)
      PROVE  status'[j] = "done" \/ status'[j] = status[j]
  BY <1>7 DEF Finish, Types
<1>8. ASSUME NEW k \in Jobs,
             Dispatch(k) \/ ReadFinal(k) \/ ReadRetry(k) \/ RetryLater(k) \/ Age(k)
      PROVE  status' = status
  BY <1>8 DEF Dispatch, ReadFinal, ReadRetry, RetryLater, Age
<1> QED
  BY <1>1, <1>2, <1>3, <1>4, <1>5, <1>6, <1>7, <1>8
     DEF Next, Handing, Recovering, Looping, Dispatching, ReadDone, Attempting

\* Stored jobs are not new ones.
LEMMA OldNotLive == \A j \in Old : j \in Jobs /\ j \notin Live
<1>1. \A j \in Old : j \in Live => j < j
  BY RecoveryAssumption
<1>2. \A j \in Jobs : ~(j < j)
  BY JobsNumbers, SMT
<1> QED
  BY <1>1, <1>2 DEF Jobs

\* Every step keeps recovery's count at or above what is stored.
LEMMA CountingStep ==
    ASSUME Types, Types', Handed, Counting, Next
    PROVE  Counting'
<1> USE DEF storeVars, sendVars, pageVars, attemptVars, used
<1>0. /\ loop' = "refill" => spills' # <<>>
      /\ \A j \in Old : status'[j] = "pending" => status[j] = "pending"
      /\ "live" \in Senders /\ "recovery" \in Senders
      /\ \A w \in Senders : w = "live" \/ w = "recovery"
  BY RefillHasSource, RowSteps, OldNotLive DEF Counting, Senders
<1>1. ASSUME rec' = rec, keyed \subseteq keyed', keyed' \cap Old \subseteq keyed,
             RecoveryIdle => RecoveryIdle'
      PROVE  Counting'
  <2>1. /\ Cardinality(OldOnDisk') <= Cardinality(OldOnDisk)
        /\ Cardinality(OldOnDisk') \in Nat /\ Cardinality(OldOnDisk) \in Nat
    BY <1>0, <1>1, FewerOnDisk
  <2>2. Cardinality(OldOnDisk) <= rec.count => Cardinality(OldOnDisk') <= rec.count
    BY <2>1, SMT DEF Types, RecoveryStates
  <2> QED
    BY <1>0, <1>1, <2>2 DEF Counting
<1>2. ASSUME NEW w \in Senders, SetQueueKey(w)
      PROVE  Counting'
  <2>1. sender[w].job \in Jobs /\ sender[w] # Idle
    BY <1>2, SenderFacts DEF SetQueueKey
  <2>2. rec' = rec /\ keyed' = keyed \cup {sender[w].job}
    BY <1>2 DEF SetQueueKey
  <2>3. CASE w = "live"
    <3>1. sender[w].job \notin Old
      BY <2>1, <2>3, OldNotLive, SenderSteps DEF Handed
    <3>2. sender'["recovery"] = sender["recovery"]
      BY <1>0, <1>2, <2>1, <2>3, SenderSteps, SMT DEF SetQueueKey
    <3> QED
      BY <1>1, <2>2, <3>1, <3>2 DEF RecoveryIdle
  <2>4. CASE w = "recovery"
    <3>1. sender[w].job \in rec.seen
      BY <2>1, <2>4, SenderSteps DEF Handed
    <3>2. ~RecoveryIdle
      BY <2>1, <2>4 DEF RecoveryIdle
    <3> QED
      BY <1>0, <2>2, <3>1, <3>2 DEF Counting
  <2> QED
    BY <1>0, <2>3, <2>4
<1>3. ASSUME NEW w \in Senders, Send(w)
      PROVE  Counting'
  <2>1. sender[w].job \in Jobs
    BY <1>3, SenderFacts DEF Send
  <2>2. sender'["recovery"] = Idle \/ sender'["recovery"] = sender["recovery"]
    BY <1>0, <1>3, <2>1, SenderSteps, SMT DEF Send
  <2>3. rec' = rec /\ keyed' = keyed
    BY <1>3 DEF Send
  <2> QED
    BY <1>1, <2>2, <2>3 DEF RecoveryIdle
<1>4. ASSUME NEW j \in Live, Create(j)
      PROVE  Counting'
  <2>1. sender'["recovery"] = sender["recovery"]
    <3>1. j \in Jobs
      BY DEF Jobs
    <3>2. sender' = [sender EXCEPT !["live"] = [job |-> j, call |-> "key"]]
      BY <1>4 DEF Create, Reserve
    <3>3. "live" \in Senders /\ "recovery" \in Senders \ {"live"}
      BY DEF Senders
    <3> QED
      BY <3>1, <3>2, <3>3, SenderSteps
  <2>2. rec' = rec /\ keyed' = keyed
    BY <1>4 DEF Create
  <2> QED
    BY <1>1, <2>1, <2>2 DEF RecoveryIdle
<1>5. CASE RecoverJob
  <2>1. /\ rec.todo # {} /\ rec'.at = rec.at /\ rec'.count = rec.count
        /\ rec'.todo = rec.todo \ {Min(rec.todo)}
        /\ rec'.seen = rec.seen \cup {Min(rec.todo)}
    BY <1>5, RecoverySteps
  <2>2. keyed' = keyed
    BY <1>5 DEF RecoverJob, RecoveryStep
  <2> QED
    BY <1>0, <2>1, <2>2 DEF Counting
<1>6. CASE Recount
  <2>1. /\ rec.at = "moved" /\ rec.todo = {} /\ RecoveryIdle
        /\ rec'.at = "page" /\ rec'.todo = {} /\ rec'.seen = rec.seen
        /\ \/ rec'.count = Cardinality(OnDisk(0))
           \/ rec.seen = {} /\ rec'.count = rec.count
    BY <1>6, RecoverySteps
  <2>2. UNCHANGED <<keyed, sender, status>>
    BY <1>6 DEF Recount, RecoveryStep
  <2>3. Cardinality(OldOnDisk) <= Cardinality(OnDisk(0))
    <3>1. \A j \in Old : ~(j <= 0)
      BY JobsNumbers, SMT
    <3>2. OldOnDisk \subseteq OnDisk(0) /\ OnDisk(0) \in SUBSET Jobs
      BY <3>1 DEF OldOnDisk, OnDisk, Covers, Types
    <3>3. IsFiniteSet(OnDisk(0))
      BY <3>2, JobsNumbers
    <3> QED
      BY <3>2, <3>3, FS_Subset
  <2>4. OldOnDisk' = OldOnDisk
    BY <2>2 DEF OldOnDisk
  <2>5. Cardinality(OldOnDisk') <= rec'.count
    BY <2>1, <2>3, <2>4 DEF Counting
  <2> QED
    BY <1>0, <2>1, <2>2, <2>5 DEF Counting, RecoveryIdle
<1>7. CASE FirstPage \/ NothingLeft \/ ReserveRest \/ AttachSpill
  <2>1. \/ rec'.at = "first"
        \/ rec'.at \in {"attach", "done"} /\ rec'.todo = {}
    BY <1>7, RecoverySteps DEF Counting
  <2> QED
    BY <1>0, <2>1 DEF Counting
<1>8. CASE LoopTop \/ RefillPage \/ RefillFails \/ ReadCmd \/ Sweep \/ Wake \/ Panic \/ WindowEnds
           \/ BackoffEnds
  <2>1. UNCHANGED <<sender, keyed, rec>>
    BY <1>8 DEF LoopTop, RefillPage, RefillFails, ReadCmd, Sweep, Wake, Panic, WindowEnds, BackoffEnds
  <2> QED
    BY <1>1, <2>1 DEF RecoveryIdle
<1>9. ASSUME NEW j \in Jobs,
             Dispatch(j) \/ ReadFinal(j) \/ ReadRetry(j) \/ Finish(j) \/ RetryLater(j) \/ Age(j)
      PROVE  Counting'
  <2>1. UNCHANGED <<sender, keyed, rec>>
    BY <1>9 DEF Dispatch, ReadFinal, ReadRetry, Finish, RetryLater, AttemptEnds, Age
  <2> QED
    BY <1>1, <2>1 DEF RecoveryIdle
<1> QED
  BY <1>2, <1>3, <1>4, <1>5, <1>6, <1>7, <1>8, <1>9
     DEF Next, Handing, Recovering, Looping, Dispatching, ReadDone, Attempting

-----------------------------------------------------------------------------
(* Every unfinished job is accounted for.                                  *)

\* The first page and what stays on disk have every stored job: a stored job
\* beyond a full page is one the count has beyond it.
LEMMA FirstPageOwes ==
    ASSUME Types, Counting, FirstPage, NEW j \in Old \ rec.seen, status[j] = "pending"
    PROVE  Owed(j)'
<1> DEFINE page == QueuedPage(0)
<1>1. /\ rec.at = "page"
      /\ rec'.at = "first" /\ rec'.todo = page /\ rec'.seen = rec.seen
      /\ rec'.last = IF page = {} THEN 0 ELSE Max(page)
      /\ rec'.count = IF Cardinality(page) < PageSize \/ rec.count - Cardinality(page) < 0
                        THEN 0 ELSE rec.count - Cardinality(page)
  BY RecoverySteps
<1>2. j \in keyed /\ Cardinality(OldOnDisk) <= rec.count
  BY <1>1 DEF Counting
<1>3. keyed' = keyed
  BY DEF FirstPage, RecoveryStep, storeVars
<1>4. CASE j \in page
  BY <1>1, <1>4 DEF Owed
<1>5. CASE j \notin page
  <2>1. j \in OnDisk(0)
    <3>1. ~(j <= 0)
      BY JobsNumbers, SMT
    <3> QED
      BY <1>2, <3>1 DEF OnDisk, Covers
  <2>2. /\ page \in SUBSET Jobs /\ page \subseteq OnDisk(0) /\ Cardinality(page) \in Nat
        /\ ~(Cardinality(page) < PageSize)
        /\ page # {} => Max(page) < j
        /\ \A k \in page : k < j
    BY <1>5, <2>1, PageFacts
  <2>3. page # {}
    <3>1. Cardinality({}) = 0 /\ 0 < PageSize
      BY FS_EmptySet, RecoveryAssumption, SMT
    <3> QED
      BY <2>2, <3>1
  <2>4. page \cup {j} \subseteq OldOnDisk
    <3>1. ASSUME NEW k \in page PROVE k \in Old
      <4>1. k \in Live => j < k
        BY RecoveryAssumption
      <4>2. k \in Jobs /\ j \in Jobs /\ k < j
        BY <2>2, JobsNumbers
      <4>3. ~(j < k)
        BY <4>2, JobsNumbers, SMT
      <4> QED
        BY <4>1, <4>2, <4>3 DEF Jobs
    <3> QED
      BY <1>2, <2>2, <3>1 DEF OldOnDisk, OnDisk
  <2>5. Cardinality(page) + 1 <= rec.count
    <3>1. OldOnDisk \in SUBSET Jobs
      BY JobsNumbers DEF OldOnDisk
    <3>2. IsFiniteSet(OldOnDisk) /\ IsFiniteSet(page) /\ Cardinality(OldOnDisk) \in Nat
      BY <2>2, <3>1, JobsNumbers
    <3>3. Cardinality(page \cup {j}) = Cardinality(page) + 1
      BY <1>5, <3>2, FS_AddElement
    <3>4. Cardinality(page \cup {j}) <= Cardinality(OldOnDisk)
      BY <2>4, <3>2, FS_Subset
    <3> QED
      BY <1>2, <2>2, <3>2, <3>3, <3>4, SMT DEF Types, RecoveryStates
  <2> HIDE DEF page
  <2>6. rec'.count > 0
    BY <1>1, <2>2, <2>5, SMT DEF Types, RecoveryStates
  <2> QED
    BY <1>1, <1>2, <1>3, <2>2, <2>3, <2>6 DEF Owed
<1> QED
  BY <1>4, <1>5

\* Every step leaves an unfinished job somewhere.
LEMMA AccountedStep ==
    ASSUME Types, Types', Handed, Handed', Backed, Counting, AllAccounted, Next
    PROVE  AllAccounted'
<1> USE DEF storeVars, sendVars, pageVars, attemptVars, used
<1> SUFFICES ASSUME NEW j \in Jobs, status'[j] = "pending"
             PROVE  Accounted(j)'
  BY DEF AllAccounted
<1>0. "live" \in Senders /\ "recovery" \in Senders /\ j # 0
  BY SenderSteps DEF Senders
<1>1. CASE j \in Live /\ Create(j)
  <2>1. sender'["live"].job = j
    BY <1>0, <1>1, SenderSteps DEF Create, Reserve
  <2> QED
    BY <1>0, <2>1 DEF Accounted
<1> SUFFICES ASSUME status[j] = "pending", ~(j \in Live /\ Create(j))
             PROVE  Accounted(j)'
  BY <1>1, RowSteps
<1>2. Accounted(j)
  BY DEF AllAccounted
<1>3. ASSUME rec' = rec, keyed \subseteq keyed', cmds' = cmds,
             \A w \in Senders : sender[w].job = j => sender'[w].job = j,
             Unread(spills, j) \/ Unread(attached, j) => Unread(spills', j) \/ Unread(attached', j),
             Copied(j) => Copied(j)'
      PROVE  Accounted(j)'
  BY <1>2, <1>3 DEF Accounted, Owed
<1>4. ASSUME NEW w \in Senders, SetQueueKey(w)
      PROVE  Accounted(j)'
  <2>1. sender[w].job \in Jobs
    BY <1>4, SenderFacts DEF SetQueueKey
  <2>2. \A v \in Senders : sender'[v].job = sender[v].job
    BY <1>4, <2>1, SenderSteps DEF SetQueueKey
  <2>3. /\ UNCHANGED <<rec, cmds, spills, attached, memory, running, finals, retries>>
        /\ keyed \subseteq keyed'
    BY <1>4 DEF SetQueueKey
  <2> QED
    BY <1>3, <2>2, <2>3 DEF Copied
<1>5. ASSUME NEW w \in Senders, Send(w)
      PROVE  Accounted(j)'
  <2>1. sender[w].job \in Jobs
    BY <1>5, SenderFacts DEF Send
  <2>2. \A v \in Senders \ {w} : sender'[v] = sender[v]
    BY <1>5, <2>1, SenderSteps DEF Send
  <2>3. Range(cmds') = Range(cmds) \cup {sender[w].job}
    BY <1>5, SendCmds
  <2>4. UNCHANGED <<rec, keyed, spills, attached, memory, running, finals, retries>>
    BY <1>5 DEF Send
  <2> QED
    BY <1>2, <2>2, <2>3, <2>4 DEF Accounted, Owed, Copied
<1>6. ASSUME NEW k \in Live, Create(k)
      PROVE  Accounted(j)'
  <2>1. sender'["recovery"] = sender["recovery"] /\ sender["live"].job # j
    BY <1>0, <1>6, SenderSteps DEF Create, Reserve, Jobs
  <2>2. UNCHANGED <<rec, keyed, cmds, spills, attached, memory, running, finals, retries>>
    BY <1>6 DEF Create
  <2>3. \A w \in Senders : sender[w].job = j => sender'[w].job = j
    BY <2>1 DEF Senders
  <2> QED
    BY <1>3, <2>2, <2>3 DEF Copied
<1>7. CASE RecoverJob
  <2> DEFINE i == Min(rec.todo)
  <2>1. /\ i \in rec.todo
        /\ rec'.at = rec.at /\ rec'.last = rec.last /\ rec'.count = rec.count
        /\ rec'.todo = rec.todo \ {i} /\ rec'.seen = rec.seen \cup {i}
        /\ \/ i \in rec.seen /\ sender' = sender
           \/ /\ i \notin rec.seen /\ sender["recovery"] = Idle
              /\ sender' = [sender EXCEPT !["recovery"] = [job |-> i, call |-> "key"]]
    BY <1>7, RecoverySteps
  <2>2. UNCHANGED <<keyed, cmds, spills, attached, memory, running, finals, retries>>
    BY <1>7 DEF RecoverJob, RecoveryStep
  <2>3. i \in Jobs
    BY <2>1, SMT DEF Types, RecoveryStates
  <2> HIDE DEF i
  <2>4. CASE i \in rec.seen /\ sender' = sender
    BY <1>2, <2>1, <2>2, <2>4 DEF Accounted, Owed, Copied
  <2>5. CASE /\ i \notin rec.seen /\ sender["recovery"] = Idle
             /\ sender' = [sender EXCEPT !["recovery"] = [job |-> i, call |-> "key"]]
    <3>1. /\ sender'["recovery"].job = i /\ sender["recovery"].job # j
          /\ \A v \in Senders \ {"recovery"} : sender'[v] = sender[v]
      BY <1>0, <2>3, <2>5, SenderSteps
    <3>2. CASE i = j
      BY <1>0, <3>1, <3>2 DEF Accounted
    <3>3. CASE i # j
      BY <1>2, <2>1, <2>2, <3>1, <3>3 DEF Accounted, Owed, Copied
    <3> QED
      BY <3>2, <3>3
  <2> QED
    BY <2>1, <2>4, <2>5
<1>8. ASSUME UNCHANGED <<sender, keyed, cmds, memory, running, finals, retries>>,
             Unread(spills, j) \/ Unread(attached, j) => Unread(spills', j) \/ Unread(attached', j),
             Owed(j) => Accounted(j)'
      PROVE  Accounted(j)'
  BY <1>2, <1>8 DEF Accounted, Copied
<1>9. CASE Recount \/ FirstPage \/ NothingLeft \/ ReserveRest
  <2>1. UNCHANGED <<sender, keyed, cmds, spills, attached, memory, running, finals, retries>>
    BY <1>9 DEF Recount, FirstPage, NothingLeft, ReserveRest, RecoveryStep
  <2>2. ASSUME Owed(j) PROVE Owed(j)'
    <3>1. CASE Recount
      BY <2>2, <3>1, RecoverySteps DEF Owed
    <3>2. CASE FirstPage
      <4>1. j \in Old \ rec.seen
        BY <2>2, <3>2, RecoverySteps DEF Owed
      <4> QED
        BY <3>2, <4>1, FirstPageOwes
    <3>3. CASE NothingLeft
      <4>1. rec.at = "first" /\ rec.todo = {} /\ ~(rec.count > 0)
        BY <3>3, RecoverySteps, SMT
      <4> QED
        BY <2>2, <4>1 DEF Owed
    <3>4. CASE ReserveRest
      BY <2>1, <2>2, <3>4, RecoverySteps DEF Owed
    <3> QED
      BY <1>9, <3>1, <3>2, <3>3, <3>4
  <2> QED
    BY <1>8, <2>1, <2>2 DEF Accounted
<1>10. CASE AttachSpill
  <2>1. UNCHANGED <<sender, keyed, cmds, spills, memory, running, finals, retries>>
    BY <1>10 DEF AttachSpill
  <2>2. /\ attached' = Append(attached, NewSource(rec.last, rec.count))
        /\ attached \in Seq(Source) /\ rec.last \in Nat /\ rec.count \in Nat
        /\ rec.at = "attach" /\ rec.todo = {}
    <3>1. rec.last \in Nat /\ rec.count \in Nat
      BY SMT DEF Types, RecoveryStates
    <3> QED
      BY <1>10, <3>1 DEF AttachSpill, Types, Counting
  <2>3. Unread(attached', j) <=> Unread(attached, j) \/ rec.last < j
    <3>1. /\ NewSource(rec.last, rec.count) \in Source
          /\ NewSource(rec.last, rec.count).after = rec.last
      BY <2>2, SourceMade
    <3> QED
      BY <2>2, <3>1, UnreadAppend
  <2>4. Owed(j) => Accounted(j)'
    BY <2>1, <2>2, <2>3 DEF Owed, Accounted
  <2> QED
    BY <1>8, <2>1, <2>3, <2>4
<1>11. CASE LoopTop
  <2> DEFINE late == {k \in Jobs : memory[k] > 0 /\ QueueExpired(k)}
  <2>1. /\ status' = [k \in Jobs |-> IF k \in late THEN "done" ELSE status[k]]
        /\ memory' = [k \in Jobs |-> IF k \in late THEN 0 ELSE memory[k]]
        /\ spills' = spills \o attached
        /\ UNCHANGED <<rec, sender, cmds, keyed, running, finals, retries>>
    BY <1>11 DEF LoopTop
  <2> HIDE DEF late
  <2>2. memory'[j] = memory[j]
    BY <2>1
  <2>3. Unread(spills', j) <=> Unread(spills, j) \/ Unread(attached, j)
    BY <2>1, UnreadAdded DEF Types
  <2> QED
    BY <1>3, <2>1, <2>2, <2>3 DEF Copied
<1>12. CASE RefillPage
  <2>1. PICK page \in SUBSET Jobs :
             /\ present' = present \cup page
             /\ memory' = [k \in Jobs |-> memory[k] + IF k \in page \ present THEN 1 ELSE 0]
             /\ \A k \in keyed : status[k] = "pending" /\ Unread(spills, k) =>
                   k \in page \/ Unread(spills', k)
    BY <1>12, RefilledPage
  <2>2. UNCHANGED <<rec, sender, cmds, keyed, attached, running, finals, retries>>
    BY <1>12 DEF RefillPage
  <2>3. /\ j \in page \ present => memory'[j] > 0
        /\ memory[j] > 0 => memory'[j] > 0
    <3>1. memory[j] \in Nat
      BY DEF Types
    <3>2. memory'[j] = memory[j] + IF j \in page \ present THEN 1 ELSE 0
      BY <2>1
    <3> QED
      BY <3>1, <3>2, SMT
  <2>4. j \in present => Copied(j)
    BY DEF Backed
  <2>5. j \in page => Copied(j)'
    BY <2>2, <2>3, <2>4 DEF Copied
  <2> QED
    BY <1>2, <2>1, <2>2, <2>3, <2>5 DEF Accounted, Owed, Copied
<1>13. CASE RefillFails \/ Wake \/ WindowEnds \/ BackoffEnds
  <2>1. UNCHANGED <<rec, keyed, cmds, sender, spills, attached, memory, running, finals, retries>>
    BY <1>13 DEF RefillFails, Wake, WindowEnds, BackoffEnds
  <2> QED
    BY <1>3, <2>1 DEF Copied
<1>14. CASE ReadCmd
  <2> DEFINE i == Head(cmds)
  <2>1. /\ cmds # <<>> /\ i \in Jobs /\ Range(cmds) = Range(cmds') \cup {i}
    BY <1>14, ChannelReceive DEF ReadCmd, Types
  <2>2. /\ \/ AcceptHandoff(i) /\ memory' = Plus(memory, i)
           \/ ~AcceptHandoff(i) /\ memory' = memory
        /\ UNCHANGED <<rec, sender, keyed, spills, attached, running, finals, retries>>
    BY <1>14 DEF ReadCmd
  <2>3. i \in keyed
    BY <2>1 DEF Handed
  <2> HIDE DEF i
  <2>4. /\ Plus(memory, i)[i] > 0
        /\ \A k \in Jobs : memory[k] > 0 => Plus(memory, i)[k] > 0
    BY <2>1, CopySteps, CopiesNumbers
  <2>5. Copied(j) => Copied(j)'
    BY <2>2, <2>4 DEF Copied
  <2>6. ASSUME i = j PROVE Accounted(j)'
    <3>1. CASE AcceptHandoff(i) /\ memory' = Plus(memory, i)
      BY <2>4, <2>6, <3>1 DEF Accounted, Copied
    <3>2. CASE ~AcceptHandoff(i)
      <4>1. CASE j \in present
        BY <2>5, <4>1 DEF Accounted, Backed
      <4>2. CASE spills # <<>> /\ ~Covers(Head(spills).after, j)
        <5>0. Head(spills) \in Source
          BY <4>2, UnreadFirst DEF Types
        <5>1. Head(spills).after \in Nat
          BY <5>0, SMT DEF Source
        <5>2. Head(spills).after < j
          BY <4>2, <5>1, JobsNumbers, SMT DEF Covers
        <5>3. Unread(spills, j)
          BY <4>2, <5>2, UnreadFirst DEF Types
        <5> QED
          BY <2>2, <2>3, <2>6, <5>3 DEF Accounted
      <4> QED
        BY <2>6, <3>2, <4>1, <4>2 DEF AcceptHandoff
    <3> QED
      BY <2>2, <3>1, <3>2
  <2>7. ASSUME i # j PROVE Accounted(j)'
    BY <1>2, <2>1, <2>2, <2>5, <2>7 DEF Accounted, Owed
  <2> QED
    BY <2>6, <2>7
<1>15. ASSUME NEW k \in Jobs, Dispatch(k) \/ ReadRetry(k) \/ RetryLater(k)
       PROVE  Accounted(j)'
  <2>1. /\ UNCHANGED <<rec, keyed, cmds, sender, spills, attached, finals>>
        /\ \/ memory[k] > 0 /\ memory' = Less(memory, k) /\ running' = Plus(running, k)
              /\ retries' = retries
           \/ retries[k] > 0 /\ retries' = Less(retries, k) /\ memory' = Plus(memory, k)
              /\ running' = running
           \/ running[k] > 0 /\ running' = Less(running, k) /\ retries' = Plus(retries, k)
              /\ memory' = memory
    BY <1>15 DEF Dispatch, ReadRetry, RetryLater, AttemptEnds
  <2>2. Copied(j) => Copied(j)'
    <3>1. CASE j = k
      BY <2>1, <3>1, CopySteps, CopiesNumbers DEF Copied
    <3>2. CASE j # k
      <4>0. \A f \in [Jobs -> Nat] : Less(f, k)[j] = f[j] /\ Plus(f, k)[j] = f[j]
        BY <3>2, CopySteps, SMT
      <4>1. memory'[j] = memory[j] /\ running'[j] = running[j] /\ retries'[j] = retries[j]
        BY <2>1, <4>0 DEF Types
      <4> QED
        BY <2>1, <4>1 DEF Copied
    <3> QED
      BY <3>1, <3>2
  <2> QED
    BY <1>3, <2>1, <2>2
<1>16. ASSUME NEW k \in Jobs, ReadFinal(k) \/ Finish(k)
       PROVE  Accounted(j)'
  <2>1. UNCHANGED <<rec, keyed, cmds, sender, spills, attached, memory, retries>>
    BY <1>16 DEF ReadFinal, Finish, AttemptEnds
  <2>2. ~(finals[j] > 0)
    BY DEF Backed
  <2>3. running[j] > 0 => running'[j] > 0
    <3>1. CASE ReadFinal(k)
      BY <3>1 DEF ReadFinal
    <3>2. CASE Finish(k)
      <4>1. j # k
        BY <3>2 DEF Finish, Types
      <4>2. running \in [Jobs -> Nat] /\ running' = Less(running, k)
        BY <3>2 DEF Finish, AttemptEnds, Types
      <4>3. Less(running, k)[j] = running[j]
        BY <4>1, <4>2, CopySteps, SMT
      <4> QED
        BY <4>2, <4>3
    <3> QED
      BY <1>16, <3>1, <3>2
  <2> QED
    BY <1>3, <2>1, <2>2, <2>3 DEF Copied
<1>17. CASE Sweep
  <2>1. UNCHANGED <<rec, keyed, cmds, sender, attached, memory, running, finals, retries>>
    BY <1>17 DEF Sweep
  <2>2. Unread(spills', j) <=> Unread(spills, j)
    BY <1>17, SweptSources, UnreadCursors
  <2> QED
    BY <1>3, <2>1, <2>2 DEF Copied
<1>18. CASE Panic
  <2>1. UNCHANGED <<rec, keyed, cmds, sender, running, finals, retries>>
    BY <1>18 DEF Panic
  <2>2. Unread(spills', j)
    BY <1>18, ReloadedSources
  <2>3. Copied(j) => j \in keyed
    BY DEF Backed
  <2> QED
    BY <1>2, <2>1, <2>2, <2>3 DEF Accounted, Owed
<1>19. ASSUME NEW k \in Jobs, Age(k)
       PROVE  Accounted(j)'
  <2>1. UNCHANGED <<rec, keyed, cmds, sender, spills, attached, memory, running, finals, retries>>
    BY <1>19 DEF Age
  <2> QED
    BY <1>3, <2>1 DEF Copied
<1> QED
  BY <1>4, <1>5, <1>6, <1>7, <1>9, <1>10, <1>11, <1>12, <1>13, <1>14, <1>15, <1>16, <1>17,
     <1>18, <1>19
     DEF Next, Handing, Recovering, Looping, Dispatching, ReadDone, Attempting

-----------------------------------------------------------------------------
\* Init gives the invariant.
LEMMA LostInit == Init => LostInv
<1> SUFFICES ASSUME Init PROVE LostInv
  OBVIOUS
<1>1. keyed \in SUBSET Old /\ Cardinality(keyed) \in Nat /\ IsFiniteSet(keyed) /\ Old \subseteq Jobs
  <2>1. keyed \in SUBSET Old
    BY RecoveryAssumption DEF Init
  <2> QED
    BY <2>1, JobsNumbers
<1>2. Types
  <2>1. /\ rec \in RecoveryStates /\ sender \in SenderStates
        /\ cmds \in Seq(Jobs) /\ attached \in Seq(Source) /\ spills \in Seq(Source)
        /\ memory \in [Jobs -> Nat] /\ running \in [Jobs -> Nat]
        /\ finals \in [Jobs -> Nat] /\ retries \in [Jobs -> Nat]
    BY <1>1, SMT DEF Init, RecoveryStates, SenderStates, Idle, None
  <2> QED
    BY <1>1, <2>1 DEF Init, Types
<1>3. Handed
  <2>1. Range(cmds) = {}
    BY SMT DEF Init, Range
  <2>2. Idle.job = 0 /\ Idle.call = "none"
    BY SMT DEF Idle
  <2> QED
    BY <2>1, <2>2 DEF Init, Handed, Senders
<1>4. Backed
  <2>1. \A j \in Jobs : ~(None[j] > 0)
    BY SMT DEF None
  <2> QED
    BY <2>1 DEF Init, Backed, Copied
<1>5. Counting
  <2>1. rec.at = "moved" /\ rec.todo = Old \ keyed /\ rec.count = Cardinality(keyed) /\ loop = "top"
    BY SMT DEF Init
  <2>2. OldOnDisk \subseteq keyed
    BY DEF OldOnDisk
  <2>3. Cardinality(OldOnDisk) <= Cardinality(keyed)
    BY <1>1, <2>2, FS_Subset
  <2> QED
    BY <2>1, <2>3 DEF Counting
<1>6. AllAccounted
  <2>1. rec.at = "moved" /\ rec.seen = {}
    BY SMT DEF Init
  <2>2. \A j \in Jobs : status[j] = "pending" => j \in Old
    BY DEF Init
  <2> QED
    BY <2>1, <2>2 DEF AllAccounted, Accounted, Owed
<1> QED
  BY <1>2, <1>3, <1>4, <1>5, <1>6 DEF LostInv

\* Every step keeps the invariant.
LEMMA LostNext == LostInv /\ [Next]_vars => LostInv'
<1>1. CASE UNCHANGED vars
  BY <1>1, SMT DEF vars, storeVars, sendVars, pageVars, attemptVars, used, LostInv, Types, Handed,
              Backed, Copied, Counting, RecoveryIdle, OldOnDisk, AllAccounted, Accounted, Owed
<1>2. ASSUME LostInv, Next PROVE LostInv'
  <2>1. Types /\ Handed /\ Backed /\ Counting /\ AllAccounted
    BY <1>2 DEF LostInv
  <2>2. Types' /\ Handed'
    BY <1>2, <2>1, TypesStep, HandedStep
  <2>3. Backed' /\ Counting' /\ AllAccounted'
    BY <1>2, <2>1, <2>2, BackedStep, CountingStep, AccountedStep
  <2> QED
    BY <2>2, <2>3 DEF LostInv
<1> QED
  BY <1>1, <1>2

\* An unfinished job that is accounted for is in one of the property's places.
LEMMA LostImplies == LostInv => NothingLost
<1> SUFFICES ASSUME LostInv, NEW j \in Jobs, status[j] = "pending"
             PROVE  j \in InMemory \cup OnTheWay \cup LeftToRecovery \cup Loadable
  BY DEF NothingLost
<1>1. Types /\ Accounted(j)
  BY DEF LostInv, AllAccounted
<1>2. CASE Copied(j)
  <2>1. memory[j] + running[j] + finals[j] + retries[j] > 0
    BY <1>1, <1>2, SMT DEF Types, Copied
  <2> QED
    BY <2>1 DEF InMemory
<1>3. CASE j \in Range(cmds) \/ \E w \in Senders : sender[w].job = j
  BY <1>3 DEF OnTheWay
<1>4. ASSUME NEW c \in Nat, c < j, j \in keyed
      PROVE  j \in OnDisk(c)
  <2>1. ~(j <= c)
    BY <1>4, JobsNumbers, SMT
  <2> QED
    BY <1>4, <2>1 DEF OnDisk, Covers
<1>5. CASE j \in keyed /\ (Unread(spills, j) \/ Unread(attached, j))
  <2> DEFINE s == spills \o attached
  <2>1. s \in Seq(Source) /\ Unread(s, j)
    BY <1>1, <1>5, UnreadAdded DEF Types
  <2> HIDE DEF s
  <2>2. PICK i \in 1..Len(s) : s[i].after < j
    BY <2>1 DEF Unread
  <2>3. s[i] \in Range(s) /\ s[i].after \in Nat
    <3>1. i \in DOMAIN s /\ s[i] \in Source
      BY <2>1, SMT
    <3> QED
      BY <3>1, SMT DEF Range, Source
  <2>4. j \in OnDisk(s[i].after)
    BY <1>4, <1>5, <2>2, <2>3
  <2> QED
    BY <2>3, <2>4 DEF Loadable, s
<1>6. CASE Owed(j)
  <2>1. CASE rec.at \in {"moved", "page"} /\ j \in Old
    <3>1. LeftToRecovery = Old
      BY <2>1 DEF LeftToRecovery
    <3> QED
      BY <2>1, <3>1
  <2>2. CASE /\ rec.at \in {"first", "attach"}
             /\ j \in rec.todo \/ (rec.count > 0 /\ j \in keyed /\ rec.last < j)
    <3>1. LeftToRecovery = rec.todo \cup (IF rec.count > 0 THEN OnDisk(rec.last) ELSE {})
      BY <2>2 DEF LeftToRecovery
    <3>2. rec.last \in Nat
      BY <1>1, SMT DEF Types, RecoveryStates
    <3> QED
      BY <1>4, <2>2, <3>1, <3>2
  <2> QED
    BY <1>6, <2>1, <2>2 DEF Owed
<1> QED
  BY <1>1, <1>2, <1>3, <1>5, <1>6 DEF Accounted

\* NothingLost holds: an unfinished job is in the queue, on the way to it, or
\* still to be read by RecoverQueuedJobs or from a source, whatever hand-offs
\* acceptHandoff refuses and whenever the run loop panics.
THEOREM NothingLostCorrect == Spec => []NothingLost
BY LostInit, LostNext, LostImplies, PTL DEF Spec

-----------------------------------------------------------------------------
(* The inductive invariant of NotRunAgain.                                 *)

\* Jobs that recovery did not read while a live sender was handing them over.
Guarded == Jobs \ (Live \cap rec.seen)

\* A job of a sender, or in the channel.
Coming(j) == j \in Range(cmds) \/ \E w \in Senders : sender[w].job = j

\* A guarded job is on the way once; what is on the way, held or read by
\* recovery has a row, and recovery has seen the stored jobs on the way.
ComesOnce ==
    /\ \A a, b \in 1..Len(cmds) : cmds[a] = cmds[b] /\ cmds[a] \in Guarded => a = b
    /\ \A w \in Senders : sender[w].job \in Guarded => sender[w].job \notin Range(cmds)
    /\ \A j \in Old : Coming(j) => j \in rec.seen
    /\ \A j \in Jobs : status[j] = "none" =>
          j \notin present \cup rec.todo \cup Old /\ ~Coming(j)

\* present is what the queue has a copy of, and it has one.
HeldOnce ==
    \A j \in Jobs :
        memory[j] + running[j] + finals[j] + retries[j] = IF j \in present THEN 1 ELSE 0

\* Until recovery is over no source is attached, and the stored jobs it has
\* not seen are as they were.
Untouched ==
    rec.at # "done" =>
        /\ spills = <<>> /\ attached = <<>>
        /\ \A j \in Old \ rec.seen : j \notin present /\ status[j] = "pending"

\* A row that is unfinished, or expired where the loop will see it.
Unfinished(j) == status[j] = "pending" \/ QueueExpired(j)

\* An attempt's row is unfinished, and so is the row of a hand-off that arrives
\* outside the window after a page.
RunsUnfinished ==
    /\ \A j \in Guarded :
          /\ running[j] > 0 \/ retries[j] > 0 => status[j] = "pending"
          /\ memory[j] > 0 => Unfinished(j)
    /\ ~recent => \A j \in Guarded : Coming(j) => j \notin present /\ Unfinished(j)

\* The inductive invariant of NotRunAgain, on top of LostInv.
AgainInv == ComesOnce /\ (~panicked => HeldOnce /\ Untouched /\ RunsUnfinished)

-----------------------------------------------------------------------------
(* A guarded job is on the way once.                                       *)

\* The two senders hand over different guarded jobs.
LEMMA SendersDiffer ==
    ASSUME Types, Handed, NEW v \in Senders, NEW w \in Senders, v # w,
           sender[w].job \in Guarded
    PROVE  sender[v].job # sender[w].job
<1>1. sender[w].job # 0
  BY SenderSteps DEF Guarded
<1> QED
  BY <1>1 DEF Handed, Guarded, Senders

\* No step puts a guarded job on the way a second time.
LEMMA ComesOnceStep ==
    ASSUME Types, Types', Handed, Counting, ComesOnce, Next
    PROVE  ComesOnce'
<1> USE DEF storeVars, sendVars, pageVars, attemptVars, used
<1>0. /\ \A j \in Jobs : status'[j] = "none" => status[j] = "none"
      /\ "live" \in Senders /\ "recovery" \in Senders
      /\ \A j \in Old : j \in Jobs /\ j \notin Live
  BY RowSteps, OldNotLive DEF Senders
<1>1. ASSUME cmds' = cmds, \A w \in Senders : sender'[w].job = sender[w].job,
             rec'.seen = rec.seen,
             \A j \in Jobs : status[j] = "none" => j \notin present' \cup rec'.todo
      PROVE  ComesOnce'
  BY <1>0, <1>1, SMT DEF ComesOnce, Coming, Guarded
<1>2. ASSUME NEW w \in Senders, SetQueueKey(w)
      PROVE  ComesOnce'
  <2>1. sender[w].job \in Jobs
    BY <1>2, SenderFacts DEF SetQueueKey
  <2>2. \A v \in Senders : sender'[v].job = sender[v].job
    BY <1>2, <2>1, SenderSteps DEF SetQueueKey
  <2>3. UNCHANGED <<rec, cmds, present>>
    BY <1>2 DEF SetQueueKey
  <2> QED
    BY <1>1, <2>2, <2>3 DEF ComesOnce
<1>3. ASSUME NEW w \in Senders, Send(w)
      PROVE  ComesOnce'
  <2> DEFINE i == sender[w].job
  <2>1. i \in Jobs
    BY <1>3, SenderFacts DEF Send
  <2>2. /\ \A v \in Senders \ {w} : sender'[v] = sender[v]
        /\ sender'[w].job = 0
    BY <1>3, <2>1, SenderSteps DEF Send
  <2>3. /\ Range(cmds') = Range(cmds) \cup {i}
        /\ Len(cmds') = Len(cmds) + 1 /\ cmds'[Len(cmds) + 1] = i
        /\ \A a \in 1..Len(cmds) : cmds'[a] = cmds[a]
    BY <1>3, SendCmds
  <2>4. UNCHANGED <<rec, present, status>>
    BY <1>3 DEF Send
  <2>5. i \in Guarded => i \notin Range(cmds) /\ \A v \in Senders \ {w} : sender[v].job # i
    BY SendersDiffer DEF ComesOnce
  <2> HIDE DEF i
  <2>6. \A a \in 1..Len(cmds') : a = Len(cmds) + 1 \/ a \in 1..Len(cmds)
    BY <2>3, SMT DEF Types
  <2>7. \A a \in 1..Len(cmds) : cmds[a] \in Range(cmds)
    <3>1. cmds \in Seq(Jobs)
      BY DEF Types
    <3> QED
      BY <3>1, SMT DEF Range
  <2>8. \A a, b \in 1..Len(cmds') : cmds'[a] = cmds'[b] /\ cmds'[a] \in Guarded => a = b
    BY <2>3, <2>5, <2>6, <2>7 DEF ComesOnce
  <2>9. 0 \notin Guarded
    BY SenderSteps DEF Guarded
  <2>10. \A v \in Senders : sender'[v].job \in Guarded => sender'[v].job \notin Range(cmds')
    BY <2>2, <2>3, <2>5, <2>9 DEF ComesOnce
  <2>11. \A j \in Jobs : Coming(j)' => Coming(j)
    <3>1. \A j \in Jobs : j # 0
      BY SenderSteps
    <3> QED
      BY <2>2, <2>3, <3>1 DEF Coming, i
  <2> QED
    BY <1>0, <2>4, <2>8, <2>10, <2>11 DEF ComesOnce, Guarded
<1>4. ASSUME NEW i \in Live, Create(i)
      PROVE  ComesOnce'
  <2>1. i \in Jobs
    BY DEF Jobs
  <2>2. /\ sender'["live"].job = i /\ sender'["recovery"] = sender["recovery"]
        /\ status[i] = "none" /\ status'[i] = "pending"
        /\ UNCHANGED <<cmds, rec, present>>
    <3>1. /\ sender' = [sender EXCEPT !["live"] = [job |-> i, call |-> "key"]]
          /\ status[i] = "none" /\ status' = [status EXCEPT ![i] = "pending"]
          /\ UNCHANGED <<cmds, rec, present>>
      BY <1>4 DEF Create, Reserve
    <3>2. "live" \in Senders /\ "recovery" \in Senders \ {"live"}
      BY DEF Senders
    <3>3. sender'["live"].job = i /\ sender'["recovery"] = sender["recovery"]
      <4>1. sender' = [sender EXCEPT !["live"] = [job |-> i, call |-> "key"]] =>
               /\ sender'["live"].job = i
               /\ \A v \in Senders \ {"live"} : sender'[v] = sender[v]
        BY <2>1, <3>2, SenderSteps
      <4> QED
        BY <3>1, <3>2, <4>1
    <3>4. status'[i] = "pending"
      BY <2>1, <3>1 DEF Types
    <3> QED
      BY <3>1, <3>3, <3>4
  <2>3. ~Coming(i)
    BY <2>1, <2>2 DEF ComesOnce
  <2>4. \A j \in Jobs : Coming(j)' => Coming(j) \/ j = i
    BY <2>2 DEF Coming, Senders
  <2>5. \A w \in Senders : sender'[w].job \in Guarded => sender'[w].job \notin Range(cmds')
    BY <2>2, <2>3 DEF ComesOnce, Coming, Senders
  <2> QED
    BY <1>0, <2>2, <2>4, <2>5, SMT DEF ComesOnce, Guarded
<1>5. CASE RecoverJob
  <2> DEFINE i == Min(rec.todo)
  <2>1. /\ i \in rec.todo /\ rec'.todo = rec.todo \ {i} /\ rec'.seen = rec.seen \cup {i}
        /\ \/ i \in rec.seen /\ sender' = sender
           \/ /\ i \notin rec.seen
              /\ sender' = [sender EXCEPT !["recovery"] = [job |-> i, call |-> "key"]]
    BY <1>5, RecoverySteps
  <2>2. UNCHANGED <<cmds, present, status>>
    BY <1>5 DEF RecoverJob, RecoveryStep
  <2>3. i \in Jobs /\ status[i] # "none"
    <3>1. i \in Jobs
      BY <2>1, SMT DEF Types, RecoveryStates
    <3> QED
      BY <2>1, <3>1 DEF ComesOnce
  <2> HIDE DEF i
  <2>4. CASE i \in rec.seen /\ sender' = sender
    <3>1. rec'.seen = rec.seen
      BY <2>1, <2>4
    <3> QED
      BY <1>1, <2>1, <2>2, <2>4, <3>1 DEF ComesOnce
  <2>5. CASE /\ i \notin rec.seen
             /\ sender' = [sender EXCEPT !["recovery"] = [job |-> i, call |-> "key"]]
    <3>1. sender'["recovery"].job = i /\ sender'["live"] = sender["live"]
      BY <1>0, <2>3, <2>5, SenderSteps DEF Senders
    <3>2. Guarded' \subseteq Guarded /\ (i \in Guarded' => i \in Old)
      BY <2>1, <2>3 DEF Guarded, Jobs
    <3>3. i \in Guarded' => i \notin Range(cmds)
      BY <2>5, <3>2 DEF ComesOnce, Coming
    <3>4. \A w \in Senders : sender'[w].job \in Guarded' => sender'[w].job \notin Range(cmds')
      BY <2>2, <3>1, <3>2, <3>3 DEF ComesOnce, Senders
    <3>5. \A j \in Jobs : Coming(j)' => Coming(j) \/ j = i
      BY <2>2, <3>1 DEF Coming, Senders
    <3> QED
      BY <1>0, <2>1, <2>2, <2>3, <3>2, <3>4, <3>5 DEF ComesOnce
  <2> QED
    BY <2>1, <2>4, <2>5
<1>6. CASE Recount \/ NothingLeft \/ ReserveRest \/ AttachSpill
  <2>1. rec'.seen = rec.seen /\ rec'.todo = rec.todo
    BY <1>6, RecoverySteps
  <2>2. UNCHANGED <<sender, cmds, present>>
    BY <1>6 DEF Recount, NothingLeft, ReserveRest, AttachSpill, RecoveryStep
  <2> QED
    BY <1>1, <2>1, <2>2 DEF ComesOnce
<1>7. CASE FirstPage
  <2>1. rec'.seen = rec.seen /\ rec'.todo = QueuedPage(0)
    BY <1>7, RecoverySteps
  <2>2. UNCHANGED <<sender, cmds, present>>
    BY <1>7 DEF FirstPage, RecoveryStep
  <2>3. \A j \in QueuedPage(0) : status[j] = "pending"
    BY PageFacts DEF OnDisk
  <2> QED
    BY <1>1, <2>1, <2>2, <2>3 DEF ComesOnce
<1>8. CASE RefillPage
  <2>1. PICK page \in SUBSET Jobs :
             /\ \A j \in page : status[j] = "pending"
             /\ present' = present \cup page
    BY <1>8, RefilledPage
  <2>2. UNCHANGED <<sender, cmds, rec>>
    BY <1>8 DEF RefillPage
  <2> QED
    BY <1>1, <2>1, <2>2 DEF ComesOnce
<1>9. CASE LoopTop \/ RefillFails \/ Sweep \/ Wake \/ Panic \/ WindowEnds \/ BackoffEnds
  <2>1. present' \subseteq present /\ UNCHANGED <<sender, cmds, rec>>
    BY <1>9 DEF LoopTop, RefillFails, Sweep, Wake, Panic, WindowEnds, BackoffEnds
  <2> QED
    BY <1>1, <2>1 DEF ComesOnce
<1>10. ASSUME NEW j \in Jobs,
              Dispatch(j) \/ ReadFinal(j) \/ ReadRetry(j) \/ Finish(j) \/ RetryLater(j) \/ Age(j)
       PROVE  ComesOnce'
  <2>1. present' \subseteq present /\ UNCHANGED <<sender, cmds, rec>>
    BY <1>10 DEF Dispatch, ReadFinal, ReadRetry, Finish, RetryLater, AttemptEnds, Age
  <2> QED
    BY <1>1, <2>1 DEF ComesOnce
<1>11. CASE ReadCmd
  <2> DEFINE i == Head(cmds)
  <2>1. /\ i \in Jobs /\ Range(cmds) = Range(cmds') \cup {i}
        /\ Len(cmds') = Len(cmds) - 1 /\ Len(cmds) \in Nat
        /\ \A a \in 1..(Len(cmds) - 1) : cmds'[a] = cmds[a + 1]
    BY <1>11, ChannelReceive DEF ReadCmd, Types
  <2>2. present' \subseteq present \cup {i} /\ UNCHANGED <<sender, rec, status>>
    BY <1>11 DEF ReadCmd
  <2> HIDE DEF i
  <2>3. \A a \in 1..Len(cmds') : /\ a + 1 \in 1..Len(cmds) /\ cmds'[a] = cmds[a + 1]
                                 /\ a \in Int
    BY <2>1, SMT
  <2>4. \A a, b \in 1..Len(cmds') : cmds'[a] = cmds'[b] /\ cmds'[a] \in Guarded => a + 1 = b + 1
    BY <2>3 DEF ComesOnce
  <2>5. \A a, b \in 1..Len(cmds') : a + 1 = b + 1 => a = b
    BY <2>3, SMT
  <2>6. \A j \in Jobs : Coming(j)' => Coming(j)
    BY <2>1, <2>2 DEF Coming
  <2>7. status[i] # "none"
    BY <2>1 DEF ComesOnce, Coming
  <2>8. \A a, b \in 1..Len(cmds') : cmds'[a] = cmds'[b] /\ cmds'[a] \in Guarded => a = b
    BY <2>4, <2>5
  <2>9. \A w \in Senders : sender'[w].job \in Guarded => sender'[w].job \notin Range(cmds')
    BY <2>1, <2>2 DEF ComesOnce
  <2>10. \A j \in Old : Coming(j)' => j \in rec'.seen
    BY <2>2, <2>6 DEF ComesOnce, Jobs
  <2>11. \A j \in Jobs : status'[j] = "none" =>
            j \notin present' \cup rec'.todo \cup Old /\ ~Coming(j)'
    BY <2>2, <2>6, <2>7 DEF ComesOnce
  <2> QED
    BY <2>2, <2>8, <2>9, <2>10, <2>11 DEF ComesOnce, Guarded
<1> QED
  BY <1>2, <1>3, <1>4, <1>5, <1>6, <1>7, <1>8, <1>9, <1>10, <1>11
     DEF Next, Handing, Recovering, Looping, Dispatching, ReadDone, Attempting

-----------------------------------------------------------------------------
(* Without a panic the queue holds a job once.                             *)

\* One of four numbers, or none of them.
LEMMA OneOfFour ==
    ASSUME NEW a \in Nat, NEW b \in Nat, NEW c \in Nat, NEW d \in Nat,
           a + b + c + d = 1 \/ a + b + c + d = 0
    PROVE  /\ a > 0 \/ b > 0 \/ c > 0 \/ d > 0 <=> a + b + c + d = 1
           /\ a > 0 => ~(b > 0) /\ ~(d > 0) /\ ~(c > 0)
           /\ b > 0 => ~(d > 0) /\ ~(c > 0) /\ ~(b - 1 > 0)
           /\ d > 0 => ~(c > 0)
BY SMT

\* What one copy rules out.
LEMMA HeldFacts ==
    ASSUME Types, HeldOnce, NEW j \in Jobs
    PROVE  /\ memory[j] > 0 \/ running[j] > 0 \/ finals[j] > 0 \/ retries[j] > 0 <=> j \in present
           /\ memory[j] > 0 => ~(running[j] > 0) /\ ~(retries[j] > 0) /\ ~(finals[j] > 0)
           /\ running[j] > 0 => ~(retries[j] > 0) /\ ~(finals[j] > 0) /\ ~(running[j] - 1 > 0)
           /\ retries[j] > 0 => ~(finals[j] > 0)
<1>1. memory[j] \in Nat /\ running[j] \in Nat /\ finals[j] \in Nat /\ retries[j] \in Nat
  BY DEF Types
<1>2. memory[j] + running[j] + finals[j] + retries[j] = IF j \in present THEN 1 ELSE 0
  BY DEF HeldOnce
<1> DEFINE total == memory[j] + running[j] + finals[j] + retries[j]
<1>3. /\ total = 1 \/ total = 0
      /\ total = 1 <=> j \in present
  BY <1>2, SMT
<1>4. /\ memory[j] > 0 \/ running[j] > 0 \/ finals[j] > 0 \/ retries[j] > 0 <=> total = 1
      /\ memory[j] > 0 => ~(running[j] > 0) /\ ~(retries[j] > 0) /\ ~(finals[j] > 0)
      /\ running[j] > 0 => ~(retries[j] > 0) /\ ~(finals[j] > 0) /\ ~(running[j] - 1 > 0)
      /\ retries[j] > 0 => ~(finals[j] > 0)
  BY <1>1, <1>3, OneOfFour, SMT
<1> QED
  BY <1>3, <1>4

\* Without a panic no step gives the queue a second copy of a job.
LEMMA HeldOnceStep ==
    ASSUME Types, Handed, Counting, HeldOnce, Next, ~Panic
    PROVE  HeldOnce'
<1> USE DEF storeVars, sendVars, pageVars, attemptVars, used
<1>1. ASSUME UNCHANGED <<present, memory, running, finals, retries>>
      PROVE  HeldOnce'
  BY <1>1 DEF HeldOnce
<1>2. ASSUME NEW w \in Senders, SetQueueKey(w) \/ Send(w)
      PROVE  HeldOnce'
  BY <1>1, <1>2 DEF SetQueueKey, Send
<1>3. ASSUME NEW j, Create(j) \/ Age(j)
      PROVE  HeldOnce'
  BY <1>1, <1>3 DEF Create, Age
<1>4. CASE RecoverJob \/ Recount \/ FirstPage \/ NothingLeft \/ ReserveRest \/ AttachSpill
  <2>1. UNCHANGED <<present, memory, running, finals, retries>>
    BY <1>4 DEF RecoverJob, Recount, FirstPage, NothingLeft, ReserveRest, AttachSpill, RecoveryStep
  <2> QED
    BY <1>1, <2>1
<1>5. CASE RefillFails \/ Sweep \/ Wake \/ WindowEnds \/ BackoffEnds
  <2>1. UNCHANGED <<present, memory, running, finals, retries>>
    BY <1>5 DEF RefillFails, Sweep, Wake, WindowEnds, BackoffEnds
  <2> QED
    BY <1>1, <2>1
<1>6. CASE LoopTop
  <2> DEFINE late == {j \in Jobs : memory[j] > 0 /\ QueueExpired(j)}
  <2>1. /\ memory' = [j \in Jobs |-> IF j \in late THEN 0 ELSE memory[j]]
        /\ present' = present \ late
        /\ UNCHANGED <<running, finals, retries>>
    BY <1>6 DEF LoopTop
  <2>2. \A j \in late : memory[j] > 0
    OBVIOUS
  <2> HIDE DEF late
  <2> QED
    BY <2>1, <2>2, SMT DEF HeldOnce, Types
<1>7. CASE RefillPage
  <2>1. PICK page \in SUBSET Jobs :
             /\ present' = present \cup page
             /\ memory' = [j \in Jobs |-> memory[j] + IF j \in page \ present THEN 1 ELSE 0]
    BY <1>7, RefilledPage
  <2>2. UNCHANGED <<running, finals, retries>>
    BY <1>7 DEF RefillPage
  <2> QED
    BY <2>1, <2>2, SMT DEF HeldOnce, Types
<1>8. CASE ReadCmd
  <2> DEFINE i == Head(cmds)
  <2>1. i \in Jobs
    BY <1>8, ChannelReceive DEF ReadCmd, Types
  <2>2. /\ \/ i \notin present /\ present' = present \cup {i} /\ memory' = Plus(memory, i)
           \/ present' = present /\ memory' = memory
        /\ UNCHANGED <<running, finals, retries>>
    BY <1>8 DEF ReadCmd, AcceptHandoff
  <2> HIDE DEF i
  <2> SUFFICES ASSUME NEW k \in Jobs
               PROVE  (memory[k] + running[k] + finals[k] + retries[k]
                         = IF k \in present THEN 1 ELSE 0)'
    BY DEF HeldOnce
  <2>3. memory[k] \in Nat /\ running[k] \in Nat /\ finals[k] \in Nat /\ retries[k] \in Nat
    BY DEF Types
  <2>4. memory[k] + running[k] + finals[k] + retries[k] = IF k \in present THEN 1 ELSE 0
    BY DEF HeldOnce
  <2>5. Plus(memory, i)[k] = IF k = i THEN memory[k] + 1 ELSE memory[k]
    BY <2>1, CopySteps, CopiesNumbers
  <2> QED
    BY <2>2, <2>3, <2>4, <2>5, SMT
<1>9. ASSUME NEW j \in Jobs,
             \/ /\ memory[j] > 0 /\ memory' = Less(memory, j) /\ running' = Plus(running, j)
                /\ finals' = finals /\ retries' = retries
             \/ /\ retries[j] > 0 /\ retries' = Less(retries, j) /\ memory' = Plus(memory, j)
                /\ finals' = finals /\ running' = running
             \/ /\ running[j] > 0 /\ running' = Less(running, j) /\ retries' = Plus(retries, j)
                /\ finals' = finals /\ memory' = memory
             \/ /\ running[j] > 0 /\ running' = Less(running, j) /\ finals' = Plus(finals, j)
                /\ retries' = retries /\ memory' = memory,
             present' = present
      PROVE  HeldOnce'
  <2> SUFFICES ASSUME NEW k \in Jobs
               PROVE  (memory[k] + running[k] + finals[k] + retries[k]
                         = IF k \in present THEN 1 ELSE 0)'
    BY DEF HeldOnce
  <2>1. memory[k] \in Nat /\ running[k] \in Nat /\ finals[k] \in Nat /\ retries[k] \in Nat
    BY DEF Types
  <2>2. memory[k] + running[k] + finals[k] + retries[k] = IF k \in present THEN 1 ELSE 0
    BY DEF HeldOnce
  <2>3. \A f, g \in [Jobs -> Nat] : f[j] > 0 => Less(f, j)[k] + Plus(g, j)[k] = f[k] + g[k]
    BY CopiesMoved
  <2>4. /\ memory \in [Jobs -> Nat] /\ running \in [Jobs -> Nat]
        /\ finals \in [Jobs -> Nat] /\ retries \in [Jobs -> Nat]
    BY DEF Types
  <2>5. /\ memory'[k] \in Nat /\ running'[k] \in Nat /\ finals'[k] \in Nat /\ retries'[k] \in Nat
    BY TypesStep DEF Types
  <2>6. \/ /\ memory'[k] + running'[k] = memory[k] + running[k]
           /\ finals'[k] = finals[k] /\ retries'[k] = retries[k]
        \/ /\ retries'[k] + memory'[k] = retries[k] + memory[k]
           /\ finals'[k] = finals[k] /\ running'[k] = running[k]
        \/ /\ running'[k] + retries'[k] = running[k] + retries[k]
           /\ finals'[k] = finals[k] /\ memory'[k] = memory[k]
        \/ /\ running'[k] + finals'[k] = running[k] + finals[k]
           /\ retries'[k] = retries[k] /\ memory'[k] = memory[k]
    BY <1>9, <2>3, <2>4
  <2>7. memory'[k] + running'[k] + finals'[k] + retries'[k]
          = memory[k] + running[k] + finals[k] + retries[k]
    BY <2>1, <2>5, <2>6, SMT
  <2> QED
    BY <1>9, <2>2, <2>7
<1>10. ASSUME NEW j \in Jobs, Dispatch(j) \/ ReadRetry(j) \/ Finish(j) \/ RetryLater(j)
       PROVE  HeldOnce'
  BY <1>9, <1>10 DEF Dispatch, ReadRetry, Finish, RetryLater, AttemptEnds
<1>11. ASSUME NEW j \in Jobs, ReadFinal(j)
       PROVE  HeldOnce'
  <2>1. /\ finals[j] > 0 /\ finals' = Less(finals, j) /\ present' = present \ {j}
        /\ UNCHANGED <<memory, running, retries>>
    BY <1>11 DEF ReadFinal
  <2> SUFFICES ASSUME NEW k \in Jobs
               PROVE  (memory[k] + running[k] + finals[k] + retries[k]
                         = IF k \in present THEN 1 ELSE 0)'
    BY DEF HeldOnce
  <2>2. memory[k] \in Nat /\ running[k] \in Nat /\ finals[k] \in Nat /\ retries[k] \in Nat
    BY DEF Types
  <2>3. memory[k] + running[k] + finals[k] + retries[k] = IF k \in present THEN 1 ELSE 0
    BY DEF HeldOnce
  <2>4. Less(finals, j)[k] = IF k = j THEN finals[k] - 1 ELSE finals[k]
    BY <2>1, CopySteps, CopiesNumbers
  <2> QED
    BY <2>1, <2>2, <2>3, <2>4, SMT
<1> QED
  BY <1>2, <1>3, <1>4, <1>5, <1>6, <1>7, <1>8, <1>10, <1>11
     DEF Next, Handing, Recovering, Looping, Dispatching, ReadDone, Attempting

\* Rows end only in the sweeps, past their deadline, and in an attempt.
LEMMA RowsStay ==
    ASSUME Types, Next, NEW j \in Jobs, status[j] = "pending"
    PROVE  \/ status'[j] = "pending"
           \/ LoopTop /\ memory[j] > 0 /\ QueueExpired(j)
           \/ Sweep /\ spills # <<>> /\ QueueExpired(j) /\ j \notin present
           \/ Finish(j)
<1> USE DEF storeVars, sendVars, pageVars, attemptVars, used
<1>1. CASE status' = status
  BY <1>1
<1>2. ASSUME NEW w \in Senders, SetQueueKey(w) \/ Send(w)
      PROVE  status' = status
  BY <1>2 DEF SetQueueKey, Send
<1>3. ASSUME NEW k \in Live, Create(k)
      PROVE  status'[j] = "pending"
  BY <1>3 DEF Create, Types
<1>4. CASE RecoverJob \/ Recount \/ FirstPage \/ NothingLeft \/ ReserveRest \/ AttachSpill
           \/ WindowEnds \/ BackoffEnds
  <2>1. status' = status
    BY <1>4 DEF RecoverJob, Recount, FirstPage, NothingLeft, ReserveRest, AttachSpill,
                RecoveryStep, WindowEnds, BackoffEnds
  <2> QED
    BY <1>1, <2>1
<1>5. CASE LoopTop
  BY <1>5 DEF LoopTop
<1>6. CASE Sweep
  <2>1. /\ spills # <<>>
        /\ status' = [k \in Jobs |-> IF k \in UNION {Swept(i) : i \in DOMAIN spills}
                                       THEN "done" ELSE status[k]]
    BY <1>6 DEF Sweep
  <2>2. CASE j \in UNION {Swept(i) : i \in DOMAIN spills}
    BY <1>6, <2>1, <2>2 DEF Swept
  <2>3. CASE j \notin UNION {Swept(i) : i \in DOMAIN spills}
    BY <2>1, <2>3
  <2> QED
    BY <2>2, <2>3
<1>7. CASE RefillPage \/ RefillFails \/ ReadCmd \/ Wake \/ Panic
  <2>1. status' = status
    BY <1>7 DEF RefillPage, RefillFails, ReadCmd, Wake, Panic
  <2> QED
    BY <1>1, <2>1
<1>8. ASSUME NEW k \in Jobs, Finish(k)
      PROVE  status'[j] = "pending" \/ Finish(j)
  BY <1>8 DEF Finish, Types
<1>9. ASSUME NEW k \in Jobs,
             Dispatch(k) \/ ReadFinal(k) \/ ReadRetry(k) \/ RetryLater(k) \/ Age(k)
      PROVE  status' = status
  BY <1>9 DEF Dispatch, ReadFinal, ReadRetry, RetryLater, Age
<1> QED
  BY <1>1, <1>2, <1>3, <1>4, <1>5, <1>6, <1>7, <1>8, <1>9
     DEF Next, Handing, Recovering, Looping, Dispatching, ReadDone, Attempting

\* Where a copy comes from.
LEMMA Origins ==
    ASSUME Types, Counting, Next, NEW j \in Jobs
    PROVE  /\ memory'[j] > 0 => \/ memory[j] > 0
                                \/ status[j] = "pending" /\ status'[j] = "pending" /\ recent'
                                \/ ReadCmd /\ j = Head(cmds) /\ AcceptHandoff(j)
                                \/ ReadRetry(j)
           /\ running'[j] > 0 => (running[j] > 0 /\ ~Finish(j)) \/ running[j] - 1 > 0 \/ Dispatch(j)
           /\ retries'[j] > 0 => retries[j] > 0 \/ RetryLater(j)
           /\ j \in present' => \/ j \in present
                                \/ RefillPage /\ spills # <<>> /\ recent'
                                \/ ReadCmd /\ j = Head(cmds) /\ AcceptHandoff(j)
           /\ recent /\ ~recent' => WindowEnds
           /\ QueueExpired(j) => QueueExpired(j)'
<1> USE DEF storeVars, sendVars, pageVars, attemptVars, used
<1> DEFINE Memory == memory'[j] > 0 => \/ memory[j] > 0
                                       \/ status[j] = "pending" /\ status'[j] = "pending" /\ recent'
                                       \/ ReadCmd /\ j = Head(cmds) /\ AcceptHandoff(j)
                                       \/ ReadRetry(j)
           Running == running'[j] > 0 => \/ running[j] > 0 /\ ~Finish(j)
                                         \/ running[j] - 1 > 0 \/ Dispatch(j)
           Retries == retries'[j] > 0 => retries[j] > 0 \/ RetryLater(j)
           Present == j \in present' => \/ j \in present
                                        \/ RefillPage /\ spills # <<>> /\ recent'
                                        \/ ReadCmd /\ j = Head(cmds) /\ AcceptHandoff(j)
           Time == (recent /\ ~recent' => WindowEnds) /\ (QueueExpired(j) => QueueExpired(j)')
           All == Memory /\ Running /\ Retries /\ Present /\ Time
<1> SUFFICES All
  OBVIOUS
<1>0. running' = running => Running
  <2>1. ASSUME running' = running, Finish(j), running[j] > 0 PROVE FALSE
    BY <2>1, SMT DEF Finish, AttemptEnds, Less, Types
  <2> QED
    BY <2>1
<1>1. ASSUME UNCHANGED <<present, memory, running, retries, recent, aged>>
      PROVE  All
  BY <1>0, <1>1 DEF QueueExpired
<1>2. ASSUME NEW w \in Senders, SetQueueKey(w) \/ Send(w)
      PROVE  All
  BY <1>1, <1>2 DEF SetQueueKey, Send
<1>3. ASSUME NEW k, Create(k)
      PROVE  All
  BY <1>1, <1>3 DEF Create
<1>4. CASE RecoverJob \/ Recount \/ FirstPage \/ NothingLeft \/ ReserveRest \/ AttachSpill
  <2>1. UNCHANGED <<present, memory, running, retries, recent, aged>>
    BY <1>4 DEF RecoverJob, Recount, FirstPage, NothingLeft, ReserveRest, AttachSpill, RecoveryStep
  <2> QED
    BY <1>1, <2>1
<1>5. CASE RefillFails \/ Sweep \/ Wake \/ BackoffEnds
  <2>1. UNCHANGED <<present, memory, running, retries, recent, aged>>
    BY <1>5 DEF RefillFails, Sweep, Wake, BackoffEnds
  <2> QED
    BY <1>1, <2>1
<1>6. CASE WindowEnds
  <2>1. UNCHANGED <<present, memory, running, retries, aged>>
    BY <1>6 DEF WindowEnds
  <2> QED
    BY <1>0, <1>6, <2>1 DEF QueueExpired
<1>7. CASE LoopTop
  <2>1. /\ memory' = [k \in Jobs |-> IF k \in {i \in Jobs : memory[i] > 0 /\ QueueExpired(i)}
                                       THEN 0 ELSE memory[k]]
        /\ present' \subseteq present /\ UNCHANGED <<running, retries, recent, aged>>
    BY <1>7 DEF LoopTop
  <2>2. memory'[j] = 0 \/ memory'[j] = memory[j]
    BY <2>1
  <2>3. memory'[j] > 0 => memory[j] > 0
    BY <2>2, SMT
  <2> QED
    BY <1>0, <2>1, <2>3 DEF QueueExpired
<1>8. CASE RefillPage
  <2>1. PICK page \in SUBSET Jobs :
             /\ \A k \in page : status[k] = "pending"
             /\ present' = present \cup page
             /\ memory' = [k \in Jobs |-> memory[k] + IF k \in page \ present THEN 1 ELSE 0]
             /\ recent' = (recent \/ page # {}) /\ spills # <<>>
    BY <1>8, RefilledPage
  <2>2. UNCHANGED <<status, running, retries, aged>>
    BY <1>8 DEF RefillPage
  <2>3. memory'[j] > 0 => memory[j] > 0 \/ j \in page
    BY <2>1, SMT DEF Types
  <2> QED
    BY <1>0, <1>8, <2>1, <2>2, <2>3 DEF QueueExpired
<1>9. CASE ReadCmd
  <2> DEFINE i == Head(cmds)
  <2>1. i \in Jobs
    BY <1>9, ChannelReceive DEF ReadCmd, Types
  <2>2. /\ \/ AcceptHandoff(i) /\ present' = present \cup {i} /\ memory' = Plus(memory, i)
           \/ present' = present /\ memory' = memory
        /\ UNCHANGED <<running, retries, recent, aged>>
    BY <1>9 DEF ReadCmd
  <2>3. \A k \in Jobs \ {i} : Plus(memory, i)[k] = memory[k]
    BY <2>1, CopySteps, CopiesNumbers
  <2> QED
    BY <1>0, <1>9, <2>1, <2>2, <2>3 DEF QueueExpired
<1>10. ASSUME NEW k \in Jobs, Dispatch(k)
       PROVE  All
  <2>1. /\ memory' = Less(memory, k) /\ running' = Plus(running, k)
        /\ UNCHANGED <<present, retries, recent, aged, status>>
    BY <1>10 DEF Dispatch
  <2>2. memory'[j] > 0 => memory[j] > 0
    BY <2>1, CopySteps, CopiesNumbers
  <2>3. j # k => running'[j] = running[j] /\ (running[j] > 0 => ~Finish(j))
    <3>1. j # k => running'[j] = running[j]
      BY <2>1, CopySteps, CopiesNumbers
    <3>2. Finish(j) /\ running[j] > 0 => running'[j] # running[j]
      BY SMT DEF Finish, AttemptEnds, Less, Types
    <3> QED
      BY <3>1, <3>2
  <2> QED
    BY <1>10, <2>1, <2>2, <2>3 DEF QueueExpired
<1>11. ASSUME NEW k \in Jobs, ReadFinal(k)
       PROVE  All
  <2>1. present' \subseteq present /\ UNCHANGED <<memory, running, retries, recent, aged>>
    BY <1>11 DEF ReadFinal
  <2> QED
    BY <1>0, <2>1 DEF QueueExpired
<1>12. ASSUME NEW k \in Jobs, ReadRetry(k)
       PROVE  All
  <2>1. /\ memory' = Plus(memory, k) /\ retries' = Less(retries, k)
        /\ UNCHANGED <<present, running, recent, aged>>
    BY <1>12 DEF ReadRetry
  <2>2. /\ j # k => memory'[j] = memory[j]
        /\ retries'[j] > 0 => retries[j] > 0
    BY <2>1, CopySteps, CopiesNumbers
  <2> QED
    BY <1>0, <1>12, <2>1, <2>2 DEF QueueExpired
<1>13. ASSUME NEW k \in Jobs, Finish(k) \/ RetryLater(k)
       PROVE  All
  <2>1. /\ running' = Less(running, k)
        /\ retries' = retries \/ (RetryLater(k) /\ retries' = Plus(retries, k))
        /\ UNCHANGED <<present, memory, recent, aged>>
    BY <1>13 DEF Finish, RetryLater, AttemptEnds
  <2>2. Retries
    <3>1. j # k => Plus(retries, k)[j] = retries[j]
      BY CopySteps, CopiesNumbers
    <3> QED
      BY <2>1, <3>1
  <2>3. Running
    <3>1. CASE j = k
      BY <2>1, <3>1, CopySteps, CopiesNumbers
    <3>2. CASE j # k
      <4>1. running'[j] = running[j]
        BY <2>1, <3>2, CopySteps, CopiesNumbers
      <4>2. Finish(j) /\ running[j] > 0 => running'[j] # running[j]
        BY SMT DEF Finish, AttemptEnds, Less, Types
      <4> QED
        BY <4>1, <4>2
    <3> QED
      BY <3>1, <3>2
  <2> QED
    BY <2>1, <2>2, <2>3 DEF QueueExpired
<1>14. CASE Panic
  <2>1. /\ memory' = None /\ present' = {} /\ recent' = TRUE
        /\ UNCHANGED <<running, retries, aged>>
    BY <1>14 DEF Panic
  <2>2. ~(None[j] > 0)
    BY SMT DEF None
  <2> QED
    BY <1>0, <2>1, <2>2 DEF QueueExpired
<1>15. ASSUME NEW k \in Jobs, Age(k)
       PROVE  All
  <2>1. /\ aged < k /\ aged' = k /\ UNCHANGED <<present, memory, running, retries, recent>>
    BY <1>15 DEF Age
  <2>2. QueueExpired(j) => QueueExpired(j)'
    <3>1. aged \in Nat /\ k \in Nat /\ j \in Nat
      BY JobsNumbers, SMT DEF Types
    <3> QED
      BY <2>1, <3>1, SMT DEF QueueExpired
  <2> QED
    BY <1>0, <2>1, <2>2
<1> HIDE DEF All
<1>16. Looping => All
  BY <1>5, <1>7, <1>8, <1>9, <1>10, <1>11, <1>12 DEF Looping, Dispatching, ReadDone
<1>17. Handing \/ Recovering \/ Attempting => All
  BY <1>2, <1>4, <1>13 DEF Handing, Recovering, Attempting
<1> QED
  BY <1>3, <1>5, <1>6, <1>14, <1>15, <1>16, <1>17 DEF Next

\* What recovery has seen stays seen, and it does not start again.
LEMMA RecoveryGoesOn ==
    ASSUME Types, Counting, Next
    PROVE  /\ rec.seen \subseteq rec'.seen
           /\ rec'.at # "done" => rec.at # "done" /\ ~AttachSpill
<1> USE DEF storeVars, sendVars, pageVars, attemptVars, used
<1>1. CASE RecoverJob \/ Recount \/ FirstPage \/ NothingLeft \/ ReserveRest \/ AttachSpill
  <2>1. rec.seen \subseteq rec'.seen
    BY <1>1, RecoverySteps
  <2>2. rec'.at # "done" => rec.at # "done" /\ ~AttachSpill
    BY <1>1, RecoverySteps DEF Counting
  <2> QED
    BY <2>1, <2>2
<1>2. CASE rec' = rec
  <2>1. rec'.at # "done" => ~AttachSpill
    BY RecoverySteps
  <2> QED
    BY <1>2, <2>1
<1>3. ASSUME NEW w \in Senders, SetQueueKey(w) \/ Send(w)
      PROVE  rec' = rec
  BY <1>3 DEF SetQueueKey, Send
<1>4. ASSUME NEW j,
             \/ Create(j) \/ Dispatch(j) \/ ReadFinal(j) \/ ReadRetry(j) \/ Finish(j)
             \/ RetryLater(j) \/ Age(j)
      PROVE  rec' = rec
  BY <1>4 DEF Create, Dispatch, ReadFinal, ReadRetry, Finish, RetryLater, AttemptEnds, Age
<1>5. CASE LoopTop \/ RefillPage \/ RefillFails \/ ReadCmd \/ Sweep \/ Wake \/ Panic \/ WindowEnds
           \/ BackoffEnds
  <2>1. rec' = rec
    BY <1>5 DEF LoopTop, RefillPage, RefillFails, ReadCmd, Sweep, Wake, Panic, WindowEnds, BackoffEnds
  <2> QED
    BY <1>2, <2>1
<1> QED
  BY <1>1, <1>2, <1>3, <1>4, <1>5
     DEF Next, Handing, Recovering, Looping, Dispatching, ReadDone, Attempting

\* A panic is remembered.
LEMMA PanickedStays ==
    ASSUME Next, panicked
    PROVE  panicked'
<1> USE DEF storeVars, sendVars, pageVars, attemptVars, used
<1>1. CASE RecoverJob \/ Recount \/ FirstPage \/ NothingLeft \/ ReserveRest \/ AttachSpill
  BY <1>1 DEF RecoverJob, Recount, FirstPage, NothingLeft, ReserveRest, AttachSpill, RecoveryStep
<1>2. ASSUME NEW w \in Senders, SetQueueKey(w) \/ Send(w)
      PROVE  panicked'
  BY <1>2 DEF SetQueueKey, Send
<1>3. ASSUME NEW j,
             \/ Create(j) \/ Dispatch(j) \/ ReadFinal(j) \/ ReadRetry(j) \/ Finish(j)
             \/ RetryLater(j) \/ Age(j)
      PROVE  panicked'
  BY <1>3 DEF Create, Dispatch, ReadFinal, ReadRetry, Finish, RetryLater, AttemptEnds, Age
<1>4. CASE LoopTop \/ RefillPage \/ RefillFails \/ ReadCmd \/ Sweep \/ Wake \/ Panic \/ WindowEnds
           \/ BackoffEnds
  BY <1>4 DEF LoopTop, RefillPage, RefillFails, ReadCmd, Sweep, Wake, Panic, WindowEnds, BackoffEnds
<1> QED
  BY <1>1, <1>2, <1>3, <1>4
     DEF Next, Handing, Recovering, Looping, Dispatching, ReadDone, Attempting

\* Without a panic no step changes a stored job before recovery has seen it.
LEMMA UntouchedStep ==
    ASSUME Types, Handed, Counting, ComesOnce, HeldOnce, Untouched, Next, ~Panic
    PROVE  Untouched'
<1> USE DEF storeVars, sendVars, pageVars, attemptVars, used
<1> SUFFICES ASSUME rec'.at # "done" PROVE Untouched'
  BY DEF Untouched
<1>1. rec.at # "done" /\ rec.seen \subseteq rec'.seen /\ ~AttachSpill
  BY RecoveryGoesOn
<1>2. /\ spills = <<>> /\ attached = <<>>
      /\ \A j \in Old \ rec.seen : j \notin present /\ status[j] = "pending"
  BY <1>1 DEF Untouched
<1>3. ~RefillPage /\ ~Sweep
  BY <1>2 DEF RefillPage, Sweep, Counting
<1>4. spills' = <<>> /\ attached' = <<>>
  <2>1. CASE UNCHANGED <<spills, attached>>
    BY <1>2, <2>1
  <2>2. CASE LoopTop
    <3>1. <<>> \o <<>> = <<>>
      BY SMT
    <3> QED
      BY <1>2, <2>2, <3>1 DEF LoopTop
  <2>3. CASE RecoverJob \/ Recount \/ FirstPage \/ NothingLeft \/ ReserveRest
    <3>1. UNCHANGED <<spills, attached>>
      BY <2>3 DEF RecoverJob, Recount, FirstPage, NothingLeft, ReserveRest, RecoveryStep
    <3> QED
      BY <2>1, <3>1
  <2>4. ASSUME NEW w \in Senders, SetQueueKey(w) \/ Send(w)
        PROVE  UNCHANGED <<spills, attached>>
    BY <2>4 DEF SetQueueKey, Send
  <2>5. ASSUME NEW j,
               \/ Create(j) \/ Dispatch(j) \/ ReadFinal(j) \/ ReadRetry(j) \/ Finish(j)
               \/ RetryLater(j) \/ Age(j)
        PROVE  UNCHANGED <<spills, attached>>
    BY <2>5 DEF Create, Dispatch, ReadFinal, ReadRetry, Finish, RetryLater, AttemptEnds, Age
  <2>6. CASE RefillFails \/ ReadCmd \/ Wake \/ WindowEnds \/ BackoffEnds
    <3>1. UNCHANGED <<spills, attached>>
      BY <2>6 DEF RefillFails, ReadCmd, Wake, WindowEnds, BackoffEnds
    <3> QED
      BY <2>1, <3>1
  <2> QED
    BY <1>1, <1>3, <2>1, <2>2, <2>3, <2>4, <2>5, <2>6
       DEF Next, Handing, Recovering, Looping, Dispatching, ReadDone, Attempting
<1>5. ASSUME NEW j \in Old \ rec'.seen
      PROVE  j \notin present' /\ status'[j] = "pending"
  <2>1. j \in Jobs /\ j \notin rec.seen /\ j \notin present /\ status[j] = "pending"
    BY <1>1, <1>2, OldNotLive
  <2>2. ReadCmd => j # Head(cmds)
    <3>1. ReadCmd => Head(cmds) \in Range(cmds)
      BY ChannelReceive DEF ReadCmd, Types
    <3> QED
      BY <2>1, <3>1 DEF ComesOnce, Coming
  <2>3. j \notin present'
    BY <1>3, <2>1, <2>2, Origins
  <2>4. ~(memory[j] > 0) /\ ~(running[j] > 0)
    BY <2>1, HeldFacts
  <2>5. ~Finish(j)
    BY <2>4 DEF Finish, AttemptEnds
  <2> QED
    BY <1>3, <2>1, <2>3, <2>4, <2>5, RowsStay
<1> QED
  BY <1>4, <1>5 DEF Untouched

\* A job comes to be on the way from Create or from recovery.
LEMMA ComingSteps ==
    ASSUME Types, Handed, Next, NEW j \in Jobs, Coming(j)'
    PROVE  \/ Coming(j)
           \/ j \in Live /\ Create(j)
           \/ RecoverJob /\ j = Min(rec.todo) /\ j \notin rec.seen
<1> USE DEF storeVars, sendVars, pageVars, attemptVars, used
<1>0. "live" \in Senders /\ "recovery" \in Senders /\ j # 0
  BY SenderSteps DEF Senders
<1>1. CASE UNCHANGED <<sender, cmds>>
  BY <1>1 DEF Coming
<1>2. ASSUME NEW w \in Senders, SetQueueKey(w)
      PROVE  Coming(j)
  <2>1. sender[w].job \in Jobs
    BY <1>2, SenderFacts DEF SetQueueKey
  <2>2. \A v \in Senders : sender'[v].job = sender[v].job
    BY <1>2, <2>1, SenderSteps DEF SetQueueKey
  <2> QED
    BY <1>2, <2>2 DEF Coming, SetQueueKey
<1>3. ASSUME NEW w \in Senders, Send(w)
      PROVE  Coming(j)
  <2>1. sender[w].job \in Jobs
    BY <1>3, SenderFacts DEF Send
  <2>2. \A v \in Senders : sender'[v] = sender[v] \/ sender'[v].job = 0
    BY <1>3, <2>1, SenderSteps DEF Send
  <2>3. Range(cmds') = Range(cmds) \cup {sender[w].job}
    BY <1>3, SendCmds
  <2> QED
    BY <1>0, <2>2, <2>3 DEF Coming
<1>4. ASSUME NEW k \in Live, Create(k)
      PROVE  Coming(j) \/ (j \in Live /\ Create(j))
  <2>1. k \in Jobs
    BY DEF Jobs
  <2>2. \A v \in Senders : sender'[v] = sender[v] \/ sender'[v].job = k
    BY <1>0, <1>4, <2>1, SenderSteps, SMT DEF Create, Reserve
  <2> QED
    BY <1>4, <2>2 DEF Coming, Create
<1>5. CASE RecoverJob
  <2> DEFINE i == Min(rec.todo)
  <2>1. /\ i \in rec.todo
        /\ \/ sender' = sender
           \/ /\ i \notin rec.seen
              /\ sender' = [sender EXCEPT !["recovery"] = [job |-> i, call |-> "key"]]
    BY <1>5, RecoverySteps
  <2>2. cmds' = cmds
    BY <1>5 DEF RecoverJob, RecoveryStep
  <2>3. i \in Jobs
    BY <2>1, SMT DEF Types, RecoveryStates
  <2>4. CASE sender' = sender
    BY <1>1, <2>2, <2>4
  <2>5. CASE i \notin rec.seen /\ sender' = [sender EXCEPT !["recovery"] = [job |-> i, call |-> "key"]]
    <3>1. \A v \in Senders : sender'[v] = sender[v] \/ sender'[v].job = i
      BY <1>0, <2>3, <2>5, SenderSteps, SMT
    <3> QED
      BY <1>5, <2>2, <2>5, <3>1 DEF Coming
  <2> QED
    BY <2>1, <2>4, <2>5
<1>6. CASE ReadCmd
  <2>1. Range(cmds') \subseteq Range(cmds)
    BY <1>6, ChannelReceive DEF ReadCmd, Types
  <2> QED
    BY <1>6, <2>1 DEF ReadCmd, Coming
<1>7. CASE Recount \/ FirstPage \/ NothingLeft \/ ReserveRest \/ AttachSpill
  <2>1. UNCHANGED <<sender, cmds>>
    BY <1>7 DEF Recount, FirstPage, NothingLeft, ReserveRest, AttachSpill, RecoveryStep
  <2> QED
    BY <1>1, <2>1
<1>8. CASE LoopTop \/ RefillPage \/ RefillFails \/ Sweep \/ Wake \/ Panic \/ WindowEnds
           \/ BackoffEnds
  <2>1. UNCHANGED <<sender, cmds>>
    BY <1>8 DEF LoopTop, RefillPage, RefillFails, Sweep, Wake, Panic, WindowEnds, BackoffEnds
  <2> QED
    BY <1>1, <2>1
<1>9. ASSUME NEW k \in Jobs,
             Dispatch(k) \/ ReadFinal(k) \/ ReadRetry(k) \/ Finish(k) \/ RetryLater(k) \/ Age(k)
      PROVE  Coming(j)
  <2>1. UNCHANGED <<sender, cmds>>
    BY <1>9 DEF Dispatch, ReadFinal, ReadRetry, Finish, RetryLater, AttemptEnds, Age
  <2> QED
    BY <2>1 DEF Coming
<1> QED
  BY <1>2, <1>3, <1>4, <1>5, <1>6, <1>7, <1>8, <1>9
     DEF Next, Handing, Recovering, Looping, Dispatching, ReadDone, Attempting

\* Without a panic no step lets a finished job run again.
LEMMA RunsUnfinishedStep ==
    ASSUME Types, Handed, Counting, ComesOnce, ComesOnce', HeldOnce, Untouched, RunsUnfinished,
           Next, ~Panic
    PROVE  RunsUnfinished'
<1> USE DEF storeVars, sendVars, pageVars, attemptVars, used
<1>0. Guarded' \subseteq Guarded
  <2>1. rec.seen \subseteq rec'.seen
    BY RecoveryGoesOn
  <2> QED
    BY <2>1 DEF Guarded
<1> SUFFICES ASSUME NEW j \in Guarded'
             PROVE  /\ running'[j] > 0 \/ retries'[j] > 0 => status'[j] = "pending"
                    /\ memory'[j] > 0 => Unfinished(j)'
                    /\ ~recent' /\ Coming(j)' => j \notin present' /\ Unfinished(j)'
  BY DEF RunsUnfinished
<1>1. j \in Guarded /\ j \in Jobs
  BY <1>0 DEF Guarded
<1>2. /\ running[j] > 0 \/ retries[j] > 0 => status[j] = "pending"
      /\ memory[j] > 0 => Unfinished(j)
      /\ ~recent /\ Coming(j) => j \notin present /\ Unfinished(j)
  BY <1>1 DEF RunsUnfinished
<1>3. Unfinished(j) => Unfinished(j)' \/ (Finish(j) /\ running[j] > 0)
  <2>1. CASE QueueExpired(j)
    BY <1>1, <2>1, Origins DEF Unfinished
  <2>2. CASE status[j] = "pending" /\ ~QueueExpired(j)
    BY <1>1, <2>2, RowsStay DEF Unfinished, Finish, AttemptEnds
  <2> QED
    BY <2>1, <2>2 DEF Unfinished
<1>4. ASSUME running'[j] > 0 PROVE status'[j] = "pending"
  <2>1. CASE running[j] > 0 /\ ~Finish(j)
    <3>1. j \in present /\ ~(memory[j] > 0)
      BY <1>1, <2>1, HeldFacts
    <3> QED
      BY <1>1, <1>2, <2>1, <3>1, RowsStay
  <2>2. CASE Dispatch(j)
    BY <1>2, <2>2 DEF Dispatch, Unfinished
  <2>3. CASE running[j] - 1 > 0
    <3>1. running[j] > 0
      BY <1>1, <2>3, SMT DEF Types
    <3> QED
      BY <1>1, <2>3, <3>1, HeldFacts
  <2> QED
    BY <1>1, <1>4, <2>1, <2>2, <2>3, Origins
<1>5. ASSUME retries'[j] > 0 PROVE status'[j] = "pending"
  <2>1. CASE retries[j] > 0
    <3>1. j \in present /\ ~(memory[j] > 0) /\ ~(running[j] > 0)
      BY <1>1, <2>1, HeldFacts
    <3>2. ~Finish(j)
      BY <3>1 DEF Finish, AttemptEnds
    <3> QED
      BY <1>1, <1>2, <2>1, <3>1, <3>2, RowsStay
  <2>2. CASE RetryLater(j)
    BY <1>2, <2>2 DEF RetryLater, AttemptEnds
  <2> QED
    BY <1>1, <1>5, <2>1, <2>2, Origins
<1>6. ReadCmd /\ j = Head(cmds) /\ AcceptHandoff(j) => Unfinished(j)'
  <2> SUFFICES ASSUME ReadCmd, j = Head(cmds), AcceptHandoff(j) PROVE Unfinished(j)'
    OBVIOUS
  <2>1. Coming(j)
    BY ChannelReceive DEF ReadCmd, Types, Coming
  <2>2. Unfinished(j)
    BY <1>2, <2>1 DEF AcceptHandoff, Unfinished
  <2> QED
    BY <2>2 DEF ReadCmd, Unfinished, QueueExpired
<1>7. ASSUME memory'[j] > 0 PROVE Unfinished(j)'
  <2>1. CASE memory[j] > 0
    BY <1>1, <1>2, <1>3, <2>1, HeldFacts
  <2>2. CASE status'[j] = "pending"
    BY <2>2 DEF Unfinished
  <2>3. CASE ReadRetry(j)
    BY <1>2, <2>3 DEF ReadRetry, Unfinished
  <2> QED
    BY <1>1, <1>6, <1>7, <2>1, <2>2, <2>3, Origins
<1>8. ASSUME ~recent', Coming(j)' PROVE j \notin present' /\ Unfinished(j)'
  <2>1. ~recent
    <3> SUFFICES ASSUME recent PROVE FALSE
      OBVIOUS
    <3>1. WindowEnds
      BY <1>1, <1>8, Origins
    <3>2. Range(cmds') = {} /\ \A w \in Senders : sender'[w].job = 0
      <4>1. Range(<<>>) = {} /\ Idle.job = 0
        BY SMT DEF Range, Idle
      <4> QED
        BY <3>1, <4>1 DEF WindowEnds
    <3>3. j # 0
      BY <1>1, SenderSteps DEF Senders
    <3> QED
      BY <1>8, <3>2, <3>3 DEF Coming
  <2>2. CASE Coming(j)
    <3>1. j \notin present /\ Unfinished(j)
      BY <1>2, <2>1, <2>2
    <3>2. Unfinished(j)'
      BY <1>1, <1>3, <3>1, HeldFacts
    <3>3. ~(ReadCmd /\ j = Head(cmds))
      <4> SUFFICES ASSUME ReadCmd, j = Head(cmds) PROVE FALSE
        OBVIOUS
      <4>1. /\ j = cmds[1] /\ Len(cmds) \in Nat /\ Len(cmds) > 0 /\ cmds' = Tail(cmds)
            /\ Len(cmds') = Len(cmds) - 1 /\ cmds' \in Seq(Jobs) /\ j \in Range(cmds)
            /\ \A a \in 1..(Len(cmds) - 1) : cmds'[a] = cmds[a + 1]
        BY ChannelReceive DEF ReadCmd, Types
      <4>2. \A w \in Senders : sender'[w].job # j
        BY <1>1, <4>1 DEF ComesOnce, ReadCmd
      <4>3. PICK a \in DOMAIN cmds' : cmds'[a] = j
        BY <1>8, <4>2 DEF Coming, Range
      <4>4. a \in 1..(Len(cmds) - 1) /\ a + 1 \in 1..Len(cmds) /\ 1 \in 1..Len(cmds) /\ a + 1 # 1
        BY <4>1, <4>3, SMT
      <4> QED
        BY <1>1, <4>1, <4>3, <4>4 DEF ComesOnce
    <3> QED
      BY <1>1, <1>8, <3>1, <3>2, <3>3, Origins
  <2>3. CASE j \in Live /\ Create(j)
    <3>1. status[j] = "none" /\ status'[j] = "pending" /\ present' = present
      BY <1>1, <2>3 DEF Create, Types
    <3> QED
      BY <1>1, <3>1 DEF ComesOnce, Unfinished
  <2>4. CASE RecoverJob /\ j = Min(rec.todo) /\ j \notin rec.seen
    <3>1. rec.todo # {} /\ rec'.seen = rec.seen \cup {j}
      BY <2>4, RecoverySteps
    <3>2. j \in Old \ rec.seen
      BY <1>1, <2>4, <3>1 DEF Guarded, Jobs
    <3>3. rec.at # "done"
      BY <3>1 DEF Counting
    <3>4. j \notin present /\ status[j] = "pending"
      BY <3>2, <3>3 DEF Untouched
    <3> QED
      BY <2>4, <3>4 DEF RecoverJob, RecoveryStep, Unfinished
  <2> QED
    BY <1>1, <1>8, <2>2, <2>3, <2>4, ComingSteps
<1> QED
  BY <1>4, <1>5, <1>7, <1>8

-----------------------------------------------------------------------------
\* Init gives the invariant.
LEMMA AgainInit == Init => AgainInv
<1> SUFFICES ASSUME Init PROVE AgainInv
  OBVIOUS
<1>1. Types
  BY LostInit DEF LostInv
<1>2. /\ Range(cmds) = {} /\ Len(cmds) = 0
      /\ rec.seen = {} /\ rec.todo = Old \ keyed
      /\ \A w \in Senders : sender[w].job = 0
  BY SMT DEF Init, Range, Idle
<1>3. 1..0 = {}
  BY SMT
<1>4. \A j \in Jobs : ~Coming(j)
  BY <1>1, <1>2, SenderSteps DEF Coming, Senders
<1>5. \A j \in Jobs : status[j] = "none" => j \notin Old
  BY DEF Init
<1>6. 0 \notin Jobs
  BY <1>1, SenderSteps DEF Senders
<1>7. ComesOnce
  BY <1>2, <1>3, <1>4, <1>5, <1>6, OldNotLive DEF ComesOnce, Guarded, Init
<1>8. HeldOnce
  BY SMT DEF Init, HeldOnce, None
<1>9. Untouched
  BY OldNotLive DEF Init, Untouched
<1>10. RunsUnfinished
  <2>1. \A j \in Jobs : ~(None[j] > 0)
    BY SMT DEF None
  <2> QED
    BY <1>4, <2>1 DEF Init, RunsUnfinished, Guarded
<1> QED
  BY <1>7, <1>8, <1>9, <1>10 DEF AgainInv

\* Every step keeps the invariant.
LEMMA AgainNext == LostInv /\ LostInv' /\ AgainInv /\ [Next]_vars => AgainInv'
<1>1. ASSUME AgainInv, UNCHANGED vars PROVE AgainInv'
  BY <1>1 DEF vars, storeVars, sendVars, pageVars, attemptVars, used, AgainInv, ComesOnce, Coming,
              Guarded, HeldOnce, Untouched, RunsUnfinished, Unfinished, QueueExpired
<1>2. ASSUME LostInv, LostInv', AgainInv, Next PROVE AgainInv'
  <2>1. Types /\ Types' /\ Handed /\ Counting /\ ComesOnce
    BY <1>2 DEF LostInv, AgainInv
  <2>2. ComesOnce'
    BY <1>2, <2>1, ComesOnceStep
  <2>3. ASSUME ~panicked' PROVE ~panicked /\ ~Panic
    BY <1>2, <2>3, PanickedStays DEF Panic
  <2>4. ASSUME ~panicked' PROVE HeldOnce' /\ Untouched' /\ RunsUnfinished'
    <3>1. HeldOnce /\ Untouched /\ RunsUnfinished /\ ~Panic
      BY <1>2, <2>3, <2>4 DEF AgainInv
    <3> QED
      BY <1>2, <2>1, <2>2, <3>1, HeldOnceStep, UntouchedStep, RunsUnfinishedStep
  <2> QED
    BY <2>2, <2>4 DEF AgainInv
<1> QED
  BY <1>1, <1>2

\* One copy of a row that is not finished.
LEMMA AgainImplies == LostInv /\ AgainInv => NotRunAgain
<1> SUFFICES ASSUME LostInv, AgainInv, ~panicked, NEW j \in Jobs \ (Live \cap rec.seen)
             PROVE  /\ memory[j] + running[j] + finals[j] + retries[j] <= 1
                    /\ memory[j] > 0 => status[j] = "pending" \/ QueueExpired(j)
  BY DEF NotRunAgain
<1>1. HeldOnce /\ RunsUnfinished /\ j \in Guarded /\ j \in Jobs
  BY DEF AgainInv, Guarded
<1>2. memory[j] + running[j] + finals[j] + retries[j] <= 1
  BY <1>1, SMT DEF HeldOnce
<1> QED
  BY <1>1, <1>2 DEF RunsUnfinished, Unfinished

\* NotRunAgain holds: without a panic the queue holds a job once and what it
\* holds to dispatch has an unfinished row or is past its deadline, although
\* jobs reach it from pages and from hand-offs that cross them.
THEOREM NotRunAgainCorrect == Spec => []NotRunAgain
<1>1. Init => LostInv /\ AgainInv
  BY LostInit, AgainInit
<1>2. LostInv /\ AgainInv /\ [Next]_vars => (LostInv /\ AgainInv)'
  BY LostNext, AgainNext
<1>3. LostInv /\ AgainInv => NotRunAgain
  BY AgainImplies
<1> QED
  BY <1>1, <1>2, <1>3, PTL DEF Spec
=============================================================================
