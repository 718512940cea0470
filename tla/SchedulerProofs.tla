--------------------------- MODULE SchedulerProofs ---------------------------
(***************************************************************************)
(* The scheduler's queue, for any threads, tasks and delays: the count of  *)
(* the threads in service is exact, and a task starts before its time only *)
(* in a thread whose wait was for a task that another thread took.         *)
(***************************************************************************)
EXTENDS Scheduler, FiniteSetTheorems, SequenceTheorems, NaturalsInduction,
        WellFoundedInduction, TLAPS

QueueEntries == [task : Tasks, left : 0..MaxDelay]
States == {"new", "waiting", "woken", "running", "gone"}

\* The multimap keeps its entries in the order of their times.
Sorted(q) == \A i \in DOMAIN q : \A j \in DOMAIN q : i < j => q[i].left <= q[j].left

Queued(q) == {q[i].task : i \in DOMAIN q}

\* The threads in service when the threads are in states st.
Serving(st) == {h \in Threads : st[h] \in {"waiting", "woken", "running"}}

\* A thread waits for the time of a task that is in the queue, unless another
\* thread has taken that.
WaitsForQueued == \A h \in Threads : waitsFor[h] \in Queued(taskQueue) \cup {None, Erased}

QueueInv ==
    /\ taskQueue \in Seq(QueueEntries)
    /\ Sorted(taskQueue)
    /\ WaitsForQueued

ServiceInv ==
    /\ thread \in [Threads -> States]
    /\ nThreadsServicingQueue = Cardinality(Serving(thread))

ControlInv ==
    /\ waitsFor \in [Threads -> Tasks \cup {None, Erased}]
    /\ runs \in [Threads -> Tasks \cup {None}]
    /\ stopRequested \in BOOLEAN /\ stopWhenEmpty \in BOOLEAN /\ interrupted \in BOOLEAN
    /\ client \subseteq Tasks

SchedulerInv == QueueInv /\ ServiceInv /\ ControlInv

-----------------------------------------------------------------------------
(* The queue.                                                               *)

\* A set of natural numbers has a least one.
LEMMA LeastNumber ==
  ASSUME NEW T \in SUBSET Nat, T # {}
  PROVE  \E x \in T : \A y \in T : x <= y
<1> DEFINE R == OpToRel(<, Nat)
<1>1. IsWellFoundedOn(R, Nat)
  BY NatLessThanWellFounded
<1> HIDE DEF R
<1>2. PICK x \in T : \A y \in T : ~ (<<y, x>> \in R)
  BY <1>1, WFMin
<1>3. \A y \in T : <<y, x>> \in R <=> y < x
  BY DEF R, OpToRel
<1>4. ASSUME NEW y \in T
      PROVE  x <= y
  <2>1. x \in Nat /\ y \in Nat /\ ~ (y < x)
    BY <1>2, <1>3
  <2> QED BY <2>1
<1> QED BY <1>4

\* In a sorted queue the entries that are due by a time are the first ones.
LEMMA UpperBoundIs ==
  ASSUME NEW q \in Seq(QueueEntries), Sorted(q), NEW d \in Nat
  PROVE  /\ UpperBound(q, d) \in 0..Len(q)
         /\ \A i \in DOMAIN q : q[i].left <= d <=> i <= UpperBound(q, d)
<1>1. Len(q) \in Nat /\ DOMAIN q = 1..Len(q) /\ \A i \in 1..Len(q) : q[i].left \in Nat
  <2>1. \A i \in 1..Len(q) : q[i] \in QueueEntries
    BY ElementOfSeq
  <2> QED BY <2>1, LenProperties DEF QueueEntries
<1> DEFINE L == {i \in 1..Len(q) : q[i].left > d}
<1>2. \E u \in 0..Len(q) : \A i \in DOMAIN q : q[i].left <= d <=> i <= u
  <2>1. CASE L = {}
    <3>1. \A i \in 1..Len(q) : q[i].left <= d /\ i <= Len(q)
      BY <1>1, <2>1
    <3>2. Len(q) \in 0..Len(q)
      BY <1>1
    <3> HIDE DEF L
    <3> QED BY <1>1, <3>1, <3>2
  <2>2. CASE L # {}
    <3>1. L \in SUBSET Nat
      OBVIOUS
    <3>2. PICK m \in L : \A i \in L : m <= i
      BY <2>2, <3>1, LeastNumber
    <3>3. m \in 1..Len(q) /\ q[m].left > d /\ m - 1 \in 0..Len(q)
      BY <1>1, <3>2
    <3>4. ASSUME NEW i \in 1..Len(q)
          PROVE  q[i].left <= d <=> i <= m - 1
      <4>1. CASE i < m
        <5>1. i \notin L
          BY <1>1, <3>2, <3>3, <4>1
        <5> QED BY <1>1, <3>3, <4>1, <5>1
      <4>2. CASE ~ (i < m)
        <5>1. q[m].left <= q[i].left
          BY <1>1, <3>3, <4>2 DEF Sorted
        <5> QED BY <1>1, <3>3, <4>2, <5>1
      <4> QED BY <4>1, <4>2
    <3> QED BY <1>1, <3>3, <3>4
  <2> QED BY <2>1, <2>2
<1> QED BY <1>2 DEF UpperBound

\* Inserting keeps the order, and what was in the queue.
LEMMA InsertSorted ==
  ASSUME NEW q \in Seq(QueueEntries), Sorted(q), NEW t \in Tasks, NEW d \in 0..MaxDelay
  PROVE  /\ Insert(q, t, d) \in Seq(QueueEntries)
         /\ Sorted(Insert(q, t, d))
         /\ Queued(q) \subseteq Queued(Insert(q, t, d))
<1> DEFINE u == UpperBound(q, d)
           e == [task |-> t, left |-> d]
           n == Len(q)
           p == Insert(q, t, d)
<1>1. n \in Nat /\ DOMAIN q = 1..n /\ \A i \in 1..n : q[i] \in QueueEntries /\ q[i].left \in Nat
  <2>1. \A i \in 1..Len(q) : q[i] \in QueueEntries
    BY ElementOfSeq
  <2> QED BY <2>1, LenProperties DEF QueueEntries
<1>2. d \in Nat /\ e \in QueueEntries /\ e.left = d
  BY SchedulerAssumption DEF QueueEntries
<1>3. u \in 0..n /\ \A i \in 1..n : q[i].left <= d <=> i <= u
  BY <1>1, <1>2, UpperBoundIs
<1> HIDE DEF u, e, n
<1>4. p = [i \in 1..(n + 1) |-> IF i <= u THEN q[i] ELSE IF i = u + 1 THEN e ELSE q[i - 1]]
  BY DEF Insert, u, e, n
<1>5. /\ DOMAIN p = 1..(n + 1)
      /\ \A i \in 1..n : i <= u => p[i] = q[i]
      /\ p[u + 1] = e
      /\ \A i \in 1..(n + 1) : i > u + 1 => p[i] = q[i - 1] /\ i - 1 \in 1..n
  BY <1>1, <1>3, <1>4
<1> HIDE DEF p
<1>6. \A i \in 1..(n + 1) : \/ i \in 1..n /\ i <= u
                            \/ i = u + 1
                            \/ i > u + 1
  BY <1>1, <1>3
<1>7. p \in Seq(QueueEntries)
  <2>1. \A i \in 1..(n + 1) : p[i] \in QueueEntries
    BY <1>1, <1>2, <1>5, <1>6
  <2>2. p = [i \in 1..(n + 1) |-> p[i]]
    BY <1>4
  <2>3. p \in [1..(n + 1) -> QueueEntries]
    BY <2>1, <2>2
  <2> QED BY <1>1, <2>3, SeqDef
<1>8. Sorted(p)
  <2>1. SUFFICES ASSUME NEW i \in 1..(n + 1), NEW j \in 1..(n + 1), i < j
                 PROVE  p[i].left <= p[j].left
    BY <1>5 DEF Sorted
  <2>2. \A k \in 1..n : k > u => d <= q[k].left
    BY <1>1, <1>2, <1>3
  <2>3. CASE i <= u
    <3>1. i \in 1..n /\ p[i] = q[i] /\ q[i].left <= d
      BY <1>1, <1>3, <1>5, <2>3
    <3>2. CASE j <= u
      BY <1>1, <1>3, <1>5, <2>1, <3>1, <3>2 DEF Sorted
    <3>3. CASE j = u + 1
      BY <1>2, <1>5, <3>1, <3>3
    <3>4. CASE j > u + 1
      <4>1. p[j] = q[j - 1] /\ j - 1 \in 1..n /\ j - 1 > u
        BY <1>3, <1>5, <3>4
      <4> QED BY <1>1, <1>2, <2>2, <3>1, <4>1
    <3> QED BY <1>3, <3>2, <3>3, <3>4
  <2>4. CASE i = u + 1
    <3>1. p[j] = q[j - 1] /\ j - 1 \in 1..n /\ j - 1 > u
      BY <1>3, <1>5, <2>1, <2>4
    <3> QED BY <1>2, <1>5, <2>2, <2>4, <3>1
  <2>5. CASE i > u + 1
    <3>1. /\ p[i] = q[i - 1] /\ i - 1 \in 1..n
          /\ p[j] = q[j - 1] /\ j - 1 \in 1..n /\ i - 1 < j - 1
      BY <1>3, <1>5, <2>1, <2>5
    <3> QED BY <1>1, <3>1 DEF Sorted
  <2> QED BY <1>3, <2>3, <2>4, <2>5
<1>9. ASSUME NEW i \in 1..n
      PROVE  \E j \in 1..(n + 1) : p[j].task = q[i].task
  <2>1. CASE i <= u
    BY <1>1, <1>5, <2>1
  <2>2. CASE ~ (i <= u)
    <3>1. i + 1 \in 1..(n + 1) /\ i + 1 > u + 1 /\ (i + 1) - 1 = i
      BY <1>1, <1>3, <2>2
    <3> QED BY <1>5, <3>1
  <2> QED BY <2>1, <2>2
<1>10. Queued(q) \subseteq Queued(p)
  BY <1>1, <1>5, <1>9 DEF Queued
<1> QED BY <1>7, <1>8, <1>10 DEF p

\* Taking the first entry does, but for its task.
LEMMA TailSorted ==
  ASSUME NEW q \in Seq(QueueEntries), Sorted(q), q # <<>>
  PROVE  /\ Tail(q) \in Seq(QueueEntries) /\ Sorted(Tail(q)) /\ q[1] \in QueueEntries
         /\ Queued(q) \subseteq Queued(Tail(q)) \cup {q[1].task}
<1>1. Len(q) \in Nat /\ Len(q) > 0 /\ DOMAIN q = 1..Len(q)
  BY EmptySeq, LenProperties
<1>2. q[1] \in QueueEntries
  BY <1>1, ElementOfSeq
<1> DEFINE r == Tail(q)
           n == Len(q)
<1>3. r \in Seq(QueueEntries) /\ Len(r) = n - 1 /\ \A i \in 1..(n - 1) : r[i] = q[i + 1]
  BY <1>1, HeadTailProperties
<1>4. DOMAIN r = 1..(n - 1)
  BY <1>3, LenProperties
<1> HIDE DEF r, n
<1>5. n \in Nat /\ DOMAIN q = 1..n /\ \A i \in 1..(n - 1) : i + 1 \in 1..n
  BY <1>1 DEF n
<1>6. Sorted(r)
  <2>1. SUFFICES ASSUME NEW i \in 1..(n - 1), NEW j \in 1..(n - 1), i < j
                 PROVE  r[i].left <= r[j].left
    BY <1>4 DEF Sorted
  <2>2. i + 1 \in 1..n /\ j + 1 \in 1..n /\ i + 1 < j + 1
    BY <1>5, <2>1
  <2> QED BY <1>3, <1>5, <2>2 DEF Sorted
<1>7. ASSUME NEW i \in 1..n, i # 1
      PROVE  \E j \in 1..(n - 1) : r[j].task = q[i].task
  <2>1. i - 1 \in 1..(n - 1) /\ (i - 1) + 1 = i
    BY <1>5, <1>7
  <2> QED BY <1>3, <2>1
<1>8. Queued(q) \subseteq Queued(r) \cup {q[1].task}
  BY <1>4, <1>5, <1>7 DEF Queued
<1> QED BY <1>2, <1>3, <1>6, <1>8 DEF r

\* A tick too: what is overdue stays so.
LEMMA TickSorted ==
  ASSUME NEW q \in Seq(QueueEntries), Sorted(q)
  PROVE  LET p == [i \in DOMAIN q |-> [q[i] EXCEPT !.left = IF @ > 0 THEN @ - 1 ELSE 0]]
         IN  p \in Seq(QueueEntries) /\ Sorted(p) /\ Queued(p) = Queued(q)
<1> DEFINE p == [i \in DOMAIN q |-> [q[i] EXCEPT !.left = IF @ > 0 THEN @ - 1 ELSE 0]]
           n == Len(q)
<1>1. n \in Nat /\ DOMAIN q = 1..n /\ \A i \in 1..n : q[i] \in QueueEntries
  BY ElementOfSeq, LenProperties
<1> HIDE DEF n
<1>2. /\ DOMAIN p = 1..n
      /\ \A i \in 1..n : p[i] = [q[i] EXCEPT !.left = IF @ > 0 THEN @ - 1 ELSE 0]
      /\ p = [i \in 1..n |-> p[i]]
  BY <1>1
<1> HIDE DEF p
<1>3. ASSUME NEW i \in 1..n
      PROVE  /\ p[i] \in QueueEntries /\ p[i].task = q[i].task /\ q[i].left \in Nat
             /\ p[i].left = IF q[i].left > 0 THEN q[i].left - 1 ELSE 0
  <2>1. q[i] \in QueueEntries
    BY <1>1
  <2> QED BY <1>2, <2>1, SchedulerAssumption DEF QueueEntries
<1>4. p \in Seq(QueueEntries)
  <2>1. p \in [1..n -> QueueEntries]
    BY <1>2, <1>3
  <2> QED BY <1>1, <2>1, SeqDef
<1>5. Sorted(p)
  BY <1>1, <1>2, <1>3 DEF Sorted
<1>6. Queued(p) = Queued(q)
  BY <1>1, <1>2, <1>3 DEF Queued
<1> QED BY <1>4, <1>5, <1>6 DEF p

-----------------------------------------------------------------------------
(* The threads.                                                             *)

\* Waking threads changes nothing about who is in service.
LEMMA NotifyServing ==
  ASSUME NEW st \in [Threads -> States]
  PROVE  /\ \A s \in NotifyOne(st) : s \in [Threads -> States] /\ Serving(s) = Serving(st)
         /\ NotifyAll(st) \in [Threads -> States] /\ Serving(NotifyAll(st)) = Serving(st)
<1>1. ASSUME NEW s \in NotifyOne(st)
      PROVE  s \in [Threads -> States] /\ Serving(s) = Serving(st)
  <2>1. s = st \/ \E h \in Threads : st[h] = "waiting" /\ s = [st EXCEPT ![h] = "woken"]
    BY DEF NotifyOne
  <2>2. ASSUME NEW h \in Threads, st[h] = "waiting", s = [st EXCEPT ![h] = "woken"]
        PROVE  s \in [Threads -> States] /\ Serving(s) = Serving(st)
    <3>1. s \in [Threads -> States] /\ \A g \in Threads : s[g] = IF g = h THEN "woken" ELSE st[g]
      BY <2>2 DEF States
    <3>2. \A g \in Threads : s[g] \in {"waiting", "woken", "running"}
                               <=> st[g] \in {"waiting", "woken", "running"}
      BY <2>2, <3>1
    <3> QED BY <3>1, <3>2 DEF Serving
  <2> QED BY <2>1, <2>2
<1>2. NotifyAll(st) \in [Threads -> States] /\ Serving(NotifyAll(st)) = Serving(st)
  BY DEF NotifyAll, States, Serving
<1> QED BY <1>1, <1>2

\* The sets of threads are finite: one more or less in service counts as one.
LEMMA ServingCount ==
  ASSUME NEW st \in [Threads -> States], NEW h \in Threads
  PROVE  /\ IsFiniteSet(Serving(st)) /\ Cardinality(Serving(st)) \in Nat
         /\ \A x \in States :
              LET s == [st EXCEPT ![h] = x]
              IN  /\ s \in [Threads -> States]
                  /\ x \in {"waiting", "woken", "running"} => Serving(s) = Serving(st) \cup {h}
                  /\ x \notin {"waiting", "woken", "running"} => Serving(s) = Serving(st) \ {h}
         /\ h \notin Serving(st) => Cardinality(Serving(st) \cup {h}) = Cardinality(Serving(st)) + 1
         /\ h \in Serving(st) => Cardinality(Serving(st) \ {h}) = Cardinality(Serving(st)) - 1
<1>1. IsFiniteSet(Serving(st)) /\ Cardinality(Serving(st)) \in Nat
  BY SchedulerAssumption, FS_Subset, FS_CardinalityType DEF Serving
<1>2. ASSUME NEW x \in States, NEW s, s = [st EXCEPT ![h] = x]
      PROVE  /\ s \in [Threads -> States]
             /\ x \in {"waiting", "woken", "running"} => Serving(s) = Serving(st) \cup {h}
             /\ x \notin {"waiting", "woken", "running"} => Serving(s) = Serving(st) \ {h}
  <2>1. s \in [Threads -> States] /\ \A g \in Threads : s[g] = IF g = h THEN x ELSE st[g]
    BY <1>2
  <2> QED BY <2>1 DEF Serving
<1>3. h \notin Serving(st) => Cardinality(Serving(st) \cup {h}) = Cardinality(Serving(st)) + 1
  BY <1>1, FS_AddElement
<1>4. h \in Serving(st) => Cardinality(Serving(st) \ {h}) = Cardinality(Serving(st)) - 1
  BY <1>1, FS_RemoveElement
<1> QED BY <1>1, <1>2, <1>3, <1>4

\* The loop of serviceQueue, with h counted in n.
LEMMA LoopStep ==
  ASSUME SchedulerInv, NEW h \in Threads, NEW n \in Nat,
         n = Cardinality(Serving(thread) \cup {h}), Loop(h, n), taskQueue' = taskQueue
  PROVE  ServiceInv' /\ WaitsForQueued' /\ waitsFor' \in [Threads -> Tasks \cup {None, Erased}]
<1>1. thread \in [Threads -> States] /\ waitsFor \in [Threads -> Tasks \cup {None, Erased}]
  BY DEF SchedulerInv, ServiceInv, ControlInv
<1>2. CASE shouldStop
  <2>1. Leave(h, n)
    BY <1>2 DEF Loop
  <2> DEFINE s == [thread EXCEPT ![h] = "gone"]
  <2>2. s \in [Threads -> States] /\ Serving(s) = Serving(thread) \ {h}
    BY <1>1, ServingCount DEF States
  <2>3. Cardinality(Serving(s)) = n - 1
    <3>1. IsFiniteSet(Serving(thread))
      BY <1>1, ServingCount
    <3>2. IsFiniteSet(Serving(thread) \cup {h})
      BY <3>1, FS_AddElement
    <3>3. (Serving(thread) \cup {h}) \ {h} = Serving(thread) \ {h}
      OBVIOUS
    <3>4. h \in Serving(thread) \cup {h}
      OBVIOUS
    <3> DEFINE A == Serving(thread) \cup {h}
    <3>5. IsFiniteSet(A) /\ h \in A /\ n = Cardinality(A) /\ Serving(s) = A \ {h}
      BY <2>2, <3>2, <3>3, <3>4
    <3> HIDE DEF A
    <3> QED BY <3>5, FS_RemoveElement
  <2>4. thread' \in NotifyOne(s) /\ nThreadsServicingQueue' = n - 1 /\ waitsFor' = waitsFor
    BY <2>1 DEF Leave
  <2> HIDE DEF s
  <2>5. ServiceInv'
    BY <2>2, <2>3, <2>4, NotifyServing DEF ServiceInv
  <2> QED BY <1>1, <2>4, <2>5 DEF SchedulerInv, QueueInv, WaitsForQueued
<1>3. CASE ~shouldStop
  <2>1. /\ thread' = [thread EXCEPT ![h] = "waiting"]
        /\ waitsFor' = [waitsFor EXCEPT ![h] = IF taskQueue = <<>> THEN None ELSE taskQueue[1].task]
        /\ nThreadsServicingQueue' = n
    BY <1>3 DEF Loop
  <2>2. thread' \in [Threads -> States] /\ Serving(thread') = Serving(thread) \cup {h}
    BY <1>1, <2>1, ServingCount DEF States
  <2>3. ServiceInv'
    BY <2>1, <2>2 DEF ServiceInv
  <2>4. taskQueue # <<>> => taskQueue[1].task \in Queued(taskQueue) /\ taskQueue[1].task \in Tasks
    <3>1. taskQueue \in Seq(QueueEntries)
      BY DEF SchedulerInv, QueueInv
    <3>2. taskQueue # <<>> => 1 \in DOMAIN taskQueue /\ taskQueue[1] \in QueueEntries
      BY <3>1, EmptySeq, LenProperties, ElementOfSeq
    <3> QED BY <3>2 DEF Queued, QueueEntries
  <2>5. waitsFor' \in [Threads -> Tasks \cup {None, Erased}]
    BY <1>1, <2>1, <2>4
  <2>6. WaitsForQueued'
    BY <1>1, <2>1, <2>4 DEF WaitsForQueued, SchedulerInv, QueueInv
  <2> QED BY <2>3, <2>5, <2>6
<1> QED BY <1>2, <1>3

-----------------------------------------------------------------------------
(* The steps.                                                               *)

LEMMA SchedulerInit == Init => SchedulerInv
<1> SUFFICES ASSUME Init PROVE SchedulerInv
  OBVIOUS
<1>1. QueueInv
  BY DEF Init, QueueInv, Sorted, WaitsForQueued
<1>2. ServiceInv
  <2>1. thread \in [Threads -> States] /\ Serving(thread) = {}
    BY DEF Init, Serving, States
  <2> QED BY <2>1, FS_EmptySet DEF Init, ServiceInv
<1>3. ControlInv
  BY DEF Init, ControlInv
<1> QED BY <1>1, <1>2, <1>3 DEF SchedulerInv

\* A task goes into the queue and a thread is notified.
LEMMA InsertStep ==
  ASSUME SchedulerInv, NEW t \in Tasks, NEW d \in 0..MaxDelay,
         taskQueue' = Insert(taskQueue, t, d), thread' \in NotifyOne(thread),
         waitsFor' = waitsFor, nThreadsServicingQueue' = nThreadsServicingQueue
  PROVE  QueueInv' /\ ServiceInv'
<1>1. taskQueue \in Seq(QueueEntries) /\ Sorted(taskQueue) /\ WaitsForQueued
  BY DEF SchedulerInv, QueueInv
<1>2. QueueInv'
  <2>1. /\ taskQueue' \in Seq(QueueEntries) /\ Sorted(taskQueue')
        /\ Queued(taskQueue) \subseteq Queued(taskQueue')
    BY <1>1, InsertSorted
  <2> QED BY <1>1, <2>1 DEF QueueInv, WaitsForQueued
<1>3. ServiceInv'
  BY NotifyServing DEF SchedulerInv, ServiceInv
<1> QED BY <1>2, <1>3

LEMMA ScheduleStep ==
  ASSUME SchedulerInv, NEW t \in Tasks, NEW d \in 0..MaxDelay, Schedule(t, d)
  PROVE  SchedulerInv'
<1>1. QueueInv' /\ ServiceInv'
  BY InsertStep DEF Schedule
<1>2. ControlInv'
  BY DEF Schedule, SchedulerInv, ControlInv
<1> QED BY <1>1, <1>2 DEF SchedulerInv

LEMMA RepeatStep ==
  ASSUME SchedulerInv, NEW h \in Threads, Repeat(h)
  PROVE  SchedulerInv'
<1>1. runs[h] \in Tasks
  BY SchedulerAssumption DEF Repeat
<1>2. PICK d \in 1..MaxDelay : taskQueue' = Insert(taskQueue, runs[h], d)
  BY DEF Repeat
<1>3. d \in 0..MaxDelay
  OBVIOUS
<1>4. QueueInv' /\ ServiceInv'
  BY <1>1, <1>2, <1>3, InsertStep DEF Repeat
<1>5. ControlInv'
  BY DEF Repeat, SchedulerInv, ControlInv
<1> QED BY <1>4, <1>5 DEF SchedulerInv

\* A new thread, or one that is in service, goes through the loop.
LEMMA EnterStep ==
  ASSUME SchedulerInv, NEW h \in Threads, Enter(h) \/ Resume(h) \/ Finish(h)
  PROVE  SchedulerInv'
<1>1. thread \in [Threads -> States] /\ nThreadsServicingQueue = Cardinality(Serving(thread))
  BY DEF SchedulerInv, ServiceInv
<1>2. PICK n \in Nat : n = Cardinality(Serving(thread) \cup {h}) /\ Loop(h, n)
  <2>1. Cardinality(Serving(thread)) \in Nat
    BY <1>1, ServingCount
  <2>2. CASE Enter(h)
    <3>1. h \notin Serving(thread)
      BY <2>2 DEF Enter, Serving
    <3> QED BY <1>1, <2>1, <2>2, <3>1, ServingCount DEF Enter
  <2>3. CASE Resume(h) \/ Finish(h)
    <3>1. h \in Serving(thread)
      BY <2>3 DEF Resume, Finish, Serving
    <3>2. Serving(thread) \cup {h} = Serving(thread)
      BY <3>1
    <3> QED BY <1>1, <2>1, <2>3, <3>2 DEF Resume, Finish
  <2> QED BY <2>2, <2>3
<1>3. taskQueue' = taskQueue
  BY DEF Enter, Resume, Finish
<1>4. ServiceInv' /\ WaitsForQueued' /\ waitsFor' \in [Threads -> Tasks \cup {None, Erased}]
  BY <1>2, <1>3, LoopStep
<1>5. QueueInv'
  BY <1>3, <1>4 DEF SchedulerInv, QueueInv
<1>6. ControlInv'
  BY <1>4 DEF Enter, Resume, Finish, SchedulerInv, ControlInv
<1> QED BY <1>4, <1>5, <1>6 DEF SchedulerInv

\* A thread changes its state only, and stays in service.
LEMMA WakeUpStep ==
  ASSUME SchedulerInv, NEW h \in Threads, WakeUp(h)
  PROVE  SchedulerInv'
<1>1. thread \in [Threads -> States] /\ h \in Serving(thread)
  BY DEF WakeUp, SchedulerInv, ServiceInv, Serving
<1>2. thread' \in [Threads -> States] /\ Serving(thread') = Serving(thread)
  <2>1. thread' = [thread EXCEPT ![h] = "woken"] /\ "woken" \in States
    BY DEF WakeUp, States
  <2>2. thread' \in [Threads -> States] /\ Serving(thread') = Serving(thread) \cup {h}
    BY <1>1, <2>1, ServingCount
  <2> QED BY <1>1, <2>2
<1>3. ServiceInv'
  BY <1>2 DEF WakeUp, SchedulerInv, ServiceInv
<1>4. QueueInv' /\ ControlInv'
  BY DEF WakeUp, SchedulerInv, QueueInv, WaitsForQueued, ControlInv
<1> QED BY <1>3, <1>4 DEF SchedulerInv

LEMMA TakeStep ==
  ASSUME SchedulerInv, NEW h \in Threads, Take(h)
  PROVE  SchedulerInv'
<1>1. thread \in [Threads -> States] /\ h \in Serving(thread)
  BY DEF Take, SchedulerInv, ServiceInv, Serving
<1>2. ServiceInv'
  <2>1. thread' = [thread EXCEPT ![h] = "running"] /\ "running" \in States
    BY DEF Take, States
  <2>2. thread' \in [Threads -> States] /\ Serving(thread') = Serving(thread) \cup {h}
    BY <1>1, <2>1, ServingCount
  <2>3. Serving(thread') = Serving(thread)
    BY <1>1, <2>2
  <2> QED BY <2>2, <2>3 DEF Take, SchedulerInv, ServiceInv
<1>3. /\ taskQueue \in Seq(QueueEntries) /\ Sorted(taskQueue) /\ taskQueue # <<>>
      /\ taskQueue' = Tail(taskQueue)
  BY DEF Take, SchedulerInv, QueueInv
<1>4. /\ taskQueue' \in Seq(QueueEntries) /\ Sorted(taskQueue') /\ taskQueue[1] \in QueueEntries
      /\ Queued(taskQueue) \subseteq Queued(taskQueue') \cup {taskQueue[1].task}
  BY <1>3, TailSorted
<1>5. taskQueue[1].task \in Tasks
  BY <1>4 DEF QueueEntries
<1>6. waitsFor' = [g \in Threads |-> IF g = h THEN None
                                     ELSE IF waitsFor[g] = taskQueue[1].task THEN Erased ELSE waitsFor[g]]
  BY DEF Take
<1>7. WaitsForQueued'
  BY <1>4, <1>6 DEF WaitsForQueued, SchedulerInv, QueueInv
<1>8. waitsFor' \in [Threads -> Tasks \cup {None, Erased}]
  BY <1>6 DEF SchedulerInv, ControlInv
<1>9. ControlInv'
  BY <1>5, <1>8 DEF Take, SchedulerInv, ControlInv
<1> QED BY <1>2, <1>4, <1>7, <1>9 DEF SchedulerInv, QueueInv

LEMMA ThrowStep ==
  ASSUME SchedulerInv, NEW h \in Threads, Throw(h)
  PROVE  SchedulerInv'
<1>1. thread \in [Threads -> States] /\ h \in Serving(thread)
  BY DEF Throw, SchedulerInv, ServiceInv, Serving
<1>2. ServiceInv'
  <2>1. thread' = [thread EXCEPT ![h] = "gone"] /\ "gone" \in States
    BY DEF Throw, States
  <2>2. thread' \in [Threads -> States] /\ Serving(thread') = Serving(thread) \ {h}
    BY <1>1, <2>1, ServingCount
  <2>3. Cardinality(Serving(thread) \ {h}) = Cardinality(Serving(thread)) - 1
    BY <1>1, ServingCount
  <2> QED BY <2>2, <2>3 DEF Throw, SchedulerInv, ServiceInv
<1>3. QueueInv' /\ ControlInv'
  BY DEF Throw, SchedulerInv, QueueInv, WaitsForQueued, ControlInv
<1> QED BY <1>2, <1>3 DEF SchedulerInv

LEMMA OtherSteps ==
  ASSUME SchedulerInv,
         (\E drain \in BOOLEAN : Stop(drain)) \/ Interrupt \/ Tick \/ UNCHANGED vars
  PROVE  SchedulerInv'
<1>1. ASSUME NEW drain \in BOOLEAN, Stop(drain)
      PROVE  SchedulerInv'
  <2>1. thread' = NotifyAll(thread) /\ nThreadsServicingQueue' = nThreadsServicingQueue
    BY <1>1 DEF Stop
  <2>2. ServiceInv'
    BY <2>1, NotifyServing DEF SchedulerInv, ServiceInv
  <2>3. (stopWhenEmpty \/ drain) \in BOOLEAN /\ (stopRequested \/ ~drain) \in BOOLEAN
    OBVIOUS
  <2>4. stopWhenEmpty' \in BOOLEAN /\ stopRequested' \in BOOLEAN
    BY <1>1, <2>3, Zenon DEF Stop
  <2>5. QueueInv' /\ ControlInv'
    BY <1>1, <2>4 DEF Stop, SchedulerInv, QueueInv, WaitsForQueued, ControlInv
  <2> QED BY <2>2, <2>5 DEF SchedulerInv
<1>2. CASE Interrupt
  BY <1>2 DEF Interrupt, SchedulerInv, QueueInv, WaitsForQueued, ServiceInv, ControlInv
<1>3. CASE Tick
  <2>1. taskQueue' \in Seq(QueueEntries) /\ Sorted(taskQueue') /\ Queued(taskQueue') = Queued(taskQueue)
    BY <1>3, TickSorted DEF Tick, SchedulerInv, QueueInv
  <2> QED BY <1>3, <2>1
          DEF Tick, SchedulerInv, QueueInv, WaitsForQueued, ServiceInv, ControlInv
<1>4. CASE UNCHANGED vars
  BY <1>4 DEF vars, SchedulerInv, QueueInv, WaitsForQueued, ServiceInv, ControlInv
<1> QED BY <1>1, <1>2, <1>3, <1>4

LEMMA SchedulerStep == SchedulerInv /\ [Next]_vars => SchedulerInv'
BY ScheduleStep, RepeatStep, EnterStep, WakeUpStep, TakeStep, ThrowStep, OtherSteps DEF Next

\* Every variable keeps its type, and nThreadsServicingQueue is the number of
\* threads in serviceQueue, so that ~CScheduler's assertion holds once they left.
THEOREM ServiceCountExact == Spec => []TypeOK
<1>1. SchedulerInv => TypeOK
  <2> SUFFICES ASSUME SchedulerInv PROVE TypeOK
    OBVIOUS
  <2>1. Serving(thread) = InService
    BY DEF Serving, InService
  <2>2. taskQueue \in Seq([task : Tasks, left : 0..MaxDelay])
    BY DEF SchedulerInv, QueueInv, QueueEntries
  <2>3. {stopRequested, stopWhenEmpty, interrupted} \subseteq BOOLEAN
    BY Zenon DEF SchedulerInv, ControlInv
  <2> QED BY <2>1, <2>2, <2>3 DEF TypeOK, SchedulerInv, ServiceInv, ControlInv, States
<1> QED BY <1>1, SchedulerInit, SchedulerStep, PTL DEF Spec

\* A thread takes a task before its time only when the task it waited for was
\* taken by another: the reference it gave to wait_until points to an erased
\* entry.
THEOREM EarlyTakes == Spec => EarlyOnlyAfterErasure
<1>1. ASSUME SchedulerInv, NEW h \in Threads, Take(h)
      PROVE  taskQueue[1].left = 0 \/ waitsFor[h] = Erased
  <2>1. SUFFICES ASSUME waitsFor[h] # Erased PROVE taskQueue[1].left = 0
    OBVIOUS
  <2>2. TRUE \in TimeIsUp(h) /\ taskQueue # <<>>
    BY <1>1 DEF Take
  <2>3. waitsFor[h] # None /\ TimeIsUp(h) = {LeftOf(waitsFor[h]) <= 0}
    BY <2>1, <2>2, SchedulerAssumption DEF TimeIsUp
  <2>4. LeftOf(waitsFor[h]) <= 0
    BY <2>2, <2>3
  <2>5. \E i \in DOMAIN taskQueue : taskQueue[i].task = waitsFor[h]
    BY <1>1, <2>1, <2>3 DEF SchedulerInv, QueueInv, WaitsForQueued, Queued
  <2>6. PICK i \in DOMAIN taskQueue : LeftOf(waitsFor[h]) = taskQueue[i].left
    BY <2>5 DEF LeftOf
  <2>7. /\ taskQueue \in Seq(QueueEntries) /\ Sorted(taskQueue)
    BY <1>1 DEF SchedulerInv, QueueInv
  <2>8. /\ DOMAIN taskQueue = 1..Len(taskQueue) /\ Len(taskQueue) \in Nat
        /\ \A j \in DOMAIN taskQueue : taskQueue[j].left \in Nat
    <3>1. DOMAIN taskQueue = 1..Len(taskQueue) /\ Len(taskQueue) \in Nat
      BY <2>7, LenProperties
    <3>2. \A j \in DOMAIN taskQueue : taskQueue[j] \in QueueEntries
      BY <2>7, <3>1, ElementOfSeq
    <3> QED BY <3>1, <3>2 DEF QueueEntries
  <2>9. taskQueue[1].left <= taskQueue[i].left /\ 1 \in DOMAIN taskQueue
    BY <2>6, <2>7, <2>8 DEF Sorted
  <2> QED BY <2>4, <2>6, <2>8, <2>9
<1>2. SchedulerInv /\ [Next]_vars =>
        [\A h \in Threads : Take(h) => taskQueue[1].left = 0 \/ waitsFor[h] = Erased]_vars
  BY <1>1
<1> QED BY <1>2, SchedulerInit, SchedulerStep, PTL DEF Spec, EarlyOnlyAfterErasure

=============================================================================
