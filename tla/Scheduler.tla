------------------------------ MODULE Scheduler ------------------------------
(***************************************************************************)
(* CScheduler: a queue of timed tasks and the threads in serviceQueue().   *)
(* newTaskMutex is held in every step; a thread gives it up in the two     *)
(* waits on newTaskScheduled and while it runs a task.                     *)
(*                                                                         *)
(* Times are kept as what is left of them.  The queue is in the order of   *)
(* the multimap, so entries that are overdue keep theirs.                  *)
(***************************************************************************)
EXTENDS Integers, Sequences, FiniteSets

CONSTANTS
    Threads,     \* the threads that call serviceQueue
    Tasks,       \* the functions that are scheduled
    Repeating,   \* those scheduled with scheduleEvery
    MaxDelay,    \* bound: no task is scheduled further ahead
    None, Erased \* what a thread may wait for besides the time of a task

ASSUME SchedulerAssumption ==
    /\ IsFiniteSet(Threads)
    /\ Repeating \subseteq Tasks /\ MaxDelay \in Nat \ {0}
    /\ None \notin Tasks /\ Erased \notin Tasks /\ None # Erased

VARIABLES
    taskQueue,       \* [task, left] in the order of the multimap
    thread,          \* "new", "waiting", "woken", "running" or "gone"
    waitsFor,        \* the task whose time the thread gave to wait_until (a reference
                     \* into the queue: Erased when the entry is); None in wait()
    runs,            \* the task a thread is running
    nThreadsServicingQueue,
    stopRequested, stopWhenEmpty,
    interrupted,     \* interrupt_all was called on the threads
    client           \* the tasks that the client has yet to schedule

vars == <<taskQueue, thread, waitsFor, runs, nThreadsServicingQueue, stopRequested, stopWhenEmpty, interrupted, client>>

\* Mutant: a draining stop does not look at the queue.
ShouldStopAtOnce == stopRequested \/ stopWhenEmpty

shouldStop == stopRequested \/ (stopWhenEmpty /\ taskQueue = <<>>)

Init ==
    /\ taskQueue = <<>> /\ client = Tasks
    /\ thread = [h \in Threads |-> "new"]
    /\ waitsFor = [h \in Threads |-> None] /\ runs = [h \in Threads |-> None]
    /\ nThreadsServicingQueue = 0
    /\ stopRequested = FALSE /\ stopWhenEmpty = FALSE /\ interrupted = FALSE

\* Mutant: a task goes before the others, whatever its time.
InsertFirst(q, task, delay) == <<[task |-> task, left |-> delay]>> \o q

\* taskQueue.insert: behind the entries of the same time.
UpperBound(q, delay) ==
    CHOOSE u \in 0..Len(q) : \A i \in DOMAIN q : q[i].left <= delay <=> i <= u

Insert(q, task, delay) ==
    LET u == UpperBound(q, delay)
    IN  [i \in 1..(Len(q) + 1) |-> IF i <= u THEN q[i]
                                  ELSE IF i = u + 1 THEN [task |-> task, left |-> delay]
                                  ELSE q[i - 1]]

\* notify_one and notify_all, when the threads are in states st.
NotifyOne(st) ==
    LET waiting == {h \in Threads : st[h] = "waiting"}
    IN  IF waiting = {} THEN {st} ELSE {[st EXCEPT ![h] = "woken"] : h \in waiting}

NotifyAll(st) == [h \in Threads |-> IF st[h] = "waiting" THEN "woken" ELSE st[h]]

\* Mutant: schedule does not notify.
ScheduleSilently(t, delay) ==
    /\ t \in client /\ ~stopWhenEmpty
    /\ taskQueue' = Insert(taskQueue, t, delay) /\ client' = client \ {t}
    /\ UNCHANGED <<thread, waitsFor, runs, nThreadsServicingQueue, stopRequested, stopWhenEmpty, interrupted>>

\* schedule, by a client (none schedules once it waits for the queue to drain).
Schedule(t, delay) ==
    /\ t \in client /\ ~stopWhenEmpty
    /\ taskQueue' = Insert(taskQueue, t, delay) /\ client' = client \ {t}
    /\ thread' \in NotifyOne(thread)
    /\ UNCHANGED <<waitsFor, runs, nThreadsServicingQueue, stopRequested, stopWhenEmpty, interrupted>>

\* Mutant: stop wakes no thread.
StopSilently(drain) ==
    /\ stopWhenEmpty' = (stopWhenEmpty \/ drain) /\ stopRequested' = (stopRequested \/ ~drain)
    /\ UNCHANGED <<taskQueue, thread, waitsFor, runs, nThreadsServicingQueue, interrupted, client>>

Stop(drain) ==
    /\ stopWhenEmpty' = (stopWhenEmpty \/ drain) /\ stopRequested' = (stopRequested \/ ~drain)
    /\ thread' = NotifyAll(thread)
    /\ UNCHANGED <<taskQueue, waitsFor, runs, nThreadsServicingQueue, interrupted, client>>

Interrupt ==
    /\ interrupted' = TRUE
    /\ UNCHANGED <<taskQueue, thread, waitsFor, runs, nThreadsServicingQueue, stopRequested, stopWhenEmpty, client>>

\* The end of serviceQueue.
Leave(h, n) ==
    /\ thread' \in NotifyOne([thread EXCEPT ![h] = "gone"])
    /\ nThreadsServicingQueue' = n - 1
    /\ UNCHANGED <<waitsFor>>

\* The loop of thread h from its head to the next wait, with n threads in
\* serviceQueue.
Loop(h, n) ==
    IF shouldStop THEN Leave(h, n)
    ELSE /\ thread' = [thread EXCEPT ![h] = "waiting"]
         /\ waitsFor' = [waitsFor EXCEPT ![h] = IF taskQueue = <<>> THEN None ELSE taskQueue[1].task]
         /\ nThreadsServicingQueue' = n

Enter(h) ==
    /\ thread[h] = "new"
    /\ Loop(h, nThreadsServicingQueue + 1)
    /\ UNCHANGED <<taskQueue, runs, stopRequested, stopWhenEmpty, interrupted, client>>

LeftOf(t) == LET i == CHOOSE i \in DOMAIN taskQueue : taskQueue[i].task = t IN taskQueue[i].left

\* wait_until returns timeout: it compares the clock with the time it was given,
\* by reference.
TimeIsUp(h) ==
    CASE waitsFor[h] = None -> {FALSE}
      [] waitsFor[h] = Erased -> BOOLEAN
      [] OTHER -> {LeftOf(waitsFor[h]) <= 0}

\* The wait ends by itself, at its time or spuriously.
WakeUp(h) ==
    /\ thread[h] = "waiting"
    /\ thread' = [thread EXCEPT ![h] = "woken"]
    /\ UNCHANGED <<taskQueue, waitsFor, runs, nThreadsServicingQueue, stopRequested, stopWhenEmpty, interrupted, client>>

Resume(h) ==
    /\ thread[h] = "woken" /\ (FALSE \in TimeIsUp(h) \/ shouldStop \/ taskQueue = <<>>)
    /\ Loop(h, nThreadsServicingQueue)
    /\ UNCHANGED <<taskQueue, runs, stopRequested, stopWhenEmpty, interrupted, client>>

\* The time is up: the thread takes the first entry there is now.
Take(h) ==
    /\ thread[h] = "woken" /\ TRUE \in TimeIsUp(h) /\ ~shouldStop /\ taskQueue # <<>>
    /\ thread' = [thread EXCEPT ![h] = "running"]
    /\ runs' = [runs EXCEPT ![h] = taskQueue[1].task]
    /\ waitsFor' = [g \in Threads |-> IF g = h THEN None ELSE IF waitsFor[g] = taskQueue[1].task THEN Erased ELSE waitsFor[g]]
    /\ taskQueue' = Tail(taskQueue)
    /\ UNCHANGED <<nThreadsServicingQueue, stopRequested, stopWhenEmpty, interrupted, client>>

\* Repeat has called its function and schedules itself again.
Repeat(h) ==
    /\ thread[h] = "running" /\ runs[h] \in Repeating
    /\ \E d \in 1..MaxDelay : taskQueue' = Insert(taskQueue, runs[h], d)
    /\ thread' \in NotifyOne(thread)
    /\ runs' = [runs EXCEPT ![h] = None]
    /\ UNCHANGED <<waitsFor, nThreadsServicingQueue, stopRequested, stopWhenEmpty, interrupted, client>>

\* The function returns.
Finish(h) ==
    /\ thread[h] = "running" /\ runs[h] \notin Repeating
    /\ runs' = [runs EXCEPT ![h] = None]
    /\ Loop(h, nThreadsServicingQueue)
    /\ UNCHANGED <<taskQueue, stopRequested, stopWhenEmpty, interrupted, client>>

\* Mutant: the handler does not count the thread out.
ThrowUncounted(h) ==
    /\ interrupted /\ thread[h] \in {"waiting", "woken", "running"}
    /\ thread' = [thread EXCEPT ![h] = "gone"]
    /\ runs' = [runs EXCEPT ![h] = None]
    /\ UNCHANGED <<taskQueue, waitsFor, nThreadsServicingQueue, stopRequested, stopWhenEmpty, interrupted, client>>

\* thread_interrupted, from a wait or from the function, passes through the
\* handler of serviceQueue.
Throw(h) ==
    /\ interrupted /\ thread[h] \in {"waiting", "woken", "running"}
    /\ thread' = [thread EXCEPT ![h] = "gone"]
    /\ runs' = [runs EXCEPT ![h] = None]
    /\ nThreadsServicingQueue' = nThreadsServicingQueue - 1
    /\ UNCHANGED <<taskQueue, waitsFor, stopRequested, stopWhenEmpty, interrupted, client>>

\* Time passes.
Tick ==
    /\ \E i \in DOMAIN taskQueue : taskQueue[i].left > 0
    /\ taskQueue' = [i \in DOMAIN taskQueue |-> [taskQueue[i] EXCEPT !.left = IF @ > 0 THEN @ - 1 ELSE 0]]
    /\ UNCHANGED <<thread, waitsFor, runs, nThreadsServicingQueue, stopRequested, stopWhenEmpty, interrupted, client>>

Next ==
    \/ \E t \in Tasks, d \in 0..MaxDelay : Schedule(t, d)
    \/ \E drain \in BOOLEAN : Stop(drain)
    \/ Interrupt
    \/ \E h \in Threads : Enter(h) \/ WakeUp(h) \/ Resume(h) \/ Take(h) \/ Repeat(h) \/ Finish(h) \/ Throw(h)
    \/ Tick

Spec == Init /\ [][Next]_vars

\* Time passes, a wait ends when its time is up, a thread that may run runs,
\* a function returns.
DueWakeUp(h) == WakeUp(h) /\ TRUE \in TimeIsUp(h)

Fairness ==
    /\ WF_vars(Tick)
    /\ \A h \in Threads :
         /\ WF_vars(Enter(h)) /\ WF_vars(DueWakeUp(h)) /\ WF_vars(Repeat(h) \/ Finish(h)) /\ WF_vars(Throw(h))
         /\ WF_vars(Resume(h) \/ Take(h))

FairSpec == Spec /\ Fairness

-----------------------------------------------------------------------------
InService == {h \in Threads : thread[h] \in {"waiting", "woken", "running"}}

\* Type invariant; the count that ~CScheduler asserts to be 0 is exact.
TypeOK ==
    /\ taskQueue \in Seq([task : Tasks, left : 0..MaxDelay])
    /\ thread \in [Threads -> {"new", "waiting", "woken", "running", "gone"}]
    /\ waitsFor \in [Threads -> Tasks \cup {None, Erased}]
    /\ runs \in [Threads -> Tasks \cup {None}]
    /\ nThreadsServicingQueue = Cardinality(InService)
    /\ {stopRequested, stopWhenEmpty, interrupted} \subseteq BOOLEAN
    /\ client \subseteq Tasks

\* "Call func at/after time t", as far as it goes: a thread takes a task before
\* its time only if another thread has taken the one it was waiting for, whose
\* time it then compares with the clock.  (With the one service thread that
\* the node starts, never.)
EarlyOnlyAfterErasure ==
    [][\A h \in Threads : Take(h) => taskQueue[1].left = 0 \/ waitsFor[h] = Erased]_vars

\* A task that is scheduled runs, unless the threads are told to stop.
EveryTaskRuns ==
    \A t \in Tasks :
        (\E i \in DOMAIN taskQueue : taskQueue[i].task = t)
          ~> ((\E h \in Threads : runs[h] = t) \/ stopRequested \/ interrupted)

\* "Tell any threads running serviceQueue to stop as soon as they're done
\* servicing whatever task they're currently servicing (drain=false) or when
\* there is no work left to be done (drain=true)": all of them leave, also those
\* that wait with nothing to wait for or enter serviceQueue afterwards, and after
\* a draining stop they leave no task behind.  (With a task of scheduleEvery in
\* the queue there is work left for ever; one that no client has scheduled yet,
\* and with stopWhenEmpty none will, does not count.)
AllGone == \A h \in Threads : thread[h] = "gone"

StopEndsService ==
    /\ (stopRequested \/ interrupted) ~> AllGone
    /\ (stopWhenEmpty /\ Repeating \subseteq client)
         ~> (AllGone /\ (stopRequested \/ interrupted \/ taskQueue = <<>>))

=============================================================================
