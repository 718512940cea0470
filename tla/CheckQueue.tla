------------------------------ MODULE CheckQueue ------------------------------
(***************************************************************************)
(* CCheckQueue / CCheckQueueControl (checkqueue.h): the pool of script     *)
(* verification threads that ConnectBlock hands its CScriptChecks to.      *)
(*                                                                         *)
(* Every critical section of CCheckQueue::Loop is one step: the code holds *)
(* `mutex' from the clean-up of the previous batch until it either returns,*)
(* blocks on its condition variable or has moved a batch out of `queue'.   *)
(* The verification of a batch runs without the mutex.                     *)
(*                                                                         *)
(* A check is named by an element of Checks; `queue' is a set, since the   *)
(* code keeps a LIFO only because "the order of booleans doesn't matter".  *)
(***************************************************************************)
EXTENDS Integers, FiniteSets

CONSTANTS
    Checks,       \* the script checks a block can be made of
    Workers,      \* the nScriptCheckThreads - 1 pool threads
    Master,       \* the thread that connects the block
    nBatchSize    \* constructor argument: largest batch taken at once

ASSUME ChecksAssumption == IsFiniteSet(Checks)
ASSUME ThreadsAssumption == IsFiniteSet(Workers) /\ Master \notin Workers
ASSUME BatchAssumption == nBatchSize \in Nat \ {0}

Threads == Workers \cup {Master}

VARIABLES
    queue,        \* checks waiting for a thread
    nIdle,        \* threads blocked on a condition variable
    nTotal,       \* threads inside Loop
    fAllOk,       \* the evaluation result so far
    nTodo,        \* verifications that have not completed
    pc,           \* where each thread is
    batch,        \* vChecks of each thread until its clean-up (nNow of them)
    fOk,          \* the local fOk of each thread
    added,        \* ghost: checks handed over since the control was built
    invalid,      \* ghost: the checks of this block that do not verify
    verdict       \* what the last Wait() returned

vars == <<queue, nIdle, nTotal, fAllOk, nTodo, pc, batch, fOk, added, invalid, verdict>>

Init ==
    /\ queue = {}
    /\ nIdle = 0
    /\ nTotal = 0
    /\ fAllOk = TRUE
    /\ nTodo = 0
    /\ pc = [t \in Threads |-> IF t = Master THEN "out" ELSE "start"]
    /\ batch = [t \in Threads |-> {}]
    /\ fOk = [t \in Threads |-> TRUE]
    /\ added = {}
    /\ invalid = {}
    /\ verdict = "none"

-----------------------------------------------------------------------------
(* The master: ConnectBlock builds a control, adds each transaction's       *)
(* checks, and waits (explicitly, or in the destructor on an early return). *)

IsIdle == nTotal = nIdle /\ nTodo = 0 /\ fAllOk

\* CCheckQueueControl's constructor: a new block.  Its assertion is the
\* invariant ControlStartsIdle; here the step is taken whatever it finds.
NewControl ==
    /\ pc[Master] = "out"
    /\ pc' = [pc EXCEPT ![Master] = "adding"]
    /\ \E bad \in SUBSET Checks : invalid' = bad
    /\ added' = {}
    /\ verdict' = "none"
    /\ UNCHANGED <<queue, nIdle, nTotal, fAllOk, nTodo, batch, fOk>>

WaitingWorkers == {t \in Workers : pc[t] = "waiting"}

\* The sets of workers that condWorker.notify_one / notify_all can wake.
NotifiedBy(n) ==
    IF n = 1 /\ WaitingWorkers # {} THEN {{t} : t \in WaitingWorkers}
    ELSE IF n > 1 THEN {WaitingWorkers} ELSE {{}}

Add(vChecks) ==
    /\ pc[Master] = "adding"
    /\ queue' = queue \cup vChecks
    /\ nTodo' = nTodo + Cardinality(vChecks)
    /\ added' = added \cup vChecks
    /\ \E woken \in NotifiedBy(Cardinality(vChecks)) :
         pc' = [t \in Threads |-> IF t \in woken THEN "woken" ELSE pc[t]]
    /\ UNCHANGED <<nIdle, nTotal, fAllOk, batch, fOk, invalid, verdict>>

\* Wait(), called by ConnectBlock or by the control's destructor.
CallWait ==
    /\ pc[Master] = "adding"
    /\ pc' = [pc EXCEPT ![Master] = "start"]
    /\ UNCHANGED <<queue, nIdle, nTotal, fAllOk, nTodo, batch, fOk, added, invalid, verdict>>

-----------------------------------------------------------------------------
(* One critical section of Loop, for thread t, up to where it gives up the  *)
(* mutex.  The first two definitions are the state after the clean-up of    *)
(* the previous batch and after cond.wait, before the queue is looked at.   *)

\* Mutants of the clean-up: a batch's failure is not merged into the status;
\* one check is counted done per batch.
OkNotMerged(t)      == fAllOk
TodoLessOne(t)      == IF batch[t] = {} THEN nTodo ELSE nTodo - 1

AtMutex(t) == pc[t] \in {"start", "woken", "done"}

OkAfterCleanUp(t)    == fAllOk /\ (pc[t] = "done" => fOk[t])
TodoAfterCleanUp(t)  == nTodo - Cardinality(batch[t])
TotalAfterEntry(t)   == IF pc[t] = "start" THEN nTotal + 1 ELSE nTotal
IdleAfterWakeUp(t)   == IF pc[t] = "woken" THEN nIdle - 1 ELSE nIdle

\* Mutant: the worker that completes the last check does not tell the master.
NeverNotifies(t) == FALSE

\* condMaster.notify_one() by the worker that completes the last check.
NotifiesMaster(t) ==
    /\ pc[t] = "done"
    /\ t # Master
    /\ TodoAfterCleanUp(t) = 0
    /\ pc[Master] = "waiting"

\* Thread t goes to `place', and the master with it when t notifies it.
GoesTo(t, place) ==
    pc' = [u \in Threads |->
             IF u = t THEN place
             ELSE IF u = Master /\ NotifiesMaster(t) THEN "woken" ELSE pc[u]]

\* Mutant: the status is not reset for the next block.
ReturnWithoutReset(t) ==
    /\ AtMutex(t)
    /\ queue = {}
    /\ t = Master
    /\ TodoAfterCleanUp(t) = 0
    /\ nTotal' = TotalAfterEntry(t) - 1
    /\ nIdle' = IdleAfterWakeUp(t)
    /\ nTodo' = 0
    /\ verdict' = IF OkAfterCleanUp(t) THEN "valid" ELSE "invalid"
    /\ fAllOk' = OkAfterCleanUp(t)
    /\ batch' = [batch EXCEPT ![t] = {}]
    /\ pc' = [pc EXCEPT ![t] = "out"]
    /\ UNCHANGED <<queue, fOk, added, invalid>>

\* Wait() returns: only the master leaves Loop, since fQuit is never set.
Return(t) ==
    /\ AtMutex(t)
    /\ queue = {}
    /\ t = Master
    /\ TodoAfterCleanUp(t) = 0
    /\ nTotal' = TotalAfterEntry(t) - 1
    /\ nIdle' = IdleAfterWakeUp(t)
    /\ nTodo' = 0
    /\ verdict' = IF OkAfterCleanUp(t) THEN "valid" ELSE "invalid"
    /\ fAllOk' = TRUE
    /\ batch' = [batch EXCEPT ![t] = {}]
    /\ pc' = [pc EXCEPT ![t] = "out"]
    /\ UNCHANGED <<queue, fOk, added, invalid>>

Block(t) ==
    /\ AtMutex(t)
    /\ queue = {}
    /\ t = Master => TodoAfterCleanUp(t) # 0
    /\ nTotal' = TotalAfterEntry(t)
    /\ nIdle' = IdleAfterWakeUp(t) + 1
    /\ nTodo' = TodoAfterCleanUp(t)
    /\ fAllOk' = OkAfterCleanUp(t)
    /\ batch' = [batch EXCEPT ![t] = {}]
    /\ GoesTo(t, "waiting")
    /\ UNCHANGED <<queue, fOk, added, invalid, verdict>>

\* How many checks to take: smaller batches as the queue runs out.
BatchTarget(t) ==
    LET share == Cardinality(queue) \div (TotalAfterEntry(t) + IdleAfterWakeUp(t) + 1)
        most  == IF share < nBatchSize THEN share ELSE nBatchSize
    IN  IF most > 1 THEN most ELSE 1

Take(t) ==
    /\ AtMutex(t)
    /\ queue # {}
    /\ nTotal' = TotalAfterEntry(t)
    /\ nIdle' = IdleAfterWakeUp(t)
    /\ nTodo' = TodoAfterCleanUp(t)
    /\ fAllOk' = OkAfterCleanUp(t)
    /\ \E mine \in SUBSET queue :
         /\ Cardinality(mine) = BatchTarget(t)
         /\ batch' = [batch EXCEPT ![t] = mine]
         /\ queue' = queue \ mine
    /\ fOk' = [fOk EXCEPT ![t] = OkAfterCleanUp(t)]
    /\ GoesTo(t, "work")
    /\ UNCHANGED <<added, invalid, verdict>>

\* The verifications of a batch, outside the mutex; they stop at the first
\* failure, and are skipped when an earlier batch had failed.
Verify(t) ==
    /\ pc[t] = "work"
    /\ fOk' = [fOk EXCEPT ![t] = fOk[t] /\ batch[t] \cap invalid = {}]
    /\ pc' = [pc EXCEPT ![t] = "done"]
    /\ UNCHANGED <<queue, nIdle, nTotal, fAllOk, nTodo, batch, added, invalid, verdict>>

\* boost::condition_variable::wait may return without a notification.
SpuriousWakeUp(t) ==
    /\ pc[t] = "waiting"
    /\ pc' = [pc EXCEPT ![t] = "woken"]
    /\ UNCHANGED <<queue, nIdle, nTotal, fAllOk, nTodo, batch, fOk, added, invalid, verdict>>

-----------------------------------------------------------------------------
Step(t) == Return(t) \/ Block(t) \/ Take(t) \/ Verify(t)

Next ==
    \/ NewControl
    \/ \E vChecks \in SUBSET (Checks \ added) : Add(vChecks)
    \/ CallWait
    \/ \E t \in Threads : Step(t) \/ SpuriousWakeUp(t)

Spec == Init /\ [][Next]_vars

\* A runnable thread runs: it gets the mutex and finishes a verification.
\* Nothing is assumed of spurious wake-ups or of the arrival of blocks.
FairSpec == Spec /\ \A t \in Threads : WF_vars(Step(t))

-----------------------------------------------------------------------------
Places == {"out", "adding", "start", "waiting", "woken", "work", "done"}

\* Type invariant.
TypeOK ==
    /\ queue \in SUBSET Checks
    /\ nIdle \in Nat
    /\ nTotal \in Nat
    /\ fAllOk \in BOOLEAN
    /\ nTodo \in Nat
    /\ pc \in [Threads -> Places]
    /\ batch \in [Threads -> SUBSET Checks]
    /\ fOk \in [Threads -> BOOLEAN]
    /\ added \in SUBSET Checks
    /\ invalid \in SUBSET Checks
    /\ verdict \in {"none", "valid", "invalid"}

\* What Wait() returned is exactly whether every check added since the
\* control was built verifies: no failure is dropped, none leaks from an
\* earlier block, however batches were split, skipped and interleaved.
VerdictIsExact ==
    /\ verdict = "valid" => added \cap invalid = {}
    /\ verdict = "invalid" => added \cap invalid # {}

\* assert(isIdle) in CCheckQueueControl's constructor never fails: when no
\* control exists, every thread inside Loop is blocked, nothing is left to do
\* and the status has been reset for the next block.
ControlStartsIdle == pc[Master] = "out" => IsIdle

\* nTodo counts the queued checks and those in the threads' own batches, so
\* it reaches 0, and the master leaves, exactly when the last one is done.
TodoIsExact ==
    /\ nTodo = Cardinality(queue \cup UNION {batch[t] : t \in Threads})
    /\ \A t, u \in Threads : t # u => batch[t] \cap batch[u] = {}
    /\ \A t \in Threads : batch[t] \cap queue = {}

\* Wait() returns: no wake-up of the master or of a worker is lost in a way
\* that leaves the block waiting for ever.
WaitReturns == pc[Master] = "start" ~> pc[Master] = "out"

=============================================================================
