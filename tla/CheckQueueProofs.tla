--------------------------- MODULE CheckQueueProofs ---------------------------
(***************************************************************************)
(* Proofs about CheckQueue for any number of checks, pool threads and any  *)
(* batch size: nTodo is exact, a new control finds the queue idle, and     *)
(* Wait() returns the conjunction of the checks added.                     *)
(***************************************************************************)
EXTENDS CheckQueue, FiniteSetTheorems, TLAPS

Outstanding == queue \cup UNION {batch[t] : t \in Threads}

\* A thread holds checks exactly while it verifies them or is about to
\* clean up after them; the pool threads never act as the master.
BatchHeld ==
    /\ \A t \in Threads : pc[t] \in {"work", "done"} <=> batch[t] # {}
    /\ \A t \in Workers : pc[t] \notin {"out", "adding"}

InLoop  == {t \in Threads : pc[t] \in {"waiting", "woken", "work", "done"}}
Blocked == {t \in Threads : pc[t] \in {"waiting", "woken"}}

CountsExact ==
    /\ nTotal = Cardinality(InLoop)
    /\ nIdle = Cardinality(Blocked)

\* The status tells the truth about the checks that have been completed, and
\* a thread's own result about its batch.
StatusSound ==
    /\ Outstanding \subseteq added
    /\ fAllOk /\ pc[Master] # "out" => (added \ Outstanding) \cap invalid = {}
    /\ ~fAllOk => added \cap invalid # {}
    /\ \A t \in Threads : pc[t] = "done" /\ fOk[t] => batch[t] \cap invalid = {}
    /\ \A t \in Threads : pc[t] \in {"work", "done"} /\ ~fOk[t] => added \cap invalid # {}

\* Between two blocks nothing is left over; during one there is no verdict.
BetweenBlocks ==
    /\ pc[Master] = "out" => Outstanding = {} /\ fAllOk
    /\ pc[Master] # "out" => verdict = "none"

IInv == /\ TypeOK /\ BatchHeld /\ TodoIsExact /\ CountsExact
        /\ StatusSound /\ BetweenBlocks /\ VerdictIsExact

-----------------------------------------------------------------------------
LEMMA FiniteThreads == IsFiniteSet(Threads)
  BY ThreadsAssumption, FS_AddElement DEF Threads

\* Every set of checks and every set of threads is finite and has a cardinality.
LEMMA SubsetsFinite ==
  /\ \A S \in SUBSET Checks : IsFiniteSet(S) /\ Cardinality(S) \in Nat
  /\ \A S \in SUBSET Threads : IsFiniteSet(S) /\ Cardinality(S) \in Nat
  BY ChecksAssumption, FiniteThreads, FS_Subset, FS_CardinalityType

\* The outstanding checks (queued or in a batch) are checks.
LEMMA OutstandingType ==
  ASSUME TypeOK
  PROVE  Outstanding \in SUBSET Checks
  BY DEF TypeOK, Outstanding

\* Moving one thread between the sets of Loop's counters.
LEMMA CountMoves ==
  ASSUME NEW S \in SUBSET Threads, NEW t \in Threads
  PROVE  /\ t \notin S => Cardinality(S \cup {t}) = Cardinality(S) + 1
         /\ t \in S => Cardinality(S \ {t}) = Cardinality(S) - 1
  BY SubsetsFinite, FS_AddElement, FS_RemoveElement

\* A critical section gives up the thread's completed batch and takes a new
\* one out of the queue: what is outstanding shrinks by the completed batch.
LEMMA CriticalSection ==
  ASSUME IInv, NEW t \in Threads, NEW mine \in SUBSET queue,
         batch' = [batch EXCEPT ![t] = mine], queue' = queue \ mine
  PROVE  /\ Outstanding' = Outstanding \ batch[t]
         /\ Cardinality(Outstanding') = TodoAfterCleanUp(t)
         /\ \A u, v \in Threads : u # v => batch'[u] \cap batch'[v] = {}
         /\ \A u \in Threads : batch'[u] \cap queue' = {}
<1>1. /\ batch \in [Threads -> SUBSET Checks]
      /\ queue \in SUBSET Checks
      /\ nTodo = Cardinality(Outstanding)
      /\ \A u, v \in Threads : u # v => batch[u] \cap batch[v] = {}
      /\ \A u \in Threads : batch[u] \cap queue = {}
  BY DEF IInv, TypeOK, TodoIsExact, Outstanding
<1>2. Outstanding' = Outstanding \ batch[t]
  <2>1. ASSUME NEW c PROVE c \in Outstanding' <=> c \in Outstanding \ batch[t]
    <3>1. c \in Outstanding' <=> c \in queue \ mine \/ \E u \in Threads : c \in batch'[u]
      BY DEF Outstanding
    <3>2. c \in Outstanding <=> c \in queue \/ \E u \in Threads : c \in batch[u]
      BY DEF Outstanding
    <3>3. \A u \in Threads : batch'[u] = IF u = t THEN mine ELSE batch[u]
      BY <1>1
    <3> QED BY <1>1, <3>1, <3>2, <3>3
  <2> QED BY <2>1
<1>3. Outstanding \cap batch[t] = batch[t]
  BY DEF Outstanding
<1>4. Cardinality(Outstanding') = Cardinality(Outstanding) - Cardinality(batch[t])
  <2>1. IsFiniteSet(Outstanding)
    BY OutstandingType, SubsetsFinite DEF IInv
  <2>2. Cardinality(Outstanding \ batch[t])
          = Cardinality(Outstanding) - Cardinality(Outstanding \cap batch[t])
    BY <2>1, FS_Difference
  <2> QED BY <1>2, <1>3, <2>2
<1>5. \A u, v \in Threads : u # v => batch'[u] \cap batch'[v] = {}
  BY <1>1
<1>6. \A u \in Threads : batch'[u] \cap queue' = {}
  BY <1>1
<1> QED BY <1>1, <1>2, <1>4, <1>5, <1>6 DEF TodoAfterCleanUp

\* The queue as constructed: nothing queued, every thread outside Loop.
LEMMA InitIInv == Init => IInv
<1> SUFFICES ASSUME Init PROVE IInv
  OBVIOUS
<1>1. TypeOK /\ BatchHeld
  BY ThreadsAssumption DEF Init, TypeOK, BatchHeld, Places, Threads
<1>2. Outstanding = {} /\ InLoop = {} /\ Blocked = {}
  BY DEF Init, Outstanding, InLoop, Blocked
<1>3. TodoIsExact /\ CountsExact
  BY <1>2, FS_EmptySet DEF Init, TodoIsExact, CountsExact, Outstanding
<1>4. StatusSound /\ BetweenBlocks /\ VerdictIsExact
  BY <1>2 DEF Init, StatusSound, BetweenBlocks, VerdictIsExact, Threads
<1> QED BY <1>1, <1>3, <1>4 DEF IInv

\* CCheckQueueControl constructed over an idle queue starts a new round.
LEMMA NewControlIInv == IInv /\ NewControl => IInv'
<1> SUFFICES ASSUME IInv, NewControl PROVE IInv'
  OBVIOUS
<1> USE DEF NewControl
<1>0. Master \in Threads
  BY DEF Threads
<1>1. TypeOK' /\ BatchHeld'
  BY <1>0, ThreadsAssumption DEF IInv, TypeOK, BatchHeld, Places, Threads
<1>2. Outstanding' = Outstanding /\ InLoop' = InLoop /\ Blocked' = Blocked
  <2>1. \A u \in Threads : pc'[u] = IF u = Master THEN "adding" ELSE pc[u]
    BY DEF IInv, TypeOK
  <2> QED BY <2>1, <1>0 DEF Outstanding, InLoop, Blocked
<1>3. TodoIsExact' /\ CountsExact'
  BY <1>2 DEF IInv, TodoIsExact, CountsExact
<1>4. Outstanding = {} /\ fAllOk
  BY DEF IInv, BetweenBlocks
<1>5. \A u \in Threads : batch[u] = {} /\ pc[u] \notin {"work", "done"}
  BY <1>4 DEF Outstanding, IInv, BatchHeld
<1>6. StatusSound' /\ BetweenBlocks' /\ VerdictIsExact'
  BY <1>0, <1>1, <1>2, <1>4, <1>5 DEF IInv, TypeOK, StatusSound, BetweenBlocks, VerdictIsExact
<1> QED BY <1>1, <1>3, <1>6 DEF IInv

\* Add: the new checks enter the queue and nTodo in one critical section.
LEMMA AddIInv == ASSUME IInv, NEW vChecks \in SUBSET (Checks \ added), Add(vChecks)
                 PROVE  IInv'
<1>0. Master \in Threads /\ Cardinality(vChecks) \in Nat /\ IsFiniteSet(vChecks)
  BY SubsetsFinite DEF Threads
<1>1. PICK woken \in SUBSET WaitingWorkers :
        pc' = [t \in Threads |-> IF t \in woken THEN "woken" ELSE pc[t]]
  BY DEF Add, NotifiedBy
<1>2. /\ \A u \in Threads : \/ pc'[u] = pc[u]
                            \/ u \in Workers /\ pc[u] = "waiting" /\ pc'[u] = "woken"
      /\ pc' \in [Threads -> Places]
  BY <1>1 DEF WaitingWorkers, IInv, TypeOK, Places
<1>3. TypeOK'
  BY <1>0, <1>2 DEF Add, IInv, TypeOK
<1>4. BatchHeld'
  BY <1>2 DEF Add, IInv, BatchHeld, Threads
<1>5. InLoop' = InLoop /\ Blocked' = Blocked
  BY <1>2 DEF InLoop, Blocked
<1>6. CountsExact'
  BY <1>5 DEF Add, IInv, CountsExact
<1>7. Outstanding' = Outstanding \cup vChecks /\ Outstanding \subseteq added
  BY DEF Outstanding, Add, IInv, StatusSound
<1>8. TodoIsExact'
  <2>1. Cardinality(Outstanding') = Cardinality(Outstanding) + Cardinality(vChecks)
    <3>1. IsFiniteSet(Outstanding) /\ Cardinality(Outstanding) \in Nat
      BY OutstandingType, SubsetsFinite DEF IInv
    <3>2. Outstanding \cap vChecks = {}
      BY <1>7
    <3>3. Cardinality(Outstanding \cup vChecks)
            = Cardinality(Outstanding) + Cardinality(vChecks) - Cardinality(Outstanding \cap vChecks)
      BY <1>0, <3>1, FS_Union
    <3>4. Cardinality(Outstanding \cap vChecks) = 0
      BY <3>2, FS_EmptySet
    <3>5. Cardinality(Outstanding \cup vChecks) = Cardinality(Outstanding) + Cardinality(vChecks)
      BY <1>0, <3>1, <3>3, <3>4
    <3> QED BY <1>7, <3>5
  <2>2. \A u \in Threads : batch'[u] \cap queue' = {}
    BY <1>7 DEF Add, IInv, TodoIsExact, Outstanding
  <2>3. \A u, v \in Threads : u # v => batch'[u] \cap batch'[v] = {}
    BY DEF Add, IInv, TodoIsExact
  <2>4. nTodo' = Cardinality(Outstanding')
    BY <2>1 DEF Add, IInv, TodoIsExact, Outstanding
  <2> QED BY <2>2, <2>3, <2>4 DEF TodoIsExact, Outstanding
<1>9. StatusSound'
  <2>1. \A u \in Threads : pc'[u] \in {"work", "done"} => pc'[u] = pc[u]
    BY <1>2
  <2>2. pc[Master] = "adding"
    BY DEF Add
  <2> QED BY <1>7, <2>1, <2>2 DEF Add, IInv, StatusSound
<1>10. pc'[Master] = pc[Master] /\ pc[Master] = "adding"
  BY <1>0, <1>2, ThreadsAssumption DEF Add
<1>11. BetweenBlocks' /\ VerdictIsExact'
  BY <1>10 DEF Add, IInv, BetweenBlocks, VerdictIsExact
<1> QED BY <1>3, <1>4, <1>6, <1>8, <1>9, <1>11 DEF IInv


\* The master calls Wait and stands before the mutex of Loop.
LEMMA CallWaitIInv == IInv /\ CallWait => IInv'
<1> SUFFICES ASSUME IInv, CallWait PROVE IInv'
  OBVIOUS
<1> USE DEF CallWait
<1>0. Master \in Threads
  BY DEF Threads
<1>1. \A u \in Threads : pc'[u] = IF u = Master THEN "start" ELSE pc[u]
  BY DEF IInv, TypeOK
<1>2. TypeOK' /\ BatchHeld'
  BY <1>0, <1>1, ThreadsAssumption DEF IInv, TypeOK, BatchHeld, Places, Threads
<1>3. Outstanding' = Outstanding /\ InLoop' = InLoop /\ Blocked' = Blocked
  BY <1>0, <1>1 DEF Outstanding, InLoop, Blocked
<1>4. TodoIsExact' /\ CountsExact'
  BY <1>3 DEF IInv, TodoIsExact, CountsExact
<1>5. StatusSound' /\ BetweenBlocks' /\ VerdictIsExact'
  BY <1>0, <1>1, <1>3 DEF IInv, StatusSound, BetweenBlocks, VerdictIsExact
<1> QED BY <1>2, <1>4, <1>5 DEF IInv

\* A wake-up moves a thread from its condition variable to the mutex, nothing else.
LEMMA SpuriousIInv == ASSUME IInv, NEW t \in Threads, SpuriousWakeUp(t)
                      PROVE  IInv'
<1> USE DEF SpuriousWakeUp
<1>0. Master \in Threads
  BY DEF Threads
<1>1. \A u \in Threads : pc'[u] = IF u = t THEN "woken" ELSE pc[u]
  BY DEF IInv, TypeOK
<1>2. TypeOK' /\ BatchHeld'
  BY <1>1 DEF IInv, TypeOK, BatchHeld, Places, Threads
<1>3. Outstanding' = Outstanding /\ InLoop' = InLoop /\ Blocked' = Blocked
  BY <1>1 DEF Outstanding, InLoop, Blocked
<1>4. TodoIsExact' /\ CountsExact'
  BY <1>3 DEF IInv, TodoIsExact, CountsExact
<1>5. StatusSound' /\ BetweenBlocks' /\ VerdictIsExact'
  BY <1>0, <1>1, <1>3 DEF IInv, StatusSound, BetweenBlocks, VerdictIsExact
<1> QED BY <1>2, <1>4, <1>5 DEF IInv

\* The checks of a batch run outside the mutex and only decide fOk of that thread.
LEMMA VerifyIInv == ASSUME IInv, NEW t \in Threads, Verify(t)
                    PROVE  IInv'
<1> USE DEF Verify
<1>0. Master \in Threads
  BY DEF Threads
<1>1. \A u \in Threads : pc'[u] = IF u = t THEN "done" ELSE pc[u]
  BY DEF IInv, TypeOK
<1>2. TypeOK' /\ BatchHeld'
  <2>1. TypeOK'
    BY DEF IInv, TypeOK, Places
  <2>2. BatchHeld'
    BY <1>1 DEF IInv, BatchHeld, Threads
  <2> QED BY <2>1, <2>2
<1>3. Outstanding' = Outstanding /\ InLoop' = InLoop /\ Blocked' = Blocked
  BY <1>1 DEF Outstanding, InLoop, Blocked
<1>4. TodoIsExact' /\ CountsExact'
  BY <1>3 DEF IInv, TodoIsExact, CountsExact
<1>5. batch[t] \subseteq Outstanding
  BY DEF Outstanding
<1>6. \A u \in Threads : fOk'[u] = IF u = t THEN fOk[t] /\ batch[t] \cap invalid = {} ELSE fOk[u]
  BY DEF IInv, TypeOK
<1>7. StatusSound'
  <2>1. \A u \in Threads : pc'[u] = "done" /\ fOk'[u] => batch'[u] \cap invalid' = {}
    BY <1>1, <1>6 DEF IInv, StatusSound
  <2>2. \A u \in Threads : pc'[u] \in {"work", "done"} /\ ~fOk'[u] => added' \cap invalid' # {}
    BY <1>1, <1>5, <1>6 DEF IInv, StatusSound
  <2>3. pc[Master] = "out" => pc'[Master] = "out"
    BY <1>0, <1>1
  <2> QED BY <1>0, <1>1, <1>3, <2>1, <2>2, <2>3 DEF IInv, StatusSound
<1>8. BetweenBlocks' /\ VerdictIsExact'
  BY <1>0, <1>1, <1>3 DEF IInv, BetweenBlocks, VerdictIsExact
<1> QED BY <1>2, <1>4, <1>7, <1>8 DEF IInv

\* What a critical section makes of the counters, whatever it ends with.
LEMMA CountersInCriticalSection ==
  ASSUME IInv, NEW t \in Threads, AtMutex(t)
  PROVE  /\ InLoop \cup {t} \in SUBSET Threads
         /\ TotalAfterEntry(t) = Cardinality(InLoop \cup {t})
         /\ IdleAfterWakeUp(t) = Cardinality(Blocked \ {t})
<1>1. InLoop \in SUBSET Threads /\ Blocked \in SUBSET Threads
  BY DEF InLoop, Blocked
<1>2. TotalAfterEntry(t) = Cardinality(InLoop \cup {t})
  <2>1. CASE pc[t] = "start"
    <3>1. t \notin InLoop
      BY <2>1 DEF InLoop
    <3> QED BY <1>1, <2>1, <3>1, CountMoves DEF TotalAfterEntry, IInv, CountsExact
  <2>2. CASE pc[t] # "start"
    <3>1. InLoop \cup {t} = InLoop
      BY <2>2 DEF InLoop, AtMutex
    <3> QED BY <2>2, <3>1 DEF TotalAfterEntry, IInv, CountsExact
  <2> QED BY <2>1, <2>2
<1>3. IdleAfterWakeUp(t) = Cardinality(Blocked \ {t})
  <2>1. CASE pc[t] = "woken"
    <3>1. t \in Blocked
      BY <2>1 DEF Blocked
    <3> QED BY <1>1, <2>1, <3>1, CountMoves DEF IdleAfterWakeUp, IInv, CountsExact
  <2>2. CASE pc[t] # "woken"
    <3>1. Blocked \ {t} = Blocked
      BY <2>2 DEF Blocked, AtMutex
    <3> QED BY <2>2, <3>1 DEF IdleAfterWakeUp, IInv, CountsExact
  <2> QED BY <2>1, <2>2
<1> QED BY <1>1, <1>2, <1>3

\* The status after the clean-up covers the batch that was cleaned up.
LEMMA StatusAfterCleanUp ==
  ASSUME IInv, NEW t \in Threads, AtMutex(t), t = Master => pc[t] # "out"
  PROVE  /\ OkAfterCleanUp(t) \in BOOLEAN
         /\ OkAfterCleanUp(t) /\ pc[Master] # "out"
              => (added \ (Outstanding \ batch[t])) \cap invalid = {}
         /\ ~OkAfterCleanUp(t) => added \cap invalid # {}
<1>1. batch[t] \subseteq Outstanding
  BY DEF Outstanding
<1>2. pc[t] # "done" => batch[t] = {}
  BY DEF IInv, BatchHeld, AtMutex
<1>3. OkAfterCleanUp(t) /\ pc[Master] # "out"
              => (added \ (Outstanding \ batch[t])) \cap invalid = {}
  BY <1>1, <1>2 DEF OkAfterCleanUp, IInv, StatusSound
<1>4. ~OkAfterCleanUp(t) => added \cap invalid # {}
  BY <1>1 DEF OkAfterCleanUp, IInv, StatusSound
<1>5. OkAfterCleanUp(t) \in BOOLEAN
  BY DEF OkAfterCleanUp
<1> QED BY <1>3, <1>4, <1>5

\* The master leaves Loop with nTodo = 0 and resets fAllOk.
LEMMA ReturnIInv == ASSUME IInv, NEW t \in Threads, Return(t)
                    PROVE  IInv'
<1>0. t = Master /\ AtMutex(t) /\ pc[t] # "out"
  BY DEF Return, AtMutex
<1>1. \A u \in Threads : pc'[u] = IF u = t THEN "out" ELSE pc[u]
  BY DEF Return, IInv, TypeOK
<1>2. /\ Outstanding' = Outstanding \ batch[t]
      /\ Cardinality(Outstanding') = TodoAfterCleanUp(t)
      /\ \A u, v \in Threads : u # v => batch'[u] \cap batch'[v] = {}
      /\ \A u \in Threads : batch'[u] \cap queue' = {}
  BY CriticalSection, {} \in SUBSET queue DEF Return
<1>3. TodoIsExact'
  BY <1>2 DEF Return, TodoIsExact, Outstanding
<1>4. InLoop' = (InLoop \cup {t}) \ {t} /\ Blocked' = Blocked \ {t}
  BY <1>1 DEF InLoop, Blocked
<1>5. CountsExact' /\ nTotal' \in Nat /\ nIdle' \in Nat
  <2>1. /\ nTotal' = Cardinality((InLoop \cup {t}) \ {t})
        /\ nIdle' = Cardinality(Blocked \ {t})
    <3>1. /\ TotalAfterEntry(t) = Cardinality(InLoop \cup {t})
          /\ IdleAfterWakeUp(t) = Cardinality(Blocked \ {t})
          /\ InLoop \cup {t} \in SUBSET Threads
      BY <1>0, CountersInCriticalSection
    <3>2. Cardinality((InLoop \cup {t}) \ {t}) = Cardinality(InLoop \cup {t}) - 1
      BY <3>1, CountMoves
    <3> QED BY <3>1, <3>2 DEF Return
  <2>2. (InLoop \cup {t}) \ {t} \in SUBSET Threads /\ Blocked \ {t} \in SUBSET Threads
    BY DEF InLoop, Blocked
  <2>3. nTotal' \in Nat /\ nIdle' \in Nat
    BY <2>1, <2>2, SubsetsFinite
  <2> QED BY <1>4, <2>1, <2>3 DEF CountsExact
<1>6. TypeOK'
  BY <1>5 DEF Return, IInv, TypeOK, Places
<1>7. BatchHeld'
  <2>1. \A u \in Threads : batch'[u] = IF u = t THEN {} ELSE batch[u]
    BY DEF Return, IInv, TypeOK
  <2> QED BY <1>0, <1>1, <2>1, ThreadsAssumption DEF IInv, BatchHeld, Threads
<1>8. Outstanding' = {}
  <2>1. Outstanding' \in SUBSET Checks
    BY <1>2, OutstandingType DEF IInv
  <2>2. Cardinality(Outstanding') = 0
    BY <1>2 DEF Return
  <2> QED BY <2>1, <2>2, SubsetsFinite, FS_EmptySet
<1>9. StatusSound'
  BY <1>0, <1>1, <1>8 DEF Return, IInv, StatusSound
<1>10. BetweenBlocks'
  BY <1>0, <1>1, <1>8 DEF Return, BetweenBlocks
<1>11. VerdictIsExact'
  <2>1. Outstanding \ batch[t] = {}
    BY <1>2, <1>8
  <2> QED BY <1>0, <2>1, StatusAfterCleanUp DEF Return, VerdictIsExact
<1> QED BY <1>3, <1>5, <1>6, <1>7, <1>9, <1>10, <1>11 DEF IInv

\* A thread that finds the queue empty cleans up its batch and waits.
LEMMA BlockIInv == ASSUME IInv, NEW t \in Threads, Block(t)
                   PROVE  IInv'
<1>0. AtMutex(t) /\ pc[t] # "out" /\ Master \in Threads
  BY DEF Block, AtMutex, Threads
<1>1. /\ pc' \in [Threads -> Places]
      /\ pc'[t] = "waiting"
      /\ \A u \in Threads \ {t} : pc'[u] = pc[u] \/ (pc[u] = "waiting" /\ pc'[u] = "woken" /\ u = Master)
  BY DEF Block, GoesTo, NotifiesMaster, IInv, TypeOK, Places
<1>2. /\ Outstanding' = Outstanding \ batch[t]
      /\ Cardinality(Outstanding') = TodoAfterCleanUp(t)
      /\ \A u, v \in Threads : u # v => batch'[u] \cap batch'[v] = {}
      /\ \A u \in Threads : batch'[u] \cap queue' = {}
  BY CriticalSection, {} \in SUBSET queue DEF Block
<1>3. TodoIsExact'
  BY <1>2 DEF Block, TodoIsExact, Outstanding
<1>4. InLoop' = InLoop \cup {t} /\ Blocked' = (Blocked \ {t}) \cup {t}
  <2>1. \A u \in Threads \ {t} : /\ pc'[u] \in {"waiting", "woken"} <=> pc[u] \in {"waiting", "woken"}
                                 /\ pc'[u] \in {"work", "done"} <=> pc[u] \in {"work", "done"}
    BY <1>1
  <2> QED BY <1>1, <2>1 DEF InLoop, Blocked
<1>5. CountsExact' /\ nTotal' \in Nat /\ nIdle' \in Nat
  <2>1. /\ nTotal' = Cardinality(InLoop \cup {t})
        /\ nIdle' = Cardinality((Blocked \ {t}) \cup {t})
    <3>1. Blocked \ {t} \in SUBSET Threads /\ t \notin Blocked \ {t}
      BY DEF Blocked
    <3> QED BY <1>0, <3>1, CountersInCriticalSection, CountMoves DEF Block
  <2>2. InLoop \cup {t} \in SUBSET Threads /\ (Blocked \ {t}) \cup {t} \in SUBSET Threads
    BY DEF InLoop, Blocked
  <2>3. nTotal' \in Nat /\ nIdle' \in Nat
    BY <2>1, <2>2, SubsetsFinite
  <2> QED BY <1>4, <2>1, <2>3 DEF CountsExact
<1>6. TypeOK'
  <2>1. nTodo' \in Nat
    <3>1. Outstanding' \in SUBSET Checks
      BY <1>2, OutstandingType DEF IInv
    <3> QED BY <1>2, <3>1, SubsetsFinite DEF Block
  <2> QED BY <1>0, <1>1, <1>5, <2>1, StatusAfterCleanUp DEF Block, IInv, TypeOK
<1>7. BatchHeld'
  <2>1. \A u \in Threads : batch'[u] = IF u = t THEN {} ELSE batch[u]
    BY DEF Block, IInv, TypeOK
  <2> QED BY <1>1, <2>1 DEF IInv, BatchHeld, Threads
<1>8. StatusSound'
  <2>1. \A u \in Threads : pc'[u] \in {"work", "done"} => u # t /\ pc'[u] = pc[u]
    BY <1>1
  <2>2. \A u \in Threads : u # t => batch'[u] = batch[u]
    BY DEF Block, IInv, TypeOK
  <2>3. pc'[Master] # "out" => pc[Master] # "out"
    BY <1>0, <1>1
  <2>4. /\ fAllOk' /\ pc'[Master] # "out" => (added' \ Outstanding') \cap invalid' = {}
        /\ ~fAllOk' => added' \cap invalid' # {}
        /\ Outstanding' \subseteq added'
    BY <1>0, <1>2, <2>3, StatusAfterCleanUp DEF Block, IInv, StatusSound
  <2> QED BY <2>1, <2>2, <2>4 DEF Block, IInv, StatusSound
<1>9. BetweenBlocks' /\ VerdictIsExact'
  <2>1. pc[Master] # "out" => pc'[Master] # "out"
    BY <1>0, <1>1
  <2>2. pc'[Master] = "out" => Outstanding = {} /\ fAllOk /\ pc[t] # "done"
    BY <1>0, <1>1 DEF IInv, BetweenBlocks, BatchHeld, Outstanding
  <2>3. pc'[Master] = "out" => Outstanding' = {} /\ fAllOk'
    BY <1>2, <2>2 DEF Block, OkAfterCleanUp
  <2>4. pc'[Master] # "out" => pc[Master] # "out"
    BY <1>0, <1>1
  <2> QED BY <2>3, <2>4 DEF Block, IInv, BetweenBlocks, VerdictIsExact
<1> QED BY <1>3, <1>5, <1>6, <1>7, <1>8, <1>9 DEF IInv

\* The batch size computed in Loop is at least one check.
LEMMA BatchNotEmpty ==
  ASSUME IInv, NEW t \in Threads, AtMutex(t)
  PROVE  BatchTarget(t) \in Nat \ {0}
<1>1. nBatchSize \in Nat \ {0} /\ Cardinality(queue) \in Nat
  BY BatchAssumption, SubsetsFinite DEF IInv, TypeOK
<1>2. TotalAfterEntry(t) \in Nat /\ IdleAfterWakeUp(t) \in Nat
  <2>1. InLoop \cup {t} \in SUBSET Threads /\ Blocked \ {t} \in SUBSET Threads
    BY DEF InLoop, Blocked
  <2> QED BY <2>1, CountersInCriticalSection, SubsetsFinite
<1>3. ASSUME NEW d \in Nat \ {0} PROVE Cardinality(queue) \div d \in Int
  BY <1>1
<1>4. TotalAfterEntry(t) + IdleAfterWakeUp(t) + 1 \in Nat \ {0}
  BY <1>2
<1>5. Cardinality(queue) \div (TotalAfterEntry(t) + IdleAfterWakeUp(t) + 1) \in Int
  BY <1>3, <1>4
<1> QED BY <1>1, <1>5 DEF BatchTarget

\* A thread cleans up its batch and moves the next one out of the queue.
LEMMA TakeIInv == ASSUME IInv, NEW t \in Threads, Take(t)
                  PROVE  IInv'
<1>0. AtMutex(t) /\ pc[t] # "out" /\ Master \in Threads
  BY DEF Take, AtMutex, Threads
<1>1. /\ pc' \in [Threads -> Places]
      /\ pc'[t] = "work"
      /\ \A u \in Threads \ {t} : pc'[u] = pc[u] \/ (pc[u] = "waiting" /\ pc'[u] = "woken" /\ u = Master)
  BY DEF Take, GoesTo, NotifiesMaster, IInv, TypeOK, Places
<1>m. PICK mine \in SUBSET queue :
         /\ Cardinality(mine) = BatchTarget(t)
         /\ batch' = [batch EXCEPT ![t] = mine]
         /\ queue' = queue \ mine
  BY DEF Take
<1>n. mine # {} /\ mine \in SUBSET Checks
  BY <1>0, <1>m, BatchNotEmpty, FS_EmptySet DEF IInv, TypeOK
<1>2. /\ Outstanding' = Outstanding \ batch[t]
      /\ Cardinality(Outstanding') = TodoAfterCleanUp(t)
      /\ \A u, v \in Threads : u # v => batch'[u] \cap batch'[v] = {}
      /\ \A u \in Threads : batch'[u] \cap queue' = {}
  BY <1>m, CriticalSection
<1>3. TodoIsExact'
  BY <1>2 DEF Take, TodoIsExact, Outstanding
<1>4. InLoop' = InLoop \cup {t} /\ Blocked' = Blocked \ {t}
  <2>1. \A u \in Threads \ {t} : /\ pc'[u] \in {"waiting", "woken"} <=> pc[u] \in {"waiting", "woken"}
                                 /\ pc'[u] \in {"work", "done"} <=> pc[u] \in {"work", "done"}
    BY <1>1
  <2> QED BY <1>1, <2>1 DEF InLoop, Blocked
<1>5. CountsExact' /\ nTotal' \in Nat /\ nIdle' \in Nat
  <2>1. /\ nTotal' = Cardinality(InLoop \cup {t})
        /\ nIdle' = Cardinality(Blocked \ {t})
    BY <1>0, CountersInCriticalSection DEF Take
  <2>2. InLoop \cup {t} \in SUBSET Threads /\ Blocked \ {t} \in SUBSET Threads
    BY DEF InLoop, Blocked
  <2>3. nTotal' \in Nat /\ nIdle' \in Nat
    BY <2>1, <2>2, SubsetsFinite
  <2> QED BY <1>4, <2>1, <2>3 DEF CountsExact
<1>b. \A u \in Threads : batch'[u] = IF u = t THEN mine ELSE batch[u]
  BY <1>m DEF IInv, TypeOK
<1>6. TypeOK'
  <2>1. nTodo' \in Nat
    <3>1. Outstanding' \in SUBSET Checks
      BY <1>2, OutstandingType DEF IInv
    <3> QED BY <1>2, <3>1, SubsetsFinite DEF Take
  <2>2. fAllOk' \in BOOLEAN /\ fOk' \in [Threads -> BOOLEAN]
    BY <1>0, StatusAfterCleanUp DEF Take, IInv, TypeOK
  <2>3. batch' \in [Threads -> SUBSET Checks] /\ queue' \in SUBSET Checks
    BY <1>m, <1>n DEF IInv, TypeOK
  <2> QED BY <1>1, <1>5, <2>1, <2>2, <2>3 DEF Take, IInv, TypeOK
<1>7. BatchHeld'
  BY <1>1, <1>b, <1>n DEF IInv, BatchHeld, Threads
<1>8. StatusSound'
  <2>1. \A u \in Threads : u # t /\ pc'[u] \in {"work", "done"} => pc'[u] = pc[u]
    BY <1>1
  <2>2. \A u \in Threads : u # t => fOk'[u] = fOk[u]
    BY DEF Take, IInv, TypeOK
  <2>3. fOk'[t] = OkAfterCleanUp(t)
    BY DEF Take, IInv, TypeOK
  <2>4. pc'[Master] # "out" => pc[Master] # "out"
    BY <1>0, <1>1
  <2>5. /\ fAllOk' /\ pc'[Master] # "out" => (added' \ Outstanding') \cap invalid' = {}
        /\ ~fAllOk' => added' \cap invalid' # {}
        /\ ~OkAfterCleanUp(t) => added' \cap invalid' # {}
        /\ Outstanding' \subseteq added'
    BY <1>0, <1>2, <2>4, StatusAfterCleanUp DEF Take, IInv, StatusSound
  <2>6. \A u \in Threads : pc'[u] = "done" /\ fOk'[u] => batch'[u] \cap invalid' = {}
    BY <1>1, <1>b, <2>1, <2>2 DEF Take, IInv, StatusSound
  <2>7. \A u \in Threads : pc'[u] \in {"work", "done"} /\ ~fOk'[u] => added' \cap invalid' # {}
    BY <2>1, <2>2, <2>3, <2>5 DEF Take, IInv, StatusSound
  <2> QED BY <2>5, <2>6, <2>7 DEF StatusSound
<1>9. BetweenBlocks' /\ VerdictIsExact'
  <2>1. pc[Master] # "out"
    BY DEF Take, IInv, BetweenBlocks, Outstanding
  <2>2. pc'[Master] # "out"
    BY <1>0, <1>1, <2>1
  <2> QED BY <2>1, <2>2 DEF Take, IInv, BetweenBlocks, VerdictIsExact
<1> QED BY <1>3, <1>5, <1>6, <1>7, <1>8, <1>9 DEF IInv

\* A step that changes no variable keeps the invariant.
LEMMA StutterIInv == IInv /\ UNCHANGED vars => IInv'
  BY DEF vars, IInv, TypeOK, BatchHeld, TodoIsExact, CountsExact, InLoop, Blocked,
         StatusSound, BetweenBlocks, VerdictIsExact, Outstanding

\* The inductive invariant holds in every reachable state of Loop, Add and
\* CCheckQueueControl.
THEOREM QueueInvariant == Spec => []IInv
<1>1. IInv /\ [Next]_vars => IInv'
  BY NewControlIInv, AddIInv, CallWaitIInv, SpuriousIInv, VerifyIInv, ReturnIInv,
     BlockIInv, TakeIInv, StutterIInv DEF Next, Step
<1> QED BY <1>1, InitIInv, PTL DEF Spec

\* The counters keep their types (in particular nTodo, an unsigned int in the
\* code, never wraps below 0) whatever the threads do.
THEOREM TypeCorrect == Spec => []TypeOK
  BY QueueInvariant, PTL DEF IInv

\* nTodo counts the queued checks and those in the threads' batches.
THEOREM TodoCorrect == Spec => []TodoIsExact
  BY QueueInvariant, PTL DEF IInv

\* Wait() returns whether every check added to this control verifies.
THEOREM VerdictCorrect == Spec => []VerdictIsExact
  BY QueueInvariant, PTL DEF IInv

\* The assertion in CCheckQueueControl's constructor cannot fail.
THEOREM ControlIdle == Spec => []ControlStartsIdle
<1>1. IInv => ControlStartsIdle
  <2> SUFFICES ASSUME IInv, pc[Master] = "out" PROVE IsIdle
    BY DEF ControlStartsIdle
  <2>1. Outstanding = {} /\ fAllOk
    BY DEF IInv, BetweenBlocks
  <2>2. nTodo = 0
    BY <2>1, FS_EmptySet DEF IInv, TodoIsExact, Outstanding
  <2>3. InLoop = Blocked
    BY <2>1 DEF IInv, BatchHeld, InLoop, Blocked, Outstanding
  <2> QED BY <2>1, <2>2, <2>3 DEF IsIdle, IInv, CountsExact
<1> QED BY <1>1, QueueInvariant, PTL

=============================================================================
