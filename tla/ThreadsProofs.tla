--------------------------- MODULE ThreadsProofs ---------------------------
(***************************************************************************)
(* Two CPUs never run on the same stack, whatever the threads do, early    *)
(* wake-ups included.  The argument is the run-lock discipline of yield(), *)
(* swapRegisters() and restoreRegisters(): a CPU takes the lock of a task  *)
(* before it runs on the task's stack and keeps it until it has left.      *)
(***************************************************************************)
EXTENDS Threads, TLAPS, WellFoundedInduction, FiniteSetTheorems

Refs == Tasks \cup {Null}
Contexts == [at : {"thread", "haltCheck"}, irqs : BOOLEAN]

\* The types of the queues and of what addTask() is given.
Links ==
  /\ head \in [Queues -> Refs] /\ next \in [Tasks -> Refs]
  /\ adding \in [Tasks -> Refs] /\ size \in [Queues -> Int]

\* The types of the flags of the CPUs.
Flags ==
  /\ yieldLocked \in [CPUs -> BOOLEAN] /\ irqs \in [CPUs -> BOOLEAN]
  /\ irqsAfter \in [CPUs -> BOOLEAN] /\ irqsSaved \in [CPUs -> BOOLEAN]

\* The types of what the CPUs run.
Stacks ==
  /\ current \in [CPUs -> Refs] /\ exec \in [CPUs -> Refs] /\ chosen \in [CPUs -> Refs]
  /\ runLock \in [Tasks -> CPUs \cup {Null}] /\ pc \in [CPUs -> CpuSteps]
  /\ saved \in [Tasks -> Contexts]

\* The labels at which a thread has chosen a scheduler.
Aiming == {"mark", "lock", "front", "back", "addYield", "call", "mailbox", "wait"}

\* addTask() works on a scheduler that exists.
Aims ==
  /\ tpc \in [Tasks -> Labels] /\ after \in [Tasks -> Returns]
  /\ target \in [Tasks -> CPUs \cup {Null}]
  /\ \A t \in Tasks : tpc[t] \in Aiming => target[t] \in CPUs

\* On which stack a CPU is at each step of yield().
CpuOK(c) ==
  /\ pc[c] \in {"thread", "yield", "switch", "unlockSelf", "haltCheck"} => exec[c] = current[c]
  /\ pc[c] \in {"thread", "requeue", "unlock", "unlockSelf", "haltCheck"} => exec[c] # Null
  /\ pc[c] \in {"haltRelease", "halted"} => exec[c] = Null /\ current[c] = Null
  /\ pc[c] \in {"requeue", "unlock", "lock"} => current[c] # Null
  /\ pc[c] \in {"switch", "haltRelease"} => chosen[c] # Null
  /\ yieldLocked[c] => pc[c] \in {"thread", "yield"} /\ exec[c] # Null

\* The CPU that runs on a task's stack, or has just left it to halt, holds the
\* task's run lock.
Owns(c) ==
  /\ Running(c) => runLock[exec[c]] = c
  /\ pc[c] = "haltRelease" => runLock[chosen[c]] = c

\* The inductive invariant.
RunInv ==
  Links /\ nextTask \in Refs /\ Flags /\ Stacks /\ Aims /\ \A c \in CPUs : CpuOK(c) /\ Owns(c)
-----------------------------------------------------------------------------
(* The least busy scheduler exists *)

\* A set of natural numbers has a least element.
LEMMA LeastNat ==
  ASSUME NEW S \in SUBSET Nat, S # {}
  PROVE  \E n \in S : \A m \in S : n <= m
  <1> DEFINE R == OpToRel(<, Nat)
  <1>1. IsWellFoundedOn(R, Nat)
    BY NatLessThanWellFounded, Zenon
  <1>2. \A x, y \in Nat : <<y, x>> \in R <=> y < x
    BY Zenon DEF OpToRel
  <1>3. S \subseteq Nat
    OBVIOUS
  <1> HIDE DEF R
  <1>4. PICK x \in S : \A y \in S : ~(<<y, x>> \in R)
    BY <1>1, <1>3, WFMin, Zenon
  <1>5. ASSUME NEW y \in S PROVE x <= y
    <2>1. x \in Nat /\ y \in Nat
      BY <1>3
    <2>2. ~(y < x)
      BY <2>1, <1>4, <1>2, Zenon
    <2> QED
      BY <2>1, <2>2
  <1> QED
    BY Zenon, <1>5

\* A finite set of integers has a least element, which Min() gives.
LEMMA FiniteMin ==
  ASSUME NEW S \in SUBSET Int, IsFiniteSet(S), S # {}
  PROVE  Min(S) \in S /\ \A y \in S : Min(S) <= y
  <1> DEFINE HasMin(T) == \E x \in T : \A y \in T : x <= y
             B == {n \in Nat : \E T \in SUBSET Int :
                     IsFiniteSet(T) /\ T # {} /\ Cardinality(T) = n /\ ~HasMin(T)}
  <1>1. SUFFICES B = {}
    <2>1. Cardinality(S) \in Nat
      BY FS_CardinalityType
    <2>2. HasMin(S)
      BY <1>1, <2>1
    <2> QED
      BY <2>2, Zenon DEF Min
  <1>2. SUFFICES ASSUME B # {} PROVE FALSE
    OBVIOUS
  <1>3. PICK n \in B : \A m \in B : n <= m
    BY Zenon, <1>2, LeastNat
  <1>4. PICK T \in SUBSET Int : IsFiniteSet(T) /\ T # {} /\ Cardinality(T) = n /\ ~HasMin(T)
    BY <1>3
  <1>5. PICK x \in T : TRUE
    BY Zenon, <1>4
  <1> DEFINE U == T \ {x}
  <1>6. IsFiniteSet(U) /\ Cardinality(U) = n - 1 /\ U \in SUBSET Int /\ n \in Nat
    BY Zenon, <1>3, <1>4, <1>5, FS_RemoveElement
  <1>7. n - 1 \in Nat
    BY Zenon, <1>6, FS_CardinalityType
  <1>8. U = {} \/ HasMin(U)
    <2>1. n - 1 \notin B
      BY <1>3, <1>6, <1>7
    <2> QED
      BY Zenon, <1>6, <1>7, <2>1
  <1>9. CASE U = {}
    BY <1>4, <1>5, <1>9
  <1>10. CASE HasMin(U)
    <2>1. PICK m \in U : \A y \in U : m <= y
      BY <1>10
    <2>2. m \in Int /\ x \in Int /\ m \in T
      BY <1>6
    <2>3. \A y \in T : y \in U \/ y = x
      OBVIOUS
    <2>4. CASE m <= x
      BY Zenon, <1>4, <2>1, <2>2, <2>3, <2>4
    <2>5. CASE x < m
      <3>1. \A y \in U : y \in Int
        BY <1>6
      <3> QED
        BY <1>4, <1>5, <2>1, <2>2, <2>3, <2>5, <3>1
    <2> QED
      BY <2>2, <2>4, <2>5
  <1> QED
    BY Zenon, <1>8, <1>9, <1>10

\* getLeastBusy() finds a CPU.
LEMMA LeastBusyIsCpu ==
  ASSUME NEW c \in CPUs, size \in [Queues -> Int]
  PROVE  LeastBusy(c) \in CPUs
  <1> DEFINE f == [d \in CPUs |-> TaskCount(d)]
             S == {TaskCount(d) : d \in CPUs}
             least == Min(S)
             D == {d \in CPUs : TaskCount(d) = least}
  <1>1. \A d \in CPUs : TaskCount(d) \in Int
    BY SchedulerConstants DEF TaskCount
  <1> HIDE DEF TaskCount
  <1>2. S \in SUBSET Int /\ S # {}
    BY <1>1
  <1>3. f \in Surjection(CPUs, S)
    BY DEF Surjection
  <1> HIDE DEF f
  <1>4. IsFiniteSet(S)
    BY <1>3, FS_Surjection, SchedulerConstants, Zenon
  <1>5. least \in S
    BY Zenon, <1>2, <1>4, FiniteMin
  <1> HIDE DEF least
  <1>6. D # {} /\ D \in SUBSET Int /\ D \in SUBSET CPUs
    BY <1>5, SchedulerConstants
  <1>7. IsFiniteSet(D)
    BY <1>6, FS_Subset, SchedulerConstants, Zenon
  <1>8. Min(D) \in D
    BY <1>6, <1>7, FiniteMin
  <1>9. Min(D) \in CPUs
    BY <1>8
  <1>10. LeastBusy(c) = IF TaskCount(c) = least THEN c ELSE Min(D)
    BY Zenon DEF LeastBusy, least, S, D
  <1> QED
    BY <1>9, <1>10
-----------------------------------------------------------------------------
(* The queues *)

\* pop() leaves tasks or null in the links.
LEMMA PopLinks ==
  ASSUME NEW q \in Queues, Pop(q), Links
  PROVE  head' \in [Queues -> Refs] /\ next' \in [Tasks -> Refs] /\ size' \in [Queues -> Int]
  BY NullIsNoTask DEF Links, Pop, Refs, queueVars

\* So do push() and pushFront().
LEMMA PushLinks ==
  ASSUME NEW q \in Queues, NEW t \in Refs, Push(q, t) \/ PushFront(q, t), Links
  PROVE  head' \in [Queues -> Refs] /\ next' \in [Tasks -> Refs] /\ size' \in [Queues -> Int]
  BY DEF Links, Push, PushFront, Refs
-----------------------------------------------------------------------------
(* The steps of yield() *)

\* yield() saves and restores interrupt flags.
LEMMA YieldFlags ==
  ASSUME Flags, Stacks, NEW c \in CPUs, CpuOK(c), YieldStep(c)
  PROVE  Flags'
<1> USE DEF Flags, schedulers, switching, calls, locals
<1>1. CASE YieldPostpone(c)
  BY <1>1 DEF YieldPostpone
<1>2. CASE YieldPop(c)
  BY <1>2, Zenon DEF YieldPop
<1>3. CASE SwitchTo(c)
  BY <1>3 DEF SwitchTo
<1>4. CASE Requeue(c)
  BY <1>4 DEF Requeue
<1>5. CASE SaveAndUnlock(c)
  BY Zenon, <1>5 DEF SaveAndUnlock
<1>6. CASE LockAndRestore(c)
  BY Zenon, <1>6 DEF LockAndRestore, Stacks, CpuOK, Contexts, Refs
<1>7. CASE HaltCheck(c)
  BY Zenon, <1>7 DEF HaltCheck
<1>8. CASE HaltRelease(c)
  BY <1>8 DEF HaltRelease
<1> HIDE DEF Flags, schedulers, switching, calls, locals
<1> QED
  BY Zenon, <1>1, <1>2, <1>3, <1>4, <1>5, <1>6, <1>7, <1>8 DEF YieldStep

\* yield() moves CPUs between tasks.
LEMMA YieldStacks ==
  ASSUME Links, Flags, Stacks, NEW c \in CPUs, CpuOK(c), YieldStep(c)
  PROVE  Stacks'
<1> USE DEF Stacks, schedulers, switching, CpuSteps
<1>1. CASE YieldPostpone(c)
  BY Zenon, <1>1 DEF YieldPostpone
<1>2. CASE YieldPop(c)
  BY Zenon, <1>2, SchedulerConstants DEF YieldPop, Links
<1>3. CASE SwitchTo(c)
  BY Zenon, <1>3 DEF SwitchTo, Refs
<1>4. CASE Requeue(c)
  BY <1>4 DEF Requeue
<1>5. CASE SaveAndUnlock(c)
  BY <1>5, Zenon DEF SaveAndUnlock, Contexts, Flags
<1>6. CASE LockAndRestore(c)
  BY ZenonT(40), <1>6 DEF LockAndRestore, CpuOK, Contexts, Refs
<1>7. CASE HaltCheck(c)
  BY <1>7 DEF HaltCheck, Refs
<1>8. CASE HaltRelease(c)
  BY <1>8, Zenon DEF HaltRelease, Refs
<1> HIDE DEF Stacks, schedulers, switching, CpuSteps
<1> QED
  BY Zenon, <1>1, <1>2, <1>3, <1>4, <1>5, <1>6, <1>7, <1>8 DEF YieldStep

\* A step of yield() on one CPU leaves every CPU where its code says it is.
LEMMA YieldCpuOK ==
  ASSUME Stacks, NEW c \in CPUs, YieldStep(c), NEW d \in CPUs, CpuOK(c), CpuOK(d), Flags, Links
  PROVE  CpuOK(d)'
<1> USE NullIsNoTask, SchedulerConstants DEF Stacks, Flags, schedulers, switching, CpuOK, Refs
<1>1. CASE YieldPostpone(c)
  BY Zenon, <1>1 DEF YieldPostpone
<1>2. CASE YieldPop(c)
  BY ZenonT(40), <1>2 DEF YieldPop
<1>3. CASE SwitchTo(c)
  BY Zenon, <1>3 DEF SwitchTo
<1>4. CASE Requeue(c)
  BY Zenon, <1>4 DEF Requeue
<1>5. CASE SaveAndUnlock(c)
  BY Zenon, <1>5 DEF SaveAndUnlock
<1>6. CASE LockAndRestore(c)
  BY ZenonT(40), <1>6 DEF LockAndRestore, Contexts
<1>7. CASE HaltCheck(c)
  BY <1>7 DEF HaltCheck
<1>8. CASE HaltRelease(c)
  BY <1>8 DEF HaltRelease
<1> HIDE NullIsNoTask, SchedulerConstants DEF Stacks, Flags, schedulers, switching, CpuOK, Refs
<1> QED
  BY ZenonT(40), <1>1, <1>2, <1>3, <1>4, <1>5, <1>6, <1>7, <1>8 DEF YieldStep

\* A step of yield() on one CPU takes no lock from another: swapRegisters()
\* releases the lock of the task that it has left, restoreRegisters() takes a
\* free one.
LEMMA YieldOwns ==
  ASSUME Stacks, NEW c \in CPUs, YieldStep(c), NEW d \in CPUs, CpuOK(c), Owns(c), CpuOK(d), Owns(d)
  PROVE  Owns(d)'
<1> USE NullIsNoTask, SchedulerConstants DEF Stacks, schedulers, switching, CpuOK, Refs, Owns,
        Running
<1>1. CASE YieldPostpone(c)
  BY Zenon, <1>1 DEF YieldPostpone
<1>2. CASE YieldPop(c)
  BY Zenon, <1>2 DEF YieldPop
<1>3. CASE SwitchTo(c)
  BY Zenon, <1>3 DEF SwitchTo
<1>4. CASE Requeue(c)
  BY Zenon, <1>4 DEF Requeue
<1>5. CASE SaveAndUnlock(c)
  BY Zenon, <1>5 DEF SaveAndUnlock
<1>6. CASE LockAndRestore(c)
  BY ZenonT(40), <1>6 DEF LockAndRestore, Contexts
<1>7. CASE HaltCheck(c)
  BY ZenonT(40), <1>7 DEF HaltCheck
<1>8. CASE HaltRelease(c)
  BY ZenonT(40), <1>8 DEF HaltRelease
<1> HIDE NullIsNoTask, SchedulerConstants DEF Stacks, schedulers, switching, CpuOK, Refs, Owns,
         Running
<1> QED
  BY ZenonT(40), <1>1, <1>2, <1>3, <1>4, <1>5, <1>6, <1>7, <1>8 DEF YieldStep
-----------------------------------------------------------------------------
(* The other steps *)

\* A step that leaves CPU c on its stack: it may enter yield(), and set or clear
\* the lock against it.
Stays(c) ==
  /\ UNCHANGED <<current, switching>>
  /\ \/ UNCHANGED <<pc, yieldLocked>>
     \/ /\ pc[c] \in {"thread", "halted"} /\ pc' = [pc EXCEPT ![c] = "yield"]
        /\ UNCHANGED yieldLocked \/ yieldLocked' = [yieldLocked EXCEPT ![c] = FALSE]
     \/ /\ pc[c] = "thread" /\ UNCHANGED pc
        /\ \E b \in BOOLEAN : yieldLocked' = [yieldLocked EXCEPT ![c] = b]

\* Such a step changes no run lock and moves no CPU.
LEMMA StaysOwns ==
  ASSUME Stacks, Flags, NEW c \in CPUs, NEW d \in CPUs, CpuOK(c), Owns(c), CpuOK(d), Owns(d),
         Stays(c)
  PROVE  Stacks' /\ CpuOK(d)' /\ Owns(d)'
  BY DEF Stacks, CpuOK, Owns, Running, switching, CpuSteps, Stays, Flags

\* What the threads do, and the interrupts that they take.
OtherStep(c) ==
  \/ AddStep(c) \/ TakeCall(c) \/ Tick(c) \/ ThreadStep(c) \/ MutexStep(c)
  \/ CompletionStep(c) \/ \E l \in {"awaitLock", "signalLock"} : StartAcquire(c, l)

\* The threads and the interrupts leave every CPU on its stack.
LEMMA OthersStay ==
  ASSUME Links, Flags, Aims, Stacks, NEW c \in CPUs, CpuOK(c), OtherStep(c)
  PROVE  Stays(c) /\ Flags' /\ Aims'
<1> pc[c] = "thread" => exec[c] \in Tasks
  BY Zenon DEF Stacks, CpuOK, Refs
<1> LeastBusy(c) \in CPUs
  BY Zenon, LeastBusyIsCpu DEF Links
<1> USE DEF Stays, Flags, Aims, Aiming, At, Goto, schedulers, switching, locals, Labels, Returns,
            AddTaskSteps
<1>1. CASE AddPick(c)
  BY Zenon, <1>1 DEF AddPick
<1>2. CASE AddMark(c)
  BY Zenon, <1>2 DEF AddMark
<1>3. CASE AddCheck(c)
  BY ZenonT(40), <1>3 DEF AddCheck
<1>4. CASE AddPush(c)
  BY <1>4 DEF AddPush, AddRelease, Return
<1>5. CASE FindScheduler(c, "yield")
  BY Zenon, <1>5 DEF FindScheduler
<1>6. CASE ThreadYield(c)
  BY Zenon, <1>6 DEF ThreadYield, CallYield, Return
<1>7. CASE AddCall(c)
  BY Zenon, <1>7 DEF AddCall
<1>8. CASE AddSend(c)
  BY Zenon, <1>8 DEF AddSend
<1>9. CASE AddReturn(c)
  BY ZenonT(40), <1>9 DEF AddReturn, Return
<1>10. CASE TakeCall(c)
  BY <1>10 DEF TakeCall, CallYield
<1>11. CASE Tick(c)
  BY <1>11, Zenon DEF Tick, CallYield
<1>12. CASE Yield(c)
  BY Zenon, <1>12 DEF Yield, FindScheduler
<1>13. CASE Destroy(c)
  BY ZenonT(40), <1>13 DEF Destroy, AddObject, CallAddTask
<1>14. CASE Exit(c)
  BY Zenon, <1>14 DEF Exit, CallYield
<1>15. CASE CleanerPop(c)
  BY ZenonT(40), <1>15 DEF CleanerPop, BlockOn
<1>16. CASE CleanerTake(c)
  BY Zenon, <1>16 DEF CleanerTake
<1>17. CASE CleanerReap(c)
  BY ZenonT(40), <1>17 DEF CleanerReap
<1>18. CASE \E u \in Tasks : Create(c, u)
  BY <1>18 DEF Create, CreateThread, CallAddTask
<1>19. CASE AcquireFree(c)
  BY Zenon, <1>19 DEF AcquireFree
<1>20. CASE AcquireBlocks(c)
  BY Zenon, <1>20 DEF AcquireBlocks, BlockOn
<1>21. CASE AcquireReturns(c)
  BY <1>21 DEF AcquireReturns
<1>22. CASE Release(c)
  BY ZenonT(40), <1>22 DEF Release, CallAddTask
<1>23. CASE \E l \in {"awaitLock", "signalLock"} : StartAcquire(c, l)
  BY <1>23 DEF StartAcquire
<1>24. CASE Await(c)
  BY ZenonT(40), <1>24 DEF Await, BlockOn
<1>25. CASE AwaitEnds(c)
  BY Zenon, <1>25 DEF AwaitEnds
<1>26. CASE SignalStart(c)
  BY <1>26, Zenon DEF SignalStart
<1>27. CASE SignalServe(c)
  BY Zenon, <1>27 DEF SignalServe, CallAddTask
<1>28. CASE SignalNext(c)
  BY <1>28 DEF SignalNext
<1>29. CASE SignalUnlock(c)
  BY <1>29, ZenonT(40) DEF SignalUnlock, CallYield
<1>30. CASE SignalRelease(c)
  BY <1>30 DEF SignalRelease
<1> HIDE DEF Stays, Flags, Aims, Aiming, At, Goto, schedulers, switching, locals, Labels, Returns,
             AddTaskSteps
<1> QED
  BY ZenonT(40), <1>1, <1>2, <1>3, <1>4, <1>5, <1>6, <1>7, <1>8, <1>9, <1>10, <1>11, <1>12, <1>13, <1>14,
     <1>15, <1>16, <1>17, <1>18, <1>19, <1>20, <1>21, <1>22, <1>23, <1>24, <1>25, <1>26, <1>27,
     <1>28, <1>29, <1>30 DEF OtherStep, AddStep, ThreadStep, MutexStep, CompletionStep

\* Only tasks are put in the queues, and only those of a scheduler or a waiter.
LEMMA OthersLinks ==
  ASSUME Links, Aims, Stacks, nextTask \in Refs, NEW c \in CPUs, CpuOK(c), OtherStep(c)
  PROVE  Links'
<1> {WaitQueue, CleanerQueue, WaitingTasks} \cup CPUs \subseteq Queues
  BY Zenon, MutexConstants, CompletionConstants, ThreadsConstants, SchedulerConstants
<1> exec[c] \in Refs /\ (pc[c] = "thread" => exec[c] \in Tasks)
  BY DEF Stacks, CpuOK, Refs
<1> At(c, "front") \/ At(c, "back") => adding[exec[c]] \in Refs /\ target[exec[c]] \in Queues
  BY ZenonT(40) DEF Links, Aims, Aiming, At
<1> USE DEF Links
<1>1. CASE AddPick(c)
  BY Zenon, <1>1 DEF AddPick, queueVars, locals, Refs, calls
<1>2. CASE AddMark(c)
  BY ZenonT(40), <1>2 DEF AddMark, queueVars, locals, Refs, calls
<1>3. CASE AddCheck(c)
  BY <1>3 DEF AddCheck, queueVars, locals, Refs, calls
<1>4. CASE AddPush(c)
  <2>1. CASE At(c, "front") /\ PushFront(target[exec[c]], adding[exec[c]]) /\ UNCHANGED locals
    BY Zenon, <2>1, PushLinks DEF locals
  <2>2. CASE At(c, "back") /\ Push(target[exec[c]], adding[exec[c]]) /\ Return(c)
    <3>1. head' \in [Queues -> Refs] /\ next' \in [Tasks -> Refs] /\ size' \in [Queues -> Int]
      BY <2>2, PushLinks
    <3>2. adding' \in [Tasks -> Refs]
      BY <2>2, Zenon DEF Return, Refs
    <3> QED
      BY Zenon, <3>1, <3>2
  <2> QED
    BY <1>4, <2>1, <2>2, ZenonT(40) DEF AddPush
<1>5. CASE FindScheduler(c, "yield")
  BY <1>5 DEF FindScheduler, queueVars, locals, Refs, calls
<1>6. CASE ThreadYield(c)
  BY <1>6, ZenonT(40) DEF ThreadYield, CallYield, Return, queueVars, locals, Refs, calls
<1>7. CASE AddCall(c)
  BY Zenon, <1>7 DEF AddCall, queueVars, locals, Refs, calls
<1>8. CASE AddSend(c)
  BY <1>8 DEF AddSend, queueVars, locals, Refs, calls
<1>9. CASE AddReturn(c)
  BY <1>9, ZenonT(40) DEF AddReturn, Return, queueVars, locals, Refs, calls
<1>10. CASE TakeCall(c)
  BY <1>10 DEF TakeCall, CallYield, queueVars, locals, Refs, calls
<1>11. CASE Tick(c)
  BY Zenon, <1>11 DEF Tick, CallYield, queueVars, locals, Refs, calls
<1>12. CASE Yield(c)
  BY <1>12 DEF Yield, FindScheduler, queueVars, locals, Refs, calls
<1>13. CASE Destroy(c)
  BY <1>13, PopLinks, ZenonT(40) DEF Destroy, AddObject, CallAddTask, queueVars, locals, Refs
<1>14. CASE Exit(c)
  BY Zenon, <1>14 DEF Exit, CallYield, queueVars, locals, Refs, calls
<1>15. CASE CleanerPop(c)
  BY <1>15, PushLinks, ZenonT(40) DEF CleanerPop, BlockOn, queueVars, locals, Refs
<1>16. CASE CleanerTake(c)
  BY Zenon, <1>16 DEF CleanerTake, queueVars, locals, Refs, calls
<1>17. CASE CleanerReap(c)
  BY <1>17 DEF CleanerReap, queueVars, locals, Refs, calls
<1>18. CASE \E u \in Tasks : Create(c, u)
  BY <1>18, ZenonT(40) DEF Create, CreateThread, CallAddTask, queueVars, locals, Refs, calls
<1>19. CASE AcquireFree(c)
  BY Zenon, <1>19 DEF AcquireFree, queueVars, locals, Refs, calls
<1>20. CASE AcquireBlocks(c)
  BY <1>20, PushLinks, Zenon DEF AcquireBlocks, BlockOn, queueVars, locals, Refs
<1>21. CASE AcquireReturns(c)
  BY Zenon, <1>21 DEF AcquireReturns, queueVars, locals, Refs, calls
<1>22. CASE Release(c)
  BY <1>22, PopLinks, ZenonT(40) DEF Release, CallAddTask, queueVars, locals, Refs
<1>23. CASE \E l \in {"awaitLock", "signalLock"} : StartAcquire(c, l)
  BY Zenon, <1>23 DEF StartAcquire, queueVars, locals, Refs, calls
<1>24. CASE Await(c)
  BY <1>24, PushLinks, ZenonT(40) DEF Await, BlockOn, queueVars, locals, Refs
<1>25. CASE AwaitEnds(c)
  BY Zenon, <1>25 DEF AwaitEnds, queueVars, locals, Refs, calls
<1>26. CASE SignalStart(c)
  BY <1>26, PopLinks DEF SignalStart, queueVars, locals, Refs
<1>27. CASE SignalServe(c)
  BY <1>27, ZenonT(40) DEF SignalServe, CallAddTask, queueVars, locals, Refs, calls
<1>28. CASE SignalNext(c)
  BY <1>28, PopLinks DEF SignalNext, queueVars, locals, Refs
<1>29. CASE SignalUnlock(c)
  BY Zenon, <1>29 DEF SignalUnlock, CallYield, queueVars, locals, Refs, calls
<1>30. CASE SignalRelease(c)
  BY Zenon, <1>30 DEF SignalRelease, queueVars, locals, Refs, calls
<1> HIDE DEF Links
<1> QED
  BY ZenonT(40), <1>1, <1>2, <1>3, <1>4, <1>5, <1>6, <1>7, <1>8, <1>9, <1>10, <1>11, <1>12, <1>13, <1>14,
     <1>15, <1>16, <1>17, <1>18, <1>19, <1>20, <1>21, <1>22, <1>23, <1>24, <1>25, <1>26, <1>27,
     <1>28, <1>29, <1>30 DEF OtherStep, AddStep, ThreadStep, MutexStep, CompletionStep

\* yield() takes from the CPU's run queue and puts back what it took.
LEMMA YieldLinks ==
  ASSUME Links, Stacks, NEW c \in CPUs, CpuOK(c), YieldStep(c)
  PROVE  Links' /\ UNCHANGED <<tpc, locals>>
<1> c \in Queues /\ exec[c] \in Refs
  BY SchedulerConstants DEF Stacks
<1> USE DEF locals
<1>1. CASE YieldPop(c)
  BY <1>1, PopLinks, ZenonT(40) DEF YieldPop, Links
<1>2. CASE Requeue(c)
  BY Zenon, <1>2, PushLinks DEF Requeue, Links, queueVars
<1> QED
  BY <1>1, <1>2, Zenon DEF YieldStep, YieldPostpone, SwitchTo, SaveAndUnlock, LockAndRestore, HaltCheck,
                    HaltRelease, Links, queueVars
-----------------------------------------------------------------------------
(* The theorems *)

\* Every CPU begins on its own first task and holds its lock.
LEMMA RunInvInit == Init => RunInv
<1> SUFFICES ASSUME Init PROVE RunInv
  OBVIOUS
<1>1. workload.cleaner \in Refs
  BY ZenonT(40), ThreadsConstants DEF Init, Refs
<1>2. Links /\ nextTask \in Refs
  BY <1>1 DEF Init, Links, Refs, SchedulerInit, CompletionInit
<1>3. Flags
  BY Zenon DEF Init, Flags, SchedulerInit
<1>4. Stacks
  BY Zenon, SchedulerConstants DEF Init, Stacks, SchedulerInit, Refs, CpuSteps, Contexts
<1>5. Aims
  BY Zenon DEF Init, Aims, SchedulerInit, Labels, Returns, Aiming
<1>6. ASSUME NEW c \in CPUs PROVE CpuOK(c) /\ Owns(c)
  <2>1. InitialTask[c] \in Tasks /\ InitialTask[c] # Null
    BY Zenon, SchedulerConstants, NullIsNoTask
  <2>2. (CHOOSE d \in CPUs : InitialTask[c] = InitialTask[d]) = c
    BY SchedulerConstants
  <2> QED
    BY Zenon, <2>1, <2>2 DEF Init, SchedulerInit, CpuOK, Owns, Running
<1> QED
  BY Zenon, <1>2, <1>3, <1>4, <1>5, <1>6 DEF RunInv

\* Every step preserves the invariant.
LEMMA RunInvStep == RunInv /\ [Next]_vars => RunInv'
<1> SUFFICES ASSUME RunInv, [Next]_vars PROVE RunInv'
  OBVIOUS
<1>1. CASE UNCHANGED vars
  BY Zenon, <1>1 DEF vars, schedulerVars, queueVars, schedulers, switching, locals, completion, RunInv,
     Links, Flags,
              Stacks, Aims, CpuOK, Owns, Running
<1>2. ASSUME NEW c \in CPUs, YieldStep(c), UNCHANGED completion PROVE RunInv'
  <2> Links /\ Flags /\ Stacks /\ Aims /\ CpuOK(c) /\ Owns(c) /\ \A d \in CPUs : CpuOK(d) /\ Owns(d)
    BY DEF RunInv
  <2>1. Links' /\ Flags' /\ Stacks'
    BY Zenon, <1>2, YieldLinks, YieldFlags, YieldStacks
  <2>2. Aims' /\ (nextTask \in Refs)'
    BY <1>2, YieldLinks DEF Aims, locals, completion, RunInv
  <2>3. \A d \in CPUs : CpuOK(d)' /\ Owns(d)'
    BY Zenon, <1>2, YieldCpuOK, YieldOwns
  <2> QED
    BY Zenon, <2>1, <2>2, <2>3 DEF RunInv
<1>3. ASSUME NEW c \in CPUs, OtherStep(c), UNCHANGED nextTask \/ CompletionStep(c) PROVE RunInv'
  <2> /\ Links /\ nextTask \in Refs /\ Flags /\ Stacks /\ Aims /\ CpuOK(c) /\ Owns(c)
      /\ \A d \in CPUs : CpuOK(d) /\ Owns(d)
    BY DEF RunInv
  <2>1. Links' /\ Flags' /\ Aims'
    BY Zenon, <1>3, OthersLinks, OthersStay
  <2>2. Stacks' /\ \A d \in CPUs : CpuOK(d)' /\ Owns(d)'
    BY Zenon, <1>3, OthersStay, StaysOwns
  <2>3. CompletionStep(c) => nextTask' \in {nextTask, head[WaitingTasks]}
    BY Zenon DEF CompletionStep, Await, AwaitEnds, SignalStart, SignalServe, SignalNext, SignalUnlock,
       SignalRelease,
           completion
  <2>4. (nextTask \in Refs)'
    BY Zenon, <1>3, <2>3, CompletionConstants DEF Links
  <2> QED
    BY Zenon, <2>1, <2>2, <2>4 DEF RunInv
<1>4. CASE Next
  <2>1. PICK c \in CPUs :
          \/ YieldStep(c) /\ UNCHANGED completion
          \/ OtherStep(c) /\ (UNCHANGED nextTask \/ CompletionStep(c))
    BY <1>4, Zenon DEF Next, KernelStep, OtherStep, completion, StartAcquire
  <2> QED
    BY <2>1, <1>2, <1>3
<1> QED
  BY <1>1, <1>4

\* The CPU that runs a task holds its run lock, in every state and for every
\* number of CPUs, tasks and early wake-ups (yield(), swapRegisters() and
\* restoreRegisters()).
THEOREM RunLockDiscipline == Spec => []RunInv
<1> QED
  BY RunInvInit, RunInvStep, PTL DEF Spec

\* Two CPUs never run on the same task's stack (StackExclusion).
THEOREM StacksExcluded == Spec => []StackExclusion
<1>1. RunInv => StackExclusion
  BY SchedulerConstants, Zenon DEF RunInv, Owns, StackExclusion
<1> QED
  BY <1>1, RunInvInit, RunInvStep, PTL DEF Spec
=============================================================================
