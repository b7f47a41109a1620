----------------------------- MODULE Scheduler -----------------------------
(***************************************************************************)
(* The scheduler (scheduler/scheduler.cpp) with the context switch of      *)
(* arch/x86_64/kernel/scheduler/registers.S, the timer and call interrupts *)
(* and the halted CPU.  This module holds the state and the steps of the   *)
(* kernel; the modules that extend it say what the threads do.             *)
(*                                                                         *)
(* A step is a stretch of code between two accesses that another CPU can   *)
(* observe.  Code that runs with interrupts off is interleaved with other  *)
(* CPUs only.  The run queues are those of TaskQueue, one per CPU.         *)
(***************************************************************************)
EXTENDS TaskQueue, FiniteSets, FiniteSetsExt

CONSTANTS CPUs,              \* CPU numbers 0 .. n-1; Queues = CPUs here
          Priority,          \* ControlBlock::priority
          InitialTask,       \* the task scheduler::init() gives each CPU
          InitialTimeSlice,  \* INITIAL_TIME_SLICE
          SliceModulus,      \* 2^32: timeSlice is an unsigned int
          MaxEarly           \* bounds `early'

ASSUME SchedulerConstants ==
  /\ CPUs \subseteq Nat /\ IsFiniteSet(CPUs) /\ CPUs \subseteq Queues /\ Null \notin CPUs
  /\ Priority \in [Tasks -> Nat]
  /\ InitialTask \in [CPUs -> Tasks]
  /\ \A c, d \in CPUs : c # d => InitialTask[c] # InitialTask[d]
  /\ InitialTimeSlice \in 0 .. SliceModulus - 1
  /\ SliceModulus \in Nat /\ MaxEarly \in Nat

VARIABLES
  current,         \* Scheduler::currentTask of each CPU
  addTaskLock,     \* the CPU holding Scheduler::addTaskLock, or Null
  yieldLocked, yieldPostponed,
  state, timeSlice, runLock,  \* of each control block; runLock: its owner, or Null
  saved,           \* ControlBlock::registers: where to go on, and the flag to set
  exec,            \* the task whose stack a CPU uses; Null: the scheduler stack
  pc,              \* what a CPU does: "thread" or a step of yield()
  chosen,          \* yield()'s `to', later the argument of the hault code
  irqs,            \* the interrupt flag of each CPU
  irqsAfter,       \* yield()'s enableLocalIrqs, or the flag iretq restores
  irqsSaved,       \* enableIrqs of the spinlock the thread of a CPU holds
  ipi, mailbox, callerCanReturn,  \* as in Processors; mailbox: its owner, or Null
  tpc,             \* where each thread is
  late,            \* history: a task was queued behind a thread that no longer ran
  adding, target,  \* addTask(): its task; addTask() and yield(): their scheduler
  after,           \* where the thread goes on when addTask() or yield() returns
  early            \* history: how often a task was woken that had not left its CPU yet

schedulers == <<current, yieldLocked, yieldPostponed>>
blocks == <<state, timeSlice>>
switching == <<runLock, saved, exec, chosen>>
calls == <<ipi, mailbox, callerCanReturn, late>>
locals == <<adding, target, after, early>>
schedulerVars == <<queueVars, schedulers, addTaskLock, blocks, switching, pc, irqs, irqsAfter,
                   irqsSaved, calls, tpc, locals>>

CpuSteps == {"thread", "yield", "switch", "requeue", "unlock", "unlockSelf", "lock",
             "haltCheck", "haltRelease", "halted"}
AddTaskSteps == {"pick", "mark", "lock", "front", "back", "addYield", "yield",
                 "call", "mailbox", "wait"}

SchedulerInit ==
  /\ current = InitialTask
  /\ addTaskLock = [c \in CPUs |-> Null]
  /\ yieldLocked = [c \in CPUs |-> FALSE]
  /\ yieldPostponed = [c \in CPUs |-> FALSE]
  /\ timeSlice = [t \in Tasks |-> 0]
  /\ runLock = [t \in Tasks |-> IF \E c \in CPUs : t = InitialTask[c]
                                THEN CHOOSE c \in CPUs : t = InitialTask[c] ELSE Null]
  /\ saved = [t \in Tasks |-> [at |-> "thread", irqs |-> TRUE]]
  /\ exec = InitialTask
  /\ pc = [c \in CPUs |-> "thread"]
  /\ chosen = [c \in CPUs |-> Null]
  /\ irqs = [c \in CPUs |-> TRUE]
  /\ irqsAfter = [c \in CPUs |-> TRUE]
  /\ irqsSaved = [c \in CPUs |-> TRUE]
  /\ ipi = [c \in CPUs |-> FALSE]
  /\ mailbox = [c \in CPUs |-> Null]
  /\ callerCanReturn = [c \in CPUs |-> FALSE]
  /\ late = FALSE
  /\ adding = [t \in Tasks |-> Null]
  /\ target = [t \in Tasks |-> Null]
  /\ after = [t \in Tasks |-> "run"]
  /\ early = 0

\* The thread of CPU c is at label l.
At(c, l) == pc[c] = "thread" /\ tpc[exec[c]] = l

Goto(c, l) == tpc' = [tpc EXCEPT ![exec[c]] = l]

\* The thread of CPU c returns from addTask() or yield(); its locals are gone.
Return(c) ==
  /\ Goto(c, after[exec[c]])
  /\ adding' = [adding EXCEPT ![exec[c]] = Null]
  /\ target' = [target EXCEPT ![exec[c]] = Null]
  /\ after' = [after EXCEPT ![exec[c]] = "run"]
  /\ UNCHANGED early
-----------------------------------------------------------------------------
(* yield() *)

\* A thread, or an interrupt handler on top of it, calls yield(); `flag' is
\* the interrupt flag once control is back in the thread.
CallYield(c, flag) ==
  /\ pc' = [pc EXCEPT ![c] = "yield"]
  /\ irqsAfter' = [irqsAfter EXCEPT ![c] = flag]

YieldPostpone(c) ==
  /\ pc[c] = "yield" /\ yieldLocked[c]
  /\ yieldPostponed' = [yieldPostponed EXCEPT ![c] = TRUE]
  /\ pc' = [pc EXCEPT ![c] = "thread"]
  /\ irqs' = [irqs EXCEPT ![c] = irqsAfter[c]]
  /\ UNCHANGED <<queueVars, current, yieldLocked, addTaskLock, blocks, switching, irqsAfter,
                 irqsSaved, calls, tpc, locals>>

\* disableLocalIrqs() and tasks.pop(), and the choice made on its result.
YieldPop(c) ==
  /\ pc[c] = "yield" /\ ~yieldLocked[c]
  /\ Pop(c)
  /\ chosen' = [chosen EXCEPT ![c] = head[c]]
  /\ \/ /\ head[c] # Null
        /\ pc' = [pc EXCEPT ![c] = "switch"]
        /\ irqs' = [irqs EXCEPT ![c] = FALSE]
     \/ /\ head[c] = Null /\ current[c] = Null
        /\ pc' = [pc EXCEPT ![c] = "halted"]
        /\ irqs' = [irqs EXCEPT ![c] = TRUE]
     \/ /\ head[c] = Null /\ current[c] # Null /\ state[current[c]] # "RUNNING"
        /\ pc' = [pc EXCEPT ![c] = "unlockSelf"]
        /\ irqs' = [irqs EXCEPT ![c] = FALSE]
     \/ /\ head[c] = Null /\ current[c] # Null /\ state[current[c]] = "RUNNING"
        /\ pc' = [pc EXCEPT ![c] = "thread"]
        /\ irqs' = [irqs EXCEPT ![c] = irqsAfter[c]]
  /\ UNCHANGED <<schedulers, addTaskLock, blocks, runLock, saved, exec, irqsAfter, irqsSaved,
                 calls, tpc, locals>>

SwitchTo(c) ==
  /\ pc[c] = "switch"
  /\ state' = [state EXCEPT ![chosen[c]] = "RUNNING"]
  /\ timeSlice' = [timeSlice EXCEPT ![chosen[c]] = InitialTimeSlice]
  /\ current' = [current EXCEPT ![c] = chosen[c]]
  /\ chosen' = [chosen EXCEPT ![c] = Null]
  /\ pc' = [pc EXCEPT ![c] = IF exec[c] = Null THEN "lock" ELSE "requeue"]
  /\ UNCHANGED <<queueVars, yieldLocked, yieldPostponed, addTaskLock, runLock, saved, exec,
                 irqs, irqsAfter, irqsSaved, calls, tpc, locals>>

\* Mutant: a task that was running is not put back into the queue.
RequeueForgets(c) ==
  /\ pc[c] = "requeue"
  /\ state' = [state EXCEPT ![exec[c]] = IF @ = "RUNNING" THEN "RUNNABLE" ELSE @]
  /\ pc' = [pc EXCEPT ![c] = "unlock"]
  /\ UNCHANGED <<queueVars, schedulers, addTaskLock, timeSlice, switching, irqs, irqsAfter,
                 irqsSaved, calls, tpc, locals>>

\* Mutant: any task is put back, also one that blocks.
RequeueAnyState(c) ==
  /\ pc[c] = "requeue"
  /\ state' = [state EXCEPT ![exec[c]] = "RUNNABLE"]
  /\ Push(c, exec[c])
  /\ pc' = [pc EXCEPT ![c] = "unlock"]
  /\ UNCHANGED <<schedulers, addTaskLock, timeSlice, switching, irqs, irqsAfter, irqsSaved,
                 calls, tpc, locals>>

\* Mutant: the task is put into the queue of any CPU before its run lock is released.
RequeueElsewhere(c) ==
  /\ pc[c] = "requeue"
  /\ IF state[exec[c]] = "RUNNING"
     THEN /\ state' = [state EXCEPT ![exec[c]] = "RUNNABLE"]
          /\ \E d \in CPUs : Push(d, exec[c])
     ELSE UNCHANGED <<state, queueVars>>
  /\ pc' = [pc EXCEPT ![c] = "unlock"]
  /\ UNCHANGED <<schedulers, addTaskLock, timeSlice, switching, irqs, irqsAfter, irqsSaved,
                 calls, tpc, locals>>

\* `from' is the task on whose stack yield() runs.
Requeue(c) ==
  /\ pc[c] = "requeue"
  /\ IF state[exec[c]] = "RUNNING"
     THEN /\ state' = [state EXCEPT ![exec[c]] = "RUNNABLE"]
          /\ Push(c, exec[c])
     ELSE UNCHANGED <<state, queueVars>>
  /\ pc' = [pc EXCEPT ![c] = "unlock"]
  /\ UNCHANGED <<schedulers, addTaskLock, timeSlice, switching, irqs, irqsAfter, irqsSaved,
                 calls, tpc, locals>>

\* swapRegisters(): save *from, then unlockTask(from).  The CPU stays on the
\* stack of `from' until it has loaded *to.
SaveAndUnlock(c) ==
  /\ pc[c] \in {"unlock", "unlockSelf"}
  /\ saved' = [saved EXCEPT ![exec[c]] =
                 [at |-> IF pc[c] = "unlock" THEN "thread" ELSE "haltCheck",
                  irqs |-> irqsAfter[c]]]
  /\ runLock' = [runLock EXCEPT ![exec[c]] = Null]
  /\ pc' = [pc EXCEPT ![c] = "lock"]
  /\ UNCHANGED <<queueVars, schedulers, addTaskLock, blocks, exec, chosen, irqs, irqsAfter,
                 irqsSaved, calls, tpc, locals>>

\* Mutant: the registers are loaded without the run lock.
RestoreWithoutLock(c) ==
  LET t == current[c] IN
  /\ pc[c] = "lock"
  /\ runLock' = [runLock EXCEPT ![t] = c]
  /\ exec' = [exec EXCEPT ![c] = t]
  /\ pc' = [pc EXCEPT ![c] = saved[t].at]
  /\ irqsAfter' = [irqsAfter EXCEPT ![c] = saved[t].irqs]
  /\ irqs' = [irqs EXCEPT ![c] = saved[t].at = "thread" /\ saved[t].irqs]
  /\ UNCHANGED <<queueVars, schedulers, addTaskLock, blocks, saved, chosen, irqsSaved, calls,
                 tpc, locals>>

\* restoreRegisters(): lockTask(to), then load *to and, back in its yield(),
\* restore the interrupt flag.
LockAndRestore(c) ==
  LET t == current[c] IN
  /\ pc[c] = "lock" /\ runLock[t] = Null
  /\ runLock' = [runLock EXCEPT ![t] = c]
  /\ exec' = [exec EXCEPT ![c] = t]
  /\ pc' = [pc EXCEPT ![c] = saved[t].at]
  /\ irqsAfter' = [irqsAfter EXCEPT ![c] = saved[t].irqs]
  /\ irqs' = [irqs EXCEPT ![c] = saved[t].at = "thread" /\ saved[t].irqs]
  /\ UNCHANGED <<queueVars, schedulers, addTaskLock, blocks, saved, chosen, irqsSaved, calls,
                 tpc, locals>>

\* "This will be run twice": the task is still blocked, or it was unblocked.
HaltCheck(c) ==
  /\ pc[c] = "haltCheck"
  /\ IF state[exec[c]] # "RUNNING"
     THEN /\ chosen' = [chosen EXCEPT ![c] = exec[c]]
          /\ current' = [current EXCEPT ![c] = Null]
          /\ exec' = [exec EXCEPT ![c] = Null]
          /\ pc' = [pc EXCEPT ![c] = "haltRelease"]
          /\ UNCHANGED irqs
     ELSE /\ pc' = [pc EXCEPT ![c] = "thread"]
          /\ irqs' = [irqs EXCEPT ![c] = irqsAfter[c]]
          /\ UNCHANGED <<chosen, current, exec>>
  /\ UNCHANGED <<queueVars, yieldLocked, yieldPostponed, addTaskLock, blocks, runLock, saved,
                 irqsAfter, irqsSaved, calls, tpc, locals>>

HaltRelease(c) ==
  /\ pc[c] = "haltRelease"
  /\ runLock' = [runLock EXCEPT ![chosen[c]] = Null]
  /\ chosen' = [chosen EXCEPT ![c] = Null]
  /\ pc' = [pc EXCEPT ![c] = "halted"]
  /\ irqs' = [irqs EXCEPT ![c] = TRUE]
  /\ UNCHANGED <<queueVars, schedulers, addTaskLock, blocks, saved, exec, irqsAfter, irqsSaved,
                 calls, tpc, locals>>

YieldStep(c) ==
  \/ YieldPostpone(c) \/ YieldPop(c) \/ SwitchTo(c) \/ Requeue(c) \/ SaveAndUnlock(c)
  \/ LockAndRestore(c) \/ HaltCheck(c) \/ HaltRelease(c)
-----------------------------------------------------------------------------
(* Interrupts: they are taken in thread code and by a halted CPU *)

\* Mutant: tick() counts but never yields.
TickOnlyCounts(c) ==
  /\ pc[c] = "thread" /\ irqs[c]
  /\ ~yieldLocked[c] /\ current[c] # Null /\ state[current[c]] = "RUNNING"
  /\ timeSlice' = [timeSlice EXCEPT ![current[c]] = (@ + SliceModulus - 1) % SliceModulus]
  /\ UNCHANGED <<queueVars, schedulers, addTaskLock, state, switching, pc, irqs, irqsAfter,
                 irqsSaved, calls, tpc, locals>>

Tick(c) ==
  /\ pc[c] = "thread" /\ irqs[c]
  /\ ~yieldLocked[c] /\ current[c] # Null /\ state[current[c]] = "RUNNING"
  /\ timeSlice' = [timeSlice EXCEPT ![current[c]] = (@ + SliceModulus - 1) % SliceModulus]
  /\ IF timeSlice'[current[c]] = 0
     THEN CallYield(c, TRUE) /\ irqs' = [irqs EXCEPT ![c] = FALSE]
     ELSE UNCHANGED <<pc, irqsAfter, irqs>>
  /\ UNCHANGED <<queueVars, schedulers, addTaskLock, state, switching, irqsSaved, calls, tpc, locals>>

\* receiveCall() of the callback addTask() sends: letCallerReturn(); yield().
TakeCall(c) ==
  /\ pc[c] \in {"thread", "halted"} /\ irqs[c] /\ ipi[c]
  /\ ipi' = [ipi EXCEPT ![c] = FALSE]
  /\ callerCanReturn' = [callerCanReturn EXCEPT ![c] = TRUE]
  /\ CallYield(c, TRUE)
  /\ irqs' = [irqs EXCEPT ![c] = FALSE]
  /\ UNCHANGED <<queueVars, schedulers, addTaskLock, blocks, switching, irqsSaved, mailbox, late, tpc, locals>>
-----------------------------------------------------------------------------
(* addTask(adding[t]), called by the thread t of CPU c *)

TaskCount(c) ==
  size[c] + IF current[c] # Null /\ state[current[c]] = "RUNNING" THEN 1 ELSE 0

\* getLeastBusy(): this CPU unless another one has strictly fewer tasks.
LeastBusy(c) ==
  LET least == Min({TaskCount(d) : d \in CPUs})
  IN  IF TaskCount(c) = least THEN c ELSE Min({d \in CPUs : TaskCount(d) = least})

AddPick(c) ==
  /\ At(c, "pick") /\ Goto(c, "mark")
  /\ target' = [target EXCEPT ![exec[c]] = LeastBusy(c)]
  /\ UNCHANGED <<queueVars, schedulers, addTaskLock, blocks, switching, pc, irqs, irqsAfter,
                 irqsSaved, calls, adding, after, early>>

\* task->state = RUNNABLE and the disableLocalIrqs() of addTaskLock.acquire().
AddMark(c) ==
  /\ At(c, "mark") /\ Goto(c, "lock")
  /\ state' = [state EXCEPT ![adding[exec[c]]] = "RUNNABLE"]
  /\ irqsSaved' = [irqsSaved EXCEPT ![c] = irqs[c]]
  /\ irqs' = [irqs EXCEPT ![c] = FALSE]
  /\ UNCHANGED <<queueVars, schedulers, addTaskLock, timeSlice, switching, pc, irqsAfter,
                 calls, locals>>

\* Mutant: a task that is about to leave the CPU counts as running.
PreemptsByPriority(t, c) == current[c] = Null \/ Priority[current[c]] < Priority[t]

Preempts(t, c) ==
  \/ current[c] = Null
  \/ state[current[c]] # "RUNNING"
  \/ Priority[current[c]] < Priority[t]

AddCheck(c) ==
  LET t == exec[c] IN
  /\ At(c, "lock") /\ addTaskLock[target[t]] = Null
  /\ addTaskLock' = [addTaskLock EXCEPT ![target[t]] = c]
  /\ Goto(c, IF Preempts(adding[t], target[t]) THEN "front" ELSE "back")
  /\ UNCHANGED <<queueVars, schedulers, blocks, switching, pc, irqs, irqsAfter, irqsSaved,
                 calls, locals>>

AddRelease(c) ==
  /\ addTaskLock' = [addTaskLock EXCEPT ![target[exec[c]]] = Null]
  /\ irqs' = [irqs EXCEPT ![c] = irqsSaved[c]]

AddPush(c) ==
  LET t == exec[c] IN
  /\ \/ /\ At(c, "front")
        /\ PushFront(target[t], adding[t])
        /\ Goto(c, IF target[t] = c THEN "addYield" ELSE "call")
        /\ UNCHANGED <<late, locals>>
     \/ /\ At(c, "back")
        /\ Push(target[t], adding[t])
        /\ late' = (late \/ Preempts(adding[t], target[t]))
        /\ Return(c)
  /\ AddRelease(c)
  /\ UNCHANGED <<schedulers, blocks, switching, pc, irqsAfter, irqsSaved, ipi, mailbox, callerCanReturn>>

\* yield() called from thread code looks up the scheduler of its CPU,
FindScheduler(c, l) ==
  /\ At(c, l) /\ Goto(c, "addYield")
  /\ target' = [target EXCEPT ![exec[c]] = c]
  /\ UNCHANGED <<queueVars, schedulers, addTaskLock, blocks, switching, pc, irqs, irqsAfter,
                 irqsSaved, calls, adding, after, early>>

\* then calls its yield(), as addTask() does with the one it chose.  A thread
\* that moved to another CPU meanwhile would run the wrong scheduler: this is
\* followed no further (see OwnScheduler).
ThreadYield(c) ==
  /\ At(c, "addYield") /\ target[exec[c]] = c
  /\ Return(c)
  /\ CallYield(c, irqs[c])
  /\ UNCHANGED <<queueVars, schedulers, addTaskLock, blocks, switching, irqs, irqsSaved, calls>>

\* runOn(target, yield), in the steps that Processors shows to matter.
AddCall(c) ==
  /\ At(c, "call") /\ Goto(c, "mailbox")
  /\ irqsSaved' = [irqsSaved EXCEPT ![c] = irqs[c]]
  /\ irqs' = [irqs EXCEPT ![c] = FALSE]
  /\ UNCHANGED <<queueVars, schedulers, addTaskLock, blocks, switching, pc, irqsAfter, calls, locals>>

AddSend(c) ==
  LET d == target[exec[c]] IN
  /\ At(c, "mailbox") /\ mailbox[d] = Null
  /\ mailbox' = [mailbox EXCEPT ![d] = c]
  /\ callerCanReturn' = [callerCanReturn EXCEPT ![d] = FALSE]
  /\ ipi' = [ipi EXCEPT ![d] = TRUE]
  /\ Goto(c, "wait")
  /\ UNCHANGED <<late, queueVars, schedulers, addTaskLock, blocks, switching, pc, irqs, irqsAfter,
                 irqsSaved, locals>>

AddReturn(c) ==
  LET d == target[exec[c]] IN
  /\ At(c, "wait") /\ callerCanReturn[d]
  /\ mailbox' = [mailbox EXCEPT ![d] = Null]
  /\ irqs' = [irqs EXCEPT ![c] = irqsSaved[c]]
  /\ Return(c)
  /\ UNCHANGED <<queueVars, schedulers, addTaskLock, blocks, switching, pc, irqsAfter, irqsSaved,
                 ipi, callerCanReturn, late>>

AddStep(c) ==
  \/ AddPick(c) \/ AddMark(c) \/ AddCheck(c) \/ AddPush(c) \/ FindScheduler(c, "yield") \/ ThreadYield(c)
  \/ AddCall(c) \/ AddSend(c) \/ AddReturn(c)

-----------------------------------------------------------------------------
(* What threads call *)

\* u has called block() but its yield() has not switched to another stack yet.
StillOnCpu(u) == \E d \in CPUs : exec[d] = u

\* scheduler::addTask(u) by the thread of CPU c, which goes on at label l.  At
\* most MaxEarly of the tasks that are woken have not left their CPU.
CallAddTask(c, u, l) ==
  /\ StillOnCpu(u) => early < MaxEarly
  /\ early' = early + IF StillOnCpu(u) THEN 1 ELSE 0
  /\ adding' = [adding EXCEPT ![exec[c]] = u]
  /\ after' = [after EXCEPT ![exec[c]] = l]
  /\ UNCHANGED target

\* thread::create(): the new thread starts at label `entry'.
CreateThread(c, u, entry, l) ==
  /\ tpc[u] = "unborn"
  /\ tpc' = [tpc EXCEPT ![exec[c]] = "pick", ![u] = entry]
  /\ CallAddTask(c, u, l)
  /\ UNCHANGED <<queueVars, schedulers, addTaskLock, blocks, switching, pc, irqs, irqsAfter,
                 irqsSaved, calls>>

\* queue.push(scheduler::block()) under the queue's spinlock; then yield().
BlockOn(c, q, l) ==
  /\ state' = [state EXCEPT ![exec[c]] = "BLOCKING"]
  /\ Push(q, exec[c])
  /\ Goto(c, "yield")
  /\ after' = [after EXCEPT ![exec[c]] = l]
  /\ UNCHANGED <<schedulers, addTaskLock, timeSlice, switching, pc, irqsAfter, calls, adding, target, early>>

KernelStep(c) == YieldStep(c) \/ AddStep(c) \/ TakeCall(c)
-----------------------------------------------------------------------------
SchedulerTypeOK ==
  /\ QueueTypeOK
  /\ current \in [CPUs -> Tasks \cup {Null}]
  /\ addTaskLock \in [CPUs -> CPUs \cup {Null}]
  /\ yieldLocked \in [CPUs -> BOOLEAN] /\ yieldPostponed \in [CPUs -> BOOLEAN]
  /\ state \in [Tasks -> {"RUNNING", "RUNNABLE", "BLOCKING"}]
  /\ timeSlice \in [Tasks -> 0 .. SliceModulus - 1]
  /\ runLock \in [Tasks -> CPUs \cup {Null}]
  /\ saved \in [Tasks -> [at : {"thread", "haltCheck"}, irqs : BOOLEAN]]
  /\ exec \in [CPUs -> Tasks \cup {Null}]
  /\ pc \in [CPUs -> CpuSteps]
  /\ chosen \in [CPUs -> Tasks \cup {Null}]
  /\ late \in BOOLEAN /\ irqs \in [CPUs -> BOOLEAN] /\ irqsAfter \in [CPUs -> BOOLEAN] /\ irqsSaved \in [CPUs -> BOOLEAN]
  /\ ipi \in [CPUs -> BOOLEAN] /\ callerCanReturn \in [CPUs -> BOOLEAN]
  /\ mailbox \in [CPUs -> CPUs \cup {Null}]
  /\ adding \in [Tasks -> Tasks \cup {Null}]
  /\ target \in [Tasks -> CPUs \cup {Null}]
  /\ early \in 0 .. MaxEarly
=============================================================================
