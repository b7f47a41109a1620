------------------------------ MODULE Threads ------------------------------
(***************************************************************************)
(* Threads on the scheduler: thread::create() and thread::destroy(), the   *)
(* cleaner thread that frees what destroy() leaves, and threads that yield *)
(* and share a Mutex and a Completion.                                     *)
(***************************************************************************)
EXTENDS Mutex, Completion, Sequences

CONSTANTS Workloads,     \* [ops, create, cleaner]: what threads do, the threads that may be
                         \* created, and the cleaner thread or Null
          CleanerQueue   \* the waitingTasks of the cleaner's util::Queue

ASSUME ThreadsConstants ==
  /\ Workloads \subseteq [ops : SUBSET {"yield", "create", "mutex", "destroy", "completion"},
                          create : SUBSET Tasks, cleaner : Tasks \cup {Null}]
  /\ Queues = CPUs \cup {WaitQueue, CleanerQueue, WaitingTasks}

VARIABLES workload,   \* never changes
          garbage,    \* the elements of the cleaner's util::Queue
          object,     \* the element the cleaner has taken
          freed       \* tasks whose stack and control block are freed

cleanerVars == <<workload, garbage, object, freed>>
vars == <<schedulerVars, lock, completion, cleanerVars>>
Does(op) == op \in workload.ops

\* cleaner::init() has run: the cleaner waits in the run queue of CPU 0.
Init ==
  /\ workload \in Workloads
  /\ SchedulerInit /\ MutexInit /\ CompletionInit
  /\ head = [q \in Queues |-> IF q = 0 THEN workload.cleaner ELSE Null]
  /\ tail = head
  /\ size = [q \in Queues |-> IF q = 0 /\ workload.cleaner # Null THEN 1 ELSE 0]
  /\ next = [t \in Tasks |-> Null]
  /\ state = [t \in Tasks |-> IF t = workload.cleaner THEN "RUNNABLE" ELSE "RUNNING"]
  /\ tpc = [t \in Tasks |-> IF t = workload.cleaner THEN "pop"
                            ELSE IF \E c \in CPUs : t = InitialTask[c] THEN "run" ELSE "unborn"]
  /\ garbage = <<>> /\ object = Null /\ freed = {}
-----------------------------------------------------------------------------
Yield(c) ==
  /\ Does("yield") /\ FindScheduler(c, "run")
  /\ UNCHANGED cleanerVars

Create(c, u) ==
  /\ Does("create") /\ u \in workload.create /\ At(c, "run")
  /\ CreateThread(c, u, "run", "run")
  /\ UNCHANGED cleanerVars

MutexStep(c) ==
  /\ Does("mutex")
  /\ AcquireFree(c) \/ AcquireBlocks(c) \/ AcquireReturns(c) \/ Release(c)
  /\ UNCHANGED cleanerVars

\* Mutant: push() does not wake the cleaner.
AddObjectSilently(c, t, return) ==
  /\ garbage' = Append(garbage, t)
  /\ Goto(c, return)
  /\ UNCHANGED <<queueVars, locals>>

\* addObject(): util::Queue::push() wakes a task when the queue was empty.
AddObject(c, t, return) ==
  /\ garbage' = Append(garbage, t)
  /\ IF garbage = <<>> /\ head[CleanerQueue] # Null
     THEN /\ Pop(CleanerQueue)
          /\ Goto(c, "pick")
          /\ CallAddTask(c, head[CleanerQueue], return)
     ELSE Goto(c, return) /\ UNCHANGED <<queueVars, locals>>

\* disableLocalIrqs(), block() and addObject().
Destroy(c) ==
  /\ Does("destroy") /\ At(c, "run")
  /\ irqs' = [irqs EXCEPT ![c] = FALSE]
  /\ state' = [state EXCEPT ![exec[c]] = "BLOCKING"]
  /\ AddObject(c, exec[c], "exit")
  /\ UNCHANGED <<schedulers, addTaskLock, timeSlice, switching, pc, irqsAfter, irqsSaved, calls,
                 workload, object, freed>>

\* The yield() at the end of destroy(); what follows it is the kpanic().
Exit(c) ==
  /\ At(c, "exit") /\ Goto(c, "panic")
  /\ CallYield(c, irqs[c])
  /\ UNCHANGED <<queueVars, schedulers, addTaskLock, blocks, switching, irqs, irqsSaved, calls,
                 locals, cleanerVars>>
-----------------------------------------------------------------------------
(* cleanerThread(): queue.pop(), then the handler destroy() passed *)

CleanerPop(c) ==
  /\ At(c, "pop")
  /\ IF garbage = <<>>
     THEN BlockOn(c, CleanerQueue, "take") /\ UNCHANGED <<irqs, irqsSaved, cleanerVars>>
     ELSE /\ Goto(c, "take")
          /\ UNCHANGED <<queueVars, schedulers, addTaskLock, blocks, switching, pc, irqs,
                         irqsAfter, irqsSaved, calls, locals, cleanerVars>>

CleanerTake(c) ==
  /\ At(c, "take") /\ Goto(c, "reap")
  /\ object' = IF garbage = <<>> THEN Null ELSE Head(garbage)
  /\ garbage' = IF garbage = <<>> THEN garbage ELSE Tail(garbage)
  /\ UNCHANGED <<queueVars, schedulers, addTaskLock, blocks, switching, pc, irqs, irqsAfter,
                 irqsSaved, calls, locals, workload, freed>>

\* runLock.acquire(), runLock.release(), freeStack(), delete.
CleanerReap(c) ==
  /\ At(c, "reap") /\ object # Null /\ runLock[object] = Null
  /\ freed' = freed \cup {object}
  /\ object' = Null
  /\ Goto(c, "pop")
  /\ UNCHANGED <<queueVars, schedulers, addTaskLock, blocks, switching, pc, irqs, irqsAfter,
                 irqsSaved, calls, locals, workload, garbage>>

ThreadStep(c) ==
  \/ Yield(c) \/ Destroy(c) \/ Exit(c) \/ CleanerPop(c) \/ CleanerTake(c) \/ CleanerReap(c)
  \/ \E u \in Tasks : Create(c, u)

Next == \E c \in CPUs :
  \/ (KernelStep(c) \/ Tick(c)) /\ UNCHANGED <<lock, completion, cleanerVars>>
  \/ ThreadStep(c) /\ UNCHANGED <<lock, completion>>
  \/ MutexStep(c) /\ UNCHANGED completion
  \/ /\ CompletionStep(c) \/ (Does("completion") /\ \E l \in {"awaitLock", "signalLock"} : StartAcquire(c, l))
     /\ UNCHANGED <<lock, cleanerVars>>

Spec == Init /\ [][Next]_vars

\* yield() runs with interrupts off.  An interrupt stays pending until it is
\* taken, and a thread that gets the CPU again and again executes its code
\* between two interrupts.  Threads in "run" may do anything or nothing; one
\* that holds the mutex releases it.
FairSpec ==
  /\ Spec
  /\ \A c \in CPUs :
       /\ WF_vars(YieldStep(c) /\ UNCHANGED <<lock, completion, cleanerVars>>)
       /\ SF_vars(TakeCall(c) /\ UNCHANGED <<lock, completion, cleanerVars>>)
       /\ SF_vars(Tick(c) /\ UNCHANGED <<lock, completion, cleanerVars>>)
       /\ \A t \in Tasks :
            SF_vars(/\ exec[c] = t
                    /\ \/ AddStep(c) /\ UNCHANGED <<lock, completion, cleanerVars>>
                       \/ /\ Exit(c) \/ CleanerPop(c) \/ CleanerTake(c) \/ CleanerReap(c)
                          /\ UNCHANGED <<lock, completion>>
                       \/ (AcquireReturns(c) \/ Release(c)) /\ UNCHANGED <<completion, cleanerVars>>
                       \/ CompletionStep(c) /\ UNCHANGED <<lock, cleanerVars>>)
-----------------------------------------------------------------------------
Labels == AddTaskSteps \cup {"unborn", "run", "critical", "acquired", "exit", "panic", "pop",
                            "take", "reap", "awaitLock", "awaited", "signalLock", "serve",
                            "serveNext", "release"}
Returns == {"run", "acquired", "exit", "take", "awaited", "serveNext"}

TypeOK ==
  /\ SchedulerTypeOK
  /\ tpc \in [Tasks -> Labels] /\ after \in [Tasks -> Returns]
  /\ completed \in BOOLEAN /\ {spinlock, nextTask} \subseteq Tasks \cup {Null}
  /\ garbage \in Seq(Tasks) /\ object \in Tasks \cup {Null} /\ freed \subseteq Tasks
  /\ lock \in BOOLEAN

\* The CPU runs code of exec[c] and has not yet given up its run lock.
Running(c) ==
  /\ exec[c] # Null
  /\ pc[c] \in {"thread", "yield", "switch", "requeue", "unlock", "unlockSelf", "haltCheck"}

\* Two CPUs never run the same task: between the lockTask() that precedes
\* loading a task's registers and the unlockTask() that follows saving them,
\* no other CPU loads them, however often the task was queued
\* (registers.S:70,79, scheduler.cpp:38-46).
StackExclusion ==
  \A c, d \in CPUs : c # d /\ Running(c) /\ Running(d) => exec[c] # exec[d]

Elements(q) ==
  LET at[i \in 0 .. Cardinality(Tasks)] ==
        IF i = 0 THEN head[q] ELSE IF at[i - 1] \in {Null, tail[q]} THEN Null ELSE next[at[i - 1]]
  IN  {at[i] : i \in DOMAIN at} \ {Null}

Dying(t) == tpc[t] \in {"exit", "panic"}

\* Where the scheduler keeps a task that is to run.
RunPlaces(t) ==
  {<<"queue", c>> : c \in {c \in CPUs : t \in Elements(c)}}
  \cup {<<"chosen", c>> : c \in {c \in CPUs : pc[c] = "switch" /\ chosen[c] = t}}
  \cup {<<"current", c>> : c \in {c \in CPUs : current[c] = t}}
  \cup {<<"leaving", c>> : c \in {c \in CPUs : pc[c] = "requeue" /\ exec[c] = t /\ state[t] = "RUNNING"}}
  \cup {<<"adding", u>> : u \in {u \in Tasks : adding[u] = t
                                   /\ tpc[u] \in {"pick", "mark", "lock", "front", "back"}}}

\* "Don't lose it!" (scheduler.h): every live task is in exactly one run queue,
\* on one CPU or in one addTask(), and a blocked one is in a wait queue or at
\* the end of destroy(); every queue is a list without repetition.  A task on
\* a CPU is not RUNNABLE and one in a run queue is: tick() and addTask() judge
\* a CPU by the state of its current task.  No two CPUs use one stack, although
\* swapRegisters() waits for the run lock of `to' on the stack of `from', which
\* it has given up.  A task that is woken while it still is on its CPU can be
\* queued twice: see DestroyNeverReturns.
NoTaskLost ==
  /\ TypeOK
  /\ early = 0 =>
       /\ \A q \in Queues : size[q] = Cardinality(Elements(q))
       /\ \A t \in Tasks : tpc[t] # "unborn" =>
            \/ Cardinality(RunPlaces(t)) = 1
            \/ /\ RunPlaces(t) = {} /\ state[t] = "BLOCKING"
               /\ t \in UNION {Elements(q) : q \in Queues \ CPUs} \cup {nextTask} \/ Dying(t)
       /\ \A c \in CPUs : /\ pc[c] = "thread" => state[exec[c]] # "RUNNABLE" /\ current[c] = exec[c]
                          /\ \A t \in Elements(c) : state[t] = "RUNNABLE"
                          /\ \A d \in CPUs : exec[c] = exec[d] => c = d \/ exec[c] = Null

\* No task waits in the run queue of a CPU that halts and will not be called:
\* addTask() calls a CPU whose current task does not run.  Not so if that task
\* blocked after addTask() had looked at it: addTaskLock does not keep yield()
\* out, and the new task stays where it is until the next call (scheduler.cpp:77).
NoWorkForHaltedCpu ==
  \A c \in CPUs : pc[c] = "halted" /\ head[c] # Null /\ early = 0 =>
    \/ late \/ ipi[c]
    \/ \E t \in Tasks : tpc[t] \in {"call", "mailbox"} /\ target[t] = c

\* A thread runs the yield() of the scheduler of its own CPU, although it looks
\* it up with interrupts on: a thread that runs does not change its CPU.  A
\* thread that has blocked may: between the look-up and the yield() of Mutex,
\* Completion or util::Queue another CPU can call, take it off its CPU and run
\* it elsewhere once it is woken (scheduler.cpp:205).
OwnScheduler ==
  \A c \in CPUs : At(c, "addYield") /\ early = 0 =>
    \/ target[exec[c]] = c
    \/ after[exec[c]] \in {"acquired", "take", "awaited"}

\* The kpanic("thread::destroy somehow returned!?") is never reached, and the
\* cleaner never takes an element from an empty util::Queue.
DestroyNeverReturns == \A c \in CPUs : ~At(c, "panic") /\ (At(c, "reap") => object # Null)

\* A task in a run queue runs at some later time: time slices end, and
\* push_front() overtakes a waiting task only finitely often; unless a CPU is
\* stuck at the spinlock of a completion.
QueuedRuns ==
  \A t \in Tasks : (\E c \in CPUs : t \in Elements(c))
                     ~> (\E c \in CPUs : pc[c] = "thread" /\ exec[c] = t) \/ LockStuck

\* The stack of every thread that calls destroy() is freed.
DestroyedIsFreed == \A t \in Tasks : Dying(t) ~> (t \in freed)
=============================================================================
