------------------------------- MODULE Mutex -------------------------------
(***************************************************************************)
(* lock::Mutex (scheduler/mutex.cpp) on the scheduler.  release() hands    *)
(* the mutex to the first blocked task without clearing `lock'.  The parts *)
(* of acquire() and release() under the spinlock are one step each.        *)
(* Threads says who calls them.                                            *)
(***************************************************************************)
EXTENDS Scheduler

CONSTANT WaitQueue  \* Mutex::blockedTasks

ASSUME MutexConstants == WaitQueue \in Queues \ CPUs

VARIABLE lock  \* Mutex::lock

MutexInit == lock = FALSE

AcquireFree(c) ==
  /\ At(c, "run") /\ ~lock
  /\ lock' = TRUE
  /\ Goto(c, "critical")
  /\ UNCHANGED <<queueVars, schedulers, addTaskLock, blocks, switching, pc, irqs, irqsAfter,
                 irqsSaved, calls, locals>>

AcquireBlocks(c) ==
  /\ At(c, "run") /\ lock
  /\ BlockOn(c, WaitQueue, "acquired")
  /\ UNCHANGED <<irqs, irqsSaved, lock>>

\* acquire() returns from its yield().
AcquireReturns(c) ==
  /\ At(c, "acquired") /\ Goto(c, "critical")
  /\ UNCHANGED <<queueVars, schedulers, addTaskLock, blocks, switching, pc, irqs, irqsAfter,
                 irqsSaved, calls, locals, lock>>

\* Mutant: release() clears the lock it hands over.
ReleaseAlwaysClears(c) ==
  /\ At(c, "critical")
  /\ Pop(WaitQueue)
  /\ lock' = FALSE
  /\ IF head[WaitQueue] = Null
     THEN Goto(c, "run") /\ UNCHANGED locals
     ELSE Goto(c, "pick") /\ CallAddTask(c, head[WaitQueue], "run")
  /\ UNCHANGED <<schedulers, addTaskLock, blocks, switching, pc, irqs, irqsAfter, irqsSaved, calls>>

\* Mutant: release() frees the mutex and wakes nobody.
ReleaseWithoutWaking(c) ==
  /\ At(c, "critical")
  /\ lock' = FALSE
  /\ Goto(c, "run")
  /\ UNCHANGED <<queueVars, schedulers, addTaskLock, blocks, switching, pc, irqs, irqsAfter,
                 irqsSaved, calls, locals>>

Release(c) ==
  /\ At(c, "critical")
  /\ Pop(WaitQueue)
  /\ IF head[WaitQueue] = Null
     THEN lock' = FALSE /\ Goto(c, "run") /\ UNCHANGED locals
     ELSE /\ Goto(c, "pick") /\ CallAddTask(c, head[WaitQueue], "run")
          /\ UNCHANGED lock
  /\ UNCHANGED <<schedulers, addTaskLock, blocks, switching, pc, irqs, irqsAfter, irqsSaved, calls>>

-----------------------------------------------------------------------------
\* At most one thread is between the return of acquire() and its release(),
\* running or preempted, and the mutex is locked while there is one.  A locked
\* mutex has a holder, or a task to which release() is handing it: `lock' is
\* never left set with nobody to clear it (mutex.cpp:21-42).  A task that is
\* woken early can be queued twice, and then a later acquire() of it returns
\* before the mutex is handed over.
MutexExclusion ==
  early = 0 =>
  /\ \A t, u \in Tasks : tpc[t] = "critical" /\ tpc[u] = "critical" => t = u
  /\ \A t \in Tasks : tpc[t] = "critical" => lock
  /\ lock => \E t \in Tasks :
       \/ tpc[t] = "critical"
       \/ \E u \in Tasks : adding[u] = t
       \/ "acquired" \in {tpc[t], after[t]} /\ state[t] # "BLOCKING"

\* A thread that blocks in acquire() gets the mutex.
AcquireEnds ==
  \A t \in Tasks : (after[t] = "acquired" \/ tpc[t] = "acquired") ~> tpc[t] = "critical"
=============================================================================
