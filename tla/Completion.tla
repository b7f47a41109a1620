----------------------------- MODULE Completion -----------------------------
(***************************************************************************)
(* async::Completion (scheduler/completion.cpp) on the scheduler: await(), *)
(* and signalComplete(), which wakes every waiter with yielding postponed  *)
(* (scheduler::lock(), unlock()).  Threads says who calls them.            *)
(***************************************************************************)
EXTENDS Scheduler

CONSTANT WaitingTasks  \* Completion::waitingTasks

ASSUME CompletionConstants == WaitingTasks \in Queues \ CPUs

VARIABLES completed,  \* Completion::completed
          spinlock,   \* the task that holds Completion::lock, or Null
          nextTask    \* signalComplete()'s local

completion == <<completed, spinlock, nextTask>>

CompletionInit == completed = FALSE /\ spinlock = Null /\ nextTask = Null

\* The disableLocalIrqs() of lock.acquire(); threads call with interrupts on.
StartAcquire(c, l) ==
  /\ At(c, "run") /\ Goto(c, l)
  /\ irqs' = [irqs EXCEPT ![c] = FALSE]
  /\ UNCHANGED <<queueVars, schedulers, addTaskLock, blocks, switching, pc, irqsAfter, irqsSaved,
                 calls, locals, completion>>

Await(c) ==
  /\ At(c, "awaitLock") /\ spinlock = Null
  /\ IF completed
     THEN /\ Goto(c, "awaited")
          /\ UNCHANGED <<queueVars, schedulers, addTaskLock, blocks, switching, pc, irqsAfter,
                         calls, locals>>
     ELSE BlockOn(c, WaitingTasks, "awaited")
  /\ irqs' = [irqs EXCEPT ![c] = TRUE]
  /\ UNCHANGED <<irqsSaved, completion>>

\* lock.acquire(), completed = true, the first pop, scheduler::lock().
SignalStart(c) ==
  /\ At(c, "signalLock") /\ spinlock = Null
  /\ spinlock' = exec[c]
  /\ completed' = TRUE
  /\ nextTask' = head[WaitingTasks] /\ Pop(WaitingTasks)
  /\ yieldLocked' = [yieldLocked EXCEPT ![c] = TRUE]
  /\ yieldPostponed' = [yieldPostponed EXCEPT ![c] = FALSE]
  /\ Goto(c, "serve")
  /\ UNCHANGED <<current, addTaskLock, blocks, switching, pc, irqs, irqsAfter, irqsSaved, calls, locals>>

SignalServe(c) ==
  /\ At(c, "serve") /\ nextTask # Null
  /\ Goto(c, "pick") /\ CallAddTask(c, nextTask, "serveNext")
  /\ UNCHANGED <<queueVars, schedulers, addTaskLock, blocks, switching, pc, irqs, irqsAfter,
                 irqsSaved, calls, completion>>

\* Mutant: only the first waiter is woken.
SignalOnlyOne(c) ==
  /\ At(c, "serveNext") /\ Goto(c, "serve")
  /\ nextTask' = Null
  /\ UNCHANGED <<queueVars, schedulers, addTaskLock, blocks, switching, pc, irqs, irqsAfter,
                 irqsSaved, calls, locals, completed, spinlock>>

SignalNext(c) ==
  /\ At(c, "serveNext") /\ Goto(c, "serve")
  /\ nextTask' = head[WaitingTasks] /\ Pop(WaitingTasks)
  /\ UNCHANGED <<schedulers, addTaskLock, blocks, switching, pc, irqs, irqsAfter, irqsSaved,
                 calls, locals, completed, spinlock>>

\* scheduler::unlock(): the yield() that was postponed happens now.
SignalUnlock(c) ==
  /\ At(c, "serve") /\ nextTask = Null
  /\ Goto(c, "release")
  /\ yieldLocked' = [yieldLocked EXCEPT ![c] = FALSE]
  /\ yieldPostponed' = [yieldPostponed EXCEPT ![c] = FALSE]
  /\ IF yieldPostponed[c] THEN CallYield(c, irqs[c]) ELSE UNCHANGED <<pc, irqsAfter>>
  /\ UNCHANGED <<queueVars, current, addTaskLock, blocks, switching, irqs, irqsSaved, calls,
                 locals, completion>>

SignalRelease(c) ==
  /\ At(c, "release") /\ Goto(c, "run")
  /\ spinlock' = Null
  /\ irqs' = [irqs EXCEPT ![c] = TRUE]
  /\ UNCHANGED <<queueVars, schedulers, addTaskLock, blocks, switching, pc, irqsAfter, irqsSaved,
                 calls, locals, completed, nextTask>>

\* await() returns.
AwaitEnds(c) ==
  /\ At(c, "awaited") /\ Goto(c, "run")
  /\ UNCHANGED <<queueVars, schedulers, addTaskLock, blocks, switching, pc, irqs, irqsAfter, irqsSaved,
                 calls, locals, completion>>

CompletionStep(c) ==
  \/ Await(c) \/ AwaitEnds(c)
  \/ SignalStart(c) \/ SignalServe(c) \/ SignalNext(c) \/ SignalUnlock(c) \/ SignalRelease(c)
-----------------------------------------------------------------------------
\* await() returns only after signalComplete() has begun; and once a signaller
\* has let go of the lock, no task is left in waitingTasks and the postponed
\* yield() of its CPU is not forgotten (completion.cpp:21-42).
SignalServesAll ==
  /\ \A c \in CPUs : At(c, "awaited") => completed
  /\ completed /\ spinlock = Null =>
       head[WaitingTasks] = Null /\ nextTask = Null /\ \A c \in CPUs : ~yieldLocked[c]

\* The two ways in which a CPU that spins for the lock in acquire(), with its
\* interrupts off, keeps the lock from being released: the holder entered
\* yield() and is not on a CPU, or it waits for that CPU in runOn().
LockStuck ==
  \E c \in CPUs :
    /\ At(c, "awaitLock") \/ At(c, "signalLock")
    /\ spinlock # Null
    /\ \/ \A d \in CPUs : exec[d] # spinlock
       \/ \E d \in CPUs : exec[d] = spinlock /\ At(d, "wait") /\ target[spinlock] = c

InAwait(t) == tpc[t] \in {"awaitLock", "awaited"} \/ after[t] = "awaited"

\* Every thread in await() returns once the completion is signalled, whether
\* it blocked before or came late, unless the spinlock of the completion is
\* stuck.
AwaitReturns == \A t \in Tasks : completed /\ InAwait(t) ~> ~InAwait(t) \/ LockStuck
=============================================================================
