------------------------------ MODULE Spinlock ------------------------------
(***************************************************************************)
(* lock::Spinlock (include/mykonos/spinlock.h) at the granularity of its   *)
(* memory accesses and of cli/sti, used by the thread and by the interrupt *)
(* handler of every CPU.  A handler starts whenever its CPU's interrupt    *)
(* flag is set, runs on top of the interrupted thread with the flag clear  *)
(* (interrupt gates), and restores the flag with iretq.                    *)
(***************************************************************************)
EXTENDS Naturals

CONSTANTS CPUs,  \* the CPUs sharing the lock
          Free   \* "no owner" of the abstract lock

Contexts == CPUs \X {"thread", "handler"}

ASSUME FreeIsNoContext == Free \notin Contexts

VARIABLES
  lock,            \* uint8_t lock
  enableIrqs,      \* bool enableIrqs, the flag the owner found
  irqs,            \* the interrupt flag of each CPU
  inHandler,       \* is the CPU in its interrupt handler?
  pc,              \* where each context is in acquire/release
  oldIrqState,     \* acquire()'s local
  shouldReenable   \* release()'s local

vars == <<lock, enableIrqs, irqs, inHandler, pc, oldIrqState, shouldReenable>>

Cpu(x) == x[1]

\* The handler suspends the thread it interrupted.
Active(x) == (x[2] = "handler") = inHandler[Cpu(x)]

\* pc = "idle" outside the lock, "held" between acquire() and release().
Labels == {"idle", "cli", "spin", "cas", "save", "held", "store", "sti"}

\* The contexts between the compare-and-swap and the store of 0.
Owns(x) == pc[x] \in {"save", "held", "store"}

At(x, from, to) ==
  /\ Active(x)
  /\ pc[x] = from
  /\ pc' = [pc EXCEPT ![x] = to]

Init ==
  /\ lock = 0
  /\ enableIrqs = FALSE
  /\ irqs \in [CPUs -> BOOLEAN]
  /\ inHandler = [c \in CPUs |-> FALSE]
  /\ pc = [x \in Contexts |-> "idle"]
  /\ oldIrqState = [x \in Contexts |-> FALSE]
  /\ shouldReenable = [x \in Contexts |-> FALSE]
-----------------------------------------------------------------------------
(* acquire() *)

ReadFlags(x) ==
  /\ At(x, "idle", "cli")
  /\ oldIrqState' = [oldIrqState EXCEPT ![x] = irqs[Cpu(x)]]
  /\ UNCHANGED <<lock, enableIrqs, irqs, inHandler, shouldReenable>>

Cli(x) ==
  /\ At(x, "cli", "spin")
  /\ irqs' = [irqs EXCEPT ![Cpu(x)] = FALSE]
  /\ UNCHANGED <<lock, enableIrqs, inHandler, oldIrqState, shouldReenable>>

\* One more turn of while (locked()) relax().
SeeLocked(x) ==
  /\ lock = 1
  /\ Active(x) /\ pc[x] = "spin"
  /\ UNCHANGED vars

SeeUnlocked(x) ==
  /\ lock = 0
  /\ At(x, "spin", "cas")
  /\ UNCHANGED <<lock, enableIrqs, irqs, inHandler, oldIrqState, shouldReenable>>

\* Mutant: the compare-and-swap is a plain store of 1.
CasBlind(x) ==
  /\ At(x, "cas", "save")
  /\ lock' = 1
  /\ UNCHANGED <<enableIrqs, irqs, inHandler, oldIrqState, shouldReenable>>

CompareAndSwap(x) ==
  /\ \/ lock = 0 /\ lock' = 1 /\ At(x, "cas", "save")
     \/ lock = 1 /\ UNCHANGED lock /\ At(x, "cas", "spin")
  /\ UNCHANGED <<enableIrqs, irqs, inHandler, oldIrqState, shouldReenable>>

SaveFlags(x) ==
  /\ At(x, "save", "held")
  /\ enableIrqs' = oldIrqState[x]
  /\ UNCHANGED <<lock, irqs, inHandler, oldIrqState, shouldReenable>>
-----------------------------------------------------------------------------
(* release() *)

ReadEnableIrqs(x) ==
  /\ At(x, "held", "store")
  /\ shouldReenable' = [shouldReenable EXCEPT ![x] = enableIrqs]
  /\ UNCHANGED <<lock, enableIrqs, irqs, inHandler, oldIrqState>>

\* Mutant: the lock is only freed when interrupts were on.
StoreZeroSometimes(x) ==
  /\ At(x, "store", "sti")
  /\ lock' = IF shouldReenable[x] THEN 0 ELSE lock
  /\ UNCHANGED <<enableIrqs, irqs, inHandler, oldIrqState, shouldReenable>>

StoreZero(x) ==
  /\ At(x, "store", "sti")
  /\ lock' = 0
  /\ UNCHANGED <<enableIrqs, irqs, inHandler, oldIrqState, shouldReenable>>

\* Mutant: release() reads enableIrqs after it has freed the lock.
StiFromSharedField(x) ==
  /\ At(x, "sti", "idle")
  /\ shouldReenable' = [shouldReenable EXCEPT ![x] = enableIrqs]
  /\ irqs' = [irqs EXCEPT ![Cpu(x)] = @ \/ enableIrqs]
  /\ UNCHANGED <<lock, enableIrqs, inHandler, oldIrqState>>

Sti(x) ==
  /\ At(x, "sti", "idle")
  /\ irqs' = [irqs EXCEPT ![Cpu(x)] = @ \/ shouldReenable[x]]
  /\ UNCHANGED <<lock, enableIrqs, inHandler, oldIrqState, shouldReenable>>
-----------------------------------------------------------------------------
(* Interrupts, and the cli/sti of a thread outside the lock *)

Interrupt(c) ==
  /\ irqs[c] /\ ~inHandler[c]
  /\ inHandler' = [inHandler EXCEPT ![c] = TRUE]
  /\ irqs' = [irqs EXCEPT ![c] = FALSE]
  /\ UNCHANGED <<lock, enableIrqs, pc, oldIrqState, shouldReenable>>

InterruptReturn(c) ==
  /\ inHandler[c] /\ pc[<<c, "handler">>] = "idle"
  /\ inHandler' = [inHandler EXCEPT ![c] = FALSE]
  /\ irqs' = [irqs EXCEPT ![c] = TRUE]
  /\ UNCHANGED <<lock, enableIrqs, pc, oldIrqState, shouldReenable>>

SetFlag(c) ==
  /\ ~inHandler[c] /\ pc[<<c, "thread">>] = "idle"
  /\ irqs' = [irqs EXCEPT ![c] = ~@]
  /\ UNCHANGED <<lock, enableIrqs, inHandler, pc, oldIrqState, shouldReenable>>

\* The steps a context has to take once it has entered acquire().
Proceed(x) ==
  \/ Cli(x) \/ SeeLocked(x) \/ SeeUnlocked(x) \/ CompareAndSwap(x) \/ SaveFlags(x)
  \/ ReadEnableIrqs(x) \/ StoreZero(x) \/ Sti(x)

Next ==
  \/ \E x \in Contexts : ReadFlags(x) \/ Proceed(x)
  \/ \E c \in CPUs : Interrupt(c) \/ InterruptReturn(c) \/ SetFlag(c)

Spec == Init /\ [][Next]_vars

\* A CPU that is not interrupted keeps executing the code it is in.
Fairness == \A x \in Contexts : WF_vars(Proceed(x))

FairSpec == Spec /\ Fairness
-----------------------------------------------------------------------------
TypeOK ==
  /\ lock \in {0, 1}
  /\ enableIrqs \in BOOLEAN
  /\ irqs \in [CPUs -> BOOLEAN]
  /\ inHandler \in [CPUs -> BOOLEAN]
  /\ pc \in [Contexts -> Labels]
  /\ oldIrqState \in [Contexts -> BOOLEAN]
  /\ shouldReenable \in [Contexts -> BOOLEAN]

\* acquire() admits one context at a time, whatever the CPUs and their
\* interrupt handlers do (spinlock.h:52-71).
MutualExclusion ==
  \A x, y \in Contexts : Owns(x) /\ Owns(y) => x = y

\* From its cli to its sti a thread takes no interrupt: no
\* handler can spin on a lock its own CPU already holds (spinlock.h:54).
NoInterruptWhileHeld ==
  \A c \in CPUs : pc[<<c, "thread">>] \notin {"idle", "cli"}
                    => ~irqs[c] /\ ~inHandler[c]

\* release() restores the interrupt flag this very context found in
\* acquire(), although the flag travelled through a field that the next
\* owner overwrites (spinlock.h:63-70).
FlagRestored ==
  [][\A x \in Contexts :
       pc[x] = "sti" /\ pc'[x] = "idle" => irqs'[Cpu(x)] = oldIrqState[x]]_vars

\* acquire() and release() around any code keep the interrupt flag: off from
\* cli to sti, and afterwards what it was (spinlock.h:52-71).
InterruptsKept == []NoInterruptWhileHeld /\ FlagRestored

\* The concrete lock implements the abstract one.
Owner == IF \E x \in Contexts : Owns(x) THEN CHOOSE x \in Contexts : Owns(x) ELSE Free

Abstract == INSTANCE LockOwner WITH owner <- Owner

ImplementsLock == Abstract!Spec

\* Whoever holds the lock gives it back, for interrupts cannot stop the owner
\* and no handler deadlocks against the thread below it; and when a context
\* spins on the lock, some context gets it (spinlock.h:52-71).
LockProgress ==
  /\ (lock = 1) ~> (lock = 0)
  /\ (\E x \in Contexts : pc[x] = "spin") ~> (\E x \in Contexts : pc[x] = "held")
=============================================================================
