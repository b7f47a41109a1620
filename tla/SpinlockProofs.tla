--------------------------- MODULE SpinlockProofs ---------------------------
(***************************************************************************)
(* For every set of CPUs: the spinlock excludes, masks interrupts while it *)
(* is held, restores the flag each owner found, and implements LockOwner.  *)
(***************************************************************************)
EXTENDS Spinlock, TLAPS

\* The lock byte is set exactly while a context is between its
\* compare-and-swap and its store of 0, and only one is.
LockByteInv ==
  /\ \A x \in Contexts : Owns(x) => lock = 1
  /\ lock = 1 => \E x \in Contexts : Owns(x)
  /\ MutualExclusion

\* A handler uses the lock only while it runs, runs with interrupts off
\* and so finds them off when it enters acquire().
HandlerInv ==
  \A c \in CPUs :
    /\ pc[<<c, "handler">>] # "idle" =>
         inHandler[c] = TRUE /\ oldIrqState[<<c, "handler">>] = FALSE
    /\ inHandler[c] => irqs[c] = FALSE

\* The flag saved in the shared field, and its copy in release(), is the one
\* this owner read on entry.
FlagInv ==
  \A x \in Contexts :
    /\ pc[x] = "held" => enableIrqs = oldIrqState[x]
    /\ pc[x] \in {"store", "sti"} => shouldReenable[x] = oldIrqState[x]

ThreadInv ==
  \A c \in CPUs : pc[<<c, "thread">>] \notin {"idle", "cli"}
                    => irqs[c] = FALSE /\ inHandler[c] = FALSE

IInv == TypeOK /\ LockByteInv /\ HandlerInv /\ FlagInv /\ ThreadInv

\* A context is a CPU and a level on it.
LEMMA ContextTypes ==
  /\ \A x \in Contexts : Cpu(x) \in CPUs /\ (x = <<Cpu(x), "thread">> \/ x = <<Cpu(x), "handler">>)
  /\ \A x \in Contexts : x[2] = "handler" <=> x = <<Cpu(x), "handler">>
  /\ \A c \in CPUs : <<c, "thread">> \in Contexts /\ <<c, "handler">> \in Contexts
  /\ \A c \in CPUs : Cpu(<<c, "thread">>) = c /\ Cpu(<<c, "handler">>) = c
  BY DEF Contexts, Cpu

\* The initial state satisfies the inductive invariant.
LEMMA InitIInv == Init => IInv
  <1> SUFFICES ASSUME Init PROVE IInv
    OBVIOUS
  <1>1. TypeOK
    BY DEF Init, TypeOK, Labels
  <1>2. \A x \in Contexts : pc[x] = "idle"
    BY DEF Init
  <1>3. LockByteInv
    BY <1>2 DEF Init, LockByteInv, MutualExclusion, Owns
  <1>4. HandlerInv
    BY <1>2, ContextTypes DEF Init, HandlerInv
  <1>5. FlagInv
    BY <1>2 DEF FlagInv
  <1>6. ThreadInv
    BY <1>2, ContextTypes DEF ThreadInv
  <1> QED
    BY <1>1, <1>3, <1>4, <1>5, <1>6 DEF IInv

\* Every step keeps the types.
LEMMA StepTypeOK == TypeOK /\ [Next]_vars => TypeOK'
  <1> SUFFICES ASSUME TypeOK, [Next]_vars PROVE TypeOK'
    OBVIOUS
  <1> USE ContextTypes DEF TypeOK, Labels
  <1>1. ASSUME NEW x \in Contexts, ReadFlags(x) PROVE TypeOK'
    BY <1>1 DEF ReadFlags, At
  <1>2. ASSUME NEW x \in Contexts, Cli(x) PROVE TypeOK'
    BY <1>2 DEF Cli, At
  <1>3. ASSUME NEW x \in Contexts, SeeUnlocked(x) PROVE TypeOK'
    BY <1>3 DEF SeeUnlocked, At
  <1>4. ASSUME NEW x \in Contexts, CompareAndSwap(x) PROVE TypeOK'
    BY <1>4 DEF CompareAndSwap, At
  <1>5. ASSUME NEW x \in Contexts, SaveFlags(x) PROVE TypeOK'
    BY <1>5 DEF SaveFlags, At
  <1>6. ASSUME NEW x \in Contexts, ReadEnableIrqs(x) PROVE TypeOK'
    BY <1>6 DEF ReadEnableIrqs, At
  <1>7. ASSUME NEW x \in Contexts, StoreZero(x) PROVE TypeOK'
    BY <1>7 DEF StoreZero, At
  <1>8. ASSUME NEW x \in Contexts, Sti(x) PROVE TypeOK'
    BY <1>8 DEF Sti, At
  <1>9. ASSUME NEW c \in CPUs, Interrupt(c) \/ InterruptReturn(c) \/ SetFlag(c) PROVE TypeOK'
    BY <1>9 DEF Interrupt, InterruptReturn, SetFlag
  <1>10. CASE UNCHANGED vars
    BY <1>10 DEF vars
  <1> QED
    BY <1>1, <1>2, <1>3, <1>4, <1>5, <1>6, <1>7, <1>8, <1>9, <1>10 DEF Next, Proceed, SeeLocked

\* The inductive invariant is preserved by every step.
LEMMA StepIInv == IInv /\ [Next]_vars => IInv'
  <1> SUFFICES ASSUME IInv, [Next]_vars PROVE IInv'
    OBVIOUS
  <1>0. TypeOK /\ TypeOK'
    BY StepTypeOK DEF IInv
  <1> USE <1>0, ContextTypes DEF IInv, TypeOK
  <1>1. ASSUME NEW x \in Contexts, ReadFlags(x) PROVE IInv'
    <2> USE <1>1 DEF ReadFlags, At, Active
    <2>1. LockByteInv'
      BY DEF LockByteInv, MutualExclusion, Owns
    <2>2. HandlerInv'
      <3> SUFFICES ASSUME NEW c \in CPUs
                   PROVE  /\ pc'[<<c, "handler">>] # "idle" =>
                               inHandler'[c] = TRUE /\ oldIrqState'[<<c, "handler">>] = FALSE
                          /\ inHandler'[c] => irqs'[c] = FALSE
        BY DEF HandlerInv
      <3>1. CASE x = <<c, "handler">>
        <4>1. Cpu(x) = c /\ x[2] = "handler"
          BY <3>1
        <4>2. inHandler[c] = TRUE
          BY <4>1
        <4>3. irqs[c] = FALSE
          BY <4>2 DEF HandlerInv
        <4> QED
          BY <3>1, <4>1, <4>2, <4>3
      <3>2. CASE x # <<c, "handler">>
        BY <3>2 DEF HandlerInv
      <3> QED
        BY <3>1, <3>2
    <2>3. FlagInv'
      BY DEF FlagInv, LockByteInv, MutualExclusion, Owns
    <2>4. ThreadInv'
      BY DEF ThreadInv, HandlerInv
    <2> QED
      BY <2>1, <2>2, <2>3, <2>4
  <1>2. ASSUME NEW x \in Contexts, Cli(x) PROVE IInv'
    <2> USE <1>2 DEF Cli, At, Active
    <2>1. LockByteInv'
      BY DEF LockByteInv, MutualExclusion, Owns
    <2>2. HandlerInv'
      BY DEF HandlerInv, ThreadInv
    <2>3. FlagInv'
      BY DEF FlagInv, LockByteInv, MutualExclusion, Owns
    <2>4. ThreadInv'
      BY DEF ThreadInv, HandlerInv
    <2> QED
      BY <2>1, <2>2, <2>3, <2>4
  <1>3. ASSUME NEW x \in Contexts, SeeUnlocked(x) PROVE IInv'
    <2> USE <1>3 DEF SeeUnlocked, At, Active
    <2>1. LockByteInv'
      BY DEF LockByteInv, MutualExclusion, Owns
    <2>2. HandlerInv'
      BY DEF HandlerInv, ThreadInv
    <2>3. FlagInv'
      BY DEF FlagInv, LockByteInv, MutualExclusion, Owns
    <2>4. ThreadInv'
      BY DEF ThreadInv, HandlerInv
    <2> QED
      BY <2>1, <2>2, <2>3, <2>4
  <1>4. ASSUME NEW x \in Contexts, CompareAndSwap(x) PROVE IInv'
    <2> USE <1>4 DEF CompareAndSwap, At, Active
    <2>1. LockByteInv'
      BY DEF LockByteInv, MutualExclusion, Owns
    <2>2. HandlerInv'
      BY DEF HandlerInv, ThreadInv
    <2>3. FlagInv'
      BY DEF FlagInv, LockByteInv, MutualExclusion, Owns
    <2>4. ThreadInv'
      BY DEF ThreadInv, HandlerInv
    <2> QED
      BY <2>1, <2>2, <2>3, <2>4
  <1>5. ASSUME NEW x \in Contexts, SaveFlags(x) PROVE IInv'
    <2> USE <1>5 DEF SaveFlags, At, Active
    <2>1. LockByteInv'
      BY DEF LockByteInv, MutualExclusion, Owns
    <2>2. HandlerInv'
      BY DEF HandlerInv, ThreadInv
    <2>3. FlagInv'
      BY DEF FlagInv, LockByteInv, MutualExclusion, Owns
    <2>4. ThreadInv'
      BY DEF ThreadInv, HandlerInv
    <2> QED
      BY <2>1, <2>2, <2>3, <2>4
  <1>6. ASSUME NEW x \in Contexts, ReadEnableIrqs(x) PROVE IInv'
    <2> USE <1>6 DEF ReadEnableIrqs, At, Active
    <2>1. LockByteInv'
      BY DEF LockByteInv, MutualExclusion, Owns
    <2>2. HandlerInv'
      BY DEF HandlerInv, ThreadInv
    <2>3. FlagInv'
      BY DEF FlagInv, LockByteInv, MutualExclusion, Owns
    <2>4. ThreadInv'
      BY DEF ThreadInv, HandlerInv
    <2> QED
      BY <2>1, <2>2, <2>3, <2>4
  <1>7. ASSUME NEW x \in Contexts, StoreZero(x) PROVE IInv'
    <2> USE <1>7 DEF StoreZero, At, Active
    <2>1. LockByteInv'
      BY DEF LockByteInv, MutualExclusion, Owns
    <2>2. HandlerInv'
      BY DEF HandlerInv, ThreadInv
    <2>3. FlagInv'
      BY DEF FlagInv, LockByteInv, MutualExclusion, Owns
    <2>4. ThreadInv'
      BY DEF ThreadInv, HandlerInv
    <2> QED
      BY <2>1, <2>2, <2>3, <2>4
  <1>8. ASSUME NEW x \in Contexts, Sti(x) PROVE IInv'
    <2> USE <1>8 DEF Sti, At, Active
    <2>1. LockByteInv'
      BY DEF LockByteInv, MutualExclusion, Owns
    <2>2. HandlerInv'
      <3> SUFFICES ASSUME NEW c \in CPUs
                   PROVE  /\ pc'[<<c, "handler">>] # "idle" =>
                               inHandler'[c] = TRUE /\ oldIrqState'[<<c, "handler">>] = FALSE
                          /\ inHandler'[c] => irqs'[c] = FALSE
        BY DEF HandlerInv
      <3>1. CASE x = <<c, "handler">>
        <4>1. Cpu(x) = c /\ shouldReenable[x] = FALSE
          BY <3>1 DEF HandlerInv, FlagInv
        <4> QED
          BY <3>1, <4>1 DEF HandlerInv
      <3>2. CASE x # <<c, "handler">>
        <4>1. inHandler[c] => Cpu(x) # c
          BY <3>2
        <4> QED
          BY <3>2, <4>1 DEF HandlerInv
      <3> QED
        BY <3>1, <3>2
    <2>3. FlagInv'
      BY DEF FlagInv, LockByteInv, MutualExclusion, Owns
    <2>4. ThreadInv'
      BY DEF ThreadInv, HandlerInv
    <2> QED
      BY <2>1, <2>2, <2>3, <2>4
  <1>9. ASSUME NEW c \in CPUs, Interrupt(c) PROVE IInv'
    <2> USE <1>9 DEF Interrupt
    <2>1. LockByteInv' /\ FlagInv'
      BY DEF LockByteInv, MutualExclusion, Owns, FlagInv
    <2>2. HandlerInv'
      BY DEF HandlerInv, ThreadInv
    <2>3. ThreadInv'
      BY DEF ThreadInv, HandlerInv
    <2> QED
      BY <2>1, <2>2, <2>3
  <1>10. ASSUME NEW c \in CPUs, InterruptReturn(c) PROVE IInv'
    <2> USE <1>10 DEF InterruptReturn
    <2>1. LockByteInv' /\ FlagInv'
      BY DEF LockByteInv, MutualExclusion, Owns, FlagInv
    <2>2. HandlerInv'
      BY DEF HandlerInv, ThreadInv
    <2>3. ThreadInv'
      BY DEF ThreadInv, HandlerInv
    <2> QED
      BY <2>1, <2>2, <2>3
  <1>11. ASSUME NEW c \in CPUs, SetFlag(c) PROVE IInv'
    <2> USE <1>11 DEF SetFlag
    <2>1. LockByteInv' /\ FlagInv'
      BY DEF LockByteInv, MutualExclusion, Owns, FlagInv
    <2>2. HandlerInv'
      BY DEF HandlerInv, ThreadInv
    <2>3. ThreadInv'
      BY DEF ThreadInv, HandlerInv
    <2> QED
      BY <2>1, <2>2, <2>3
  <1>12. CASE UNCHANGED vars
    BY <1>12 DEF vars, LockByteInv, MutualExclusion, Owns, HandlerInv, FlagInv, ThreadInv
  <1> QED
    BY <1>1, <1>2, <1>3, <1>4, <1>5, <1>6, <1>7, <1>8, <1>9, <1>10, <1>11, <1>12 DEF Next, Proceed, SeeLocked

\* IInv holds in every reachable state.
LEMMA AlwaysIInv == Spec => []IInv
  BY InitIInv, StepIInv, PTL DEF Spec

\* acquire()/release() never let two contexts own the lock, whatever the
\* number of CPUs and however interrupts arrive.
THEOREM SpinlockExcludes == Spec => [](TypeOK /\ MutualExclusion)
  <1>1. IInv => TypeOK /\ MutualExclusion
    BY DEF IInv, LockByteInv
  <1> QED
    BY <1>1, AlwaysIInv, PTL

\* From cli to sti the thread using the lock is never interrupted.
THEOREM SpinlockMasksInterrupts == Spec => []NoInterruptWhileHeld
  <1>1. IInv => NoInterruptWhileHeld
    BY DEF IInv, ThreadInv, NoInterruptWhileHeld
  <1> QED
    BY <1>1, AlwaysIInv, PTL

\* release() gives every context the interrupt flag it entered acquire() with.
THEOREM SpinlockRestoresFlag == Spec => FlagRestored
  <1>1. ASSUME IInv, [Next]_vars, NEW x \in Contexts, pc[x] = "sti", pc'[x] = "idle"
        PROVE  irqs'[Cpu(x)] = oldIrqState[x]
    <2> USE <1>1, ContextTypes DEF IInv, TypeOK
    <2>1. Sti(x)
      <3>1. ASSUME NEW y \in Contexts, ReadFlags(y) \/ Proceed(y) PROVE Sti(x)
        <4> USE <3>1 DEF Proceed, ReadFlags, Cli, SeeLocked, SeeUnlocked, vars, CompareAndSwap, SaveFlags,
                         ReadEnableIrqs, StoreZero, At
        <4>1. y = x
          BY DEF Sti
        <4> QED
          BY <4>1
      <3>2. ~ \E c \in CPUs : Interrupt(c) \/ InterruptReturn(c) \/ SetFlag(c)
        BY DEF Interrupt, InterruptReturn, SetFlag
      <3> QED
        BY <3>1, <3>2 DEF Next, vars
    <2>2. irqs[Cpu(x)] = FALSE
      BY <2>1 DEF Sti, At, ThreadInv, HandlerInv
    <2>3. shouldReenable[x] = oldIrqState[x]
      BY DEF FlagInv
    <2> QED
      BY <2>1, <2>2, <2>3 DEF Sti
  <1>2. IInv /\ [Next]_vars =>
          [\A x \in Contexts :
             pc[x] = "sti" /\ pc'[x] = "idle" => irqs'[Cpu(x)] = oldIrqState[x]]_vars
    BY <1>1
  <1> QED
    BY <1>2, AlwaysIInv, PTL DEF Spec, FlagRestored

\* Whoever uses the lock is not interrupted meanwhile and finds the interrupt
\* flag afterwards as it was before.
THEOREM SpinlockKeepsInterrupts == Spec => InterruptsKept
  BY SpinlockMasksInterrupts, SpinlockRestoresFlag, PTL DEF InterruptsKept

\* The spinlock implements LockOwner: the compare-and-swap that succeeds is
\* Acquire, the store of 0 is Release, and every other step leaves the owner.
THEOREM SpinlockRefinesLock == Spec => ImplementsLock
  <1>1. Init => Abstract!Init
    BY DEF Init, Abstract!Init, Owner, Owns
  <1>2. ASSUME IInv, IInv', [Next]_vars PROVE [Abstract!Next]_Owner
    <2> USE <1>2 DEF IInv, TypeOK
    <2>1. MutualExclusion /\ MutualExclusion'
      BY DEF LockByteInv
    <2>2. ASSUME NEW x \in Contexts, CompareAndSwap(x), lock = 0 PROVE Abstract!Next
      <3>1. Owner = Free
        BY <2>2 DEF Owner, LockByteInv
      <3>2. Owns(x)'
        BY <2>2 DEF CompareAndSwap, At, Owns
      <3>3. Owner' = x
        BY <2>1, <3>2 DEF Owner, MutualExclusion
      <3> QED
        BY <3>1, <3>3 DEF Abstract!Next, Abstract!Acquire
    <2>3. ASSUME NEW x \in Contexts, StoreZero(x) PROVE Abstract!Next
      <3>1. Owns(x)
        BY <2>3 DEF StoreZero, At, Owns
      <3>2. Owner = x
        BY <2>1, <3>1 DEF Owner, MutualExclusion
      <3>3. \A y \in Contexts : ~Owns(y)'
        BY <2>3 DEF StoreZero, LockByteInv
      <3>4. Owner' = Free
        BY <3>3 DEF Owner
      <3> QED
        BY <3>2, <3>4 DEF Abstract!Next, Abstract!Release
    <2>4. CASE \A x \in Contexts : Owns(x)' <=> Owns(x)
      BY <2>4 DEF Owner
    <2>5. ASSUME NEW x \in Contexts,
                 \/ ReadFlags(x) \/ Cli(x) \/ SeeUnlocked(x)
                 \/ CompareAndSwap(x) /\ lock # 0
                 \/ SaveFlags(x) \/ ReadEnableIrqs(x) \/ Sti(x)
          PROVE  \A y \in Contexts : Owns(y)' <=> Owns(y)
      BY <2>5 DEF ReadFlags, Cli, SeeUnlocked, CompareAndSwap, SaveFlags, ReadEnableIrqs,
                  Sti, At, Owns
    <2>6. ASSUME NEW c \in CPUs, Interrupt(c) \/ InterruptReturn(c) \/ SetFlag(c)
          PROVE  \A y \in Contexts : Owns(y)' <=> Owns(y)
      BY <2>6 DEF Interrupt, InterruptReturn, SetFlag, Owns
    <2>7. CASE UNCHANGED vars
      BY <2>7, <2>4 DEF vars, Owns
    <2> QED
      BY <2>2, <2>3, <2>4, <2>5, <2>6, <2>7 DEF Next, Proceed, SeeLocked
  <1> QED
    BY <1>1, <1>2, AlwaysIInv, PTL DEF Spec, ImplementsLock, Abstract!Spec
=============================================================================
