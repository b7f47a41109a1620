----------------------------- MODULE Processors -----------------------------
(***************************************************************************)
(* Cross-CPU calls (arch/x86_64/kernel/processors/processors.cpp): runOn() *)
(* puts a callback into the target's mailbox, sends an interrupt and spins *)
(* with its own interrupts off until the callback lets it return.          *)
(***************************************************************************)
EXTENDS Naturals

CONSTANTS CPUs,
          Targets,   \* Targets[c]: the CPUs that code on CPU c calls
          MaxCalls,  \* bound: how many calls a CPU makes
          Null

ASSUME TargetsAreOthers ==
  /\ Targets \in [CPUs -> SUBSET CPUs]
  /\ \A c \in CPUs : c \notin Targets[c]
  /\ Null \notin CPUs
  /\ MaxCalls \in Nat

VARIABLES
  lock,             \* mailboxes[c].lock: the CPU that owns it, or Null
  callback,         \* mailboxes[c].callback: the CPU whose callback it is, or Null
  callerCanReturn,  \* mailboxes[c].callerCanReturn
  ipi,              \* is a PROCESSOR_CALLBACK_INTERRUPT pending on c?
  irqs,             \* the interrupt flag of c
  pc, target,       \* the thread of c: where it is in runOn(), and its argument
  oldIrqs,          \* the flag it found
  call, running,    \* the interrupt handler of c, and the callback it runs
  runs,             \* history: invocations of the callback c is calling with
  calls             \* history: the calls c has made, up to MaxCalls

vars == <<lock, callback, callerCanReturn, ipi, irqs, pc, target, oldIrqs, call, running, runs, calls>>
mailboxes == <<lock, callback, callerCanReturn, ipi>>
caller == <<pc, target, oldIrqs, calls>>
handler == <<call, running>>

\* The thread of c executes: its interrupt handler is not on top of it.
Threading(c) == call[c] = "none"

At(c, from, to) ==
  /\ Threading(c) /\ pc[c] = from
  /\ pc' = [pc EXCEPT ![c] = to]

Init ==
  /\ lock = [c \in CPUs |-> Null]
  /\ callback = [c \in CPUs |-> Null]
  /\ callerCanReturn = [c \in CPUs |-> FALSE]
  /\ ipi = [c \in CPUs |-> FALSE]
  /\ irqs = [c \in CPUs |-> TRUE]
  /\ pc = [c \in CPUs |-> "idle"]
  /\ target = [c \in CPUs |-> Null]
  /\ oldIrqs = [c \in CPUs |-> FALSE]
  /\ call = [c \in CPUs |-> "none"]
  /\ running = [c \in CPUs |-> Null]
  /\ runs = [c \in CPUs |-> 0]
  /\ calls = [c \in CPUs |-> 0]
-----------------------------------------------------------------------------
(* runOn() *)

\* mailbox.lock.acquire(), up to its spin.
RunOn(c, d) ==
  /\ At(c, "idle", "acquire")
  /\ calls[c] < MaxCalls
  /\ calls' = [calls EXCEPT ![c] = @ + 1]
  /\ target' = [target EXCEPT ![c] = d]
  /\ oldIrqs' = [oldIrqs EXCEPT ![c] = irqs[c]]
  /\ irqs' = [irqs EXCEPT ![c] = FALSE]
  /\ UNCHANGED <<mailboxes, handler, runs>>

\* Mutant: runOn() uses the mailbox without its lock.
AcquireNothing(c) ==
  /\ At(c, "acquire", "fill")
  /\ lock' = [lock EXCEPT ![target[c]] = c]
  /\ UNCHANGED <<callback, callerCanReturn, ipi, irqs, target, oldIrqs, calls, handler, runs>>

Acquire(c) ==
  /\ At(c, "acquire", "fill")
  /\ lock[target[c]] = Null
  /\ lock' = [lock EXCEPT ![target[c]] = c]
  /\ UNCHANGED <<callback, callerCanReturn, ipi, irqs, target, oldIrqs, calls, handler, runs>>

SetCallback(c) ==
  /\ At(c, "fill", "clear")
  /\ callback' = [callback EXCEPT ![target[c]] = c]
  /\ runs' = [runs EXCEPT ![c] = 0]
  /\ UNCHANGED <<lock, callerCanReturn, ipi, irqs, target, oldIrqs, calls, handler>>

\* Mutant: the flag of the previous call is not reset.
ClearCanReturnMissing(c) ==
  /\ At(c, "clear", "send")
  /\ UNCHANGED <<mailboxes, irqs, target, oldIrqs, calls, handler, runs>>

ClearCanReturn(c) ==
  /\ At(c, "clear", "send")
  /\ callerCanReturn' = [callerCanReturn EXCEPT ![target[c]] = FALSE]
  /\ UNCHANGED <<lock, callback, ipi, irqs, target, oldIrqs, calls, handler, runs>>

SendIpi(c) ==
  /\ At(c, "send", "wait")
  /\ ipi' = [ipi EXCEPT ![target[c]] = TRUE]
  /\ UNCHANGED <<lock, callback, callerCanReturn, irqs, target, oldIrqs, calls, handler, runs>>

\* while (!mailbox.callerCanReturn) relax()
SeeCanReturn(c) ==
  /\ At(c, "wait", "cleanup")
  /\ callerCanReturn[target[c]]
  /\ UNCHANGED <<mailboxes, irqs, target, oldIrqs, calls, handler, runs>>

CleanUp(c) ==
  /\ At(c, "cleanup", "release")
  /\ callback' = [callback EXCEPT ![target[c]] = Null]
  /\ UNCHANGED <<lock, callerCanReturn, ipi, irqs, target, oldIrqs, calls, handler, runs>>

\* Mutant: the mailbox stays locked.
ReleaseForgotten(c) ==
  /\ At(c, "release", "idle")
  /\ irqs' = [irqs EXCEPT ![c] = oldIrqs[c]]
  /\ target' = [target EXCEPT ![c] = Null]
  /\ UNCHANGED <<mailboxes, oldIrqs, calls, handler, runs>>

Release(c) ==
  /\ At(c, "release", "idle")
  /\ lock' = [lock EXCEPT ![target[c]] = Null]
  /\ irqs' = [irqs EXCEPT ![c] = oldIrqs[c]]
  /\ target' = [target EXCEPT ![c] = Null]
  /\ UNCHANGED <<callback, callerCanReturn, ipi, oldIrqs, calls, handler, runs>>
-----------------------------------------------------------------------------
(* The interrupt handler, receiveCall(), and the callback's body *)

\* Acceptance of the interrupt and eoi().
Interrupt(c) ==
  /\ ipi[c] /\ irqs[c] /\ Threading(c)
  /\ ipi' = [ipi EXCEPT ![c] = FALSE]
  /\ irqs' = [irqs EXCEPT ![c] = FALSE]
  /\ call' = [call EXCEPT ![c] = "receive"]
  /\ UNCHANGED <<lock, callback, callerCanReturn, caller, running, runs>>

ReceiveCall(c) ==
  /\ call[c] = "receive"
  /\ call' = [call EXCEPT ![c] = IF callback[c] # Null THEN "body" ELSE "return"]
  /\ running' = [running EXCEPT ![c] = callback[c]]
  /\ UNCHANGED <<mailboxes, irqs, caller, runs>>

\* The callback does its work and ...
CallbackBody(c) ==
  /\ call[c] = "body"
  /\ call' = [call EXCEPT ![c] = "let"]
  /\ runs' = [runs EXCEPT ![running[c]] = @ + 1]
  /\ UNCHANGED <<mailboxes, irqs, caller, running>>

\* ... calls letCallerReturn().
LetCallerReturn(c) ==
  /\ call[c] = "let"
  /\ call' = [call EXCEPT ![c] = "return"]
  /\ callerCanReturn' = [callerCanReturn EXCEPT ![c] = TRUE]
  /\ UNCHANGED <<lock, callback, ipi, irqs, caller, running, runs>>

InterruptReturn(c) ==
  /\ call[c] = "return"
  /\ call' = [call EXCEPT ![c] = "none"]
  /\ running' = [running EXCEPT ![c] = Null]
  /\ irqs' = [irqs EXCEPT ![c] = TRUE]
  /\ UNCHANGED <<mailboxes, caller, runs>>

\* Code outside runOn() masks interrupts for a while (a spinlock, destroy()).
Mask(c) ==
  /\ Threading(c) /\ pc[c] = "idle" /\ irqs[c]
  /\ irqs' = [irqs EXCEPT ![c] = FALSE]
  /\ UNCHANGED <<mailboxes, caller, handler, runs>>

Unmask(c) ==
  /\ Threading(c) /\ pc[c] = "idle" /\ ~irqs[c]
  /\ irqs' = [irqs EXCEPT ![c] = TRUE]
  /\ UNCHANGED <<mailboxes, caller, handler, runs>>

InRunOn(c) ==
  \/ Acquire(c) \/ SetCallback(c) \/ ClearCanReturn(c) \/ SendIpi(c)
  \/ SeeCanReturn(c) \/ CleanUp(c) \/ Release(c)

Handle(c) ==
  \/ Interrupt(c) \/ ReceiveCall(c) \/ CallbackBody(c) \/ LetCallerReturn(c)
  \/ InterruptReturn(c)

Next ==
  \E c \in CPUs : \/ \E d \in Targets[c] : RunOn(c, d)
                  \/ InRunOn(c) \/ Handle(c) \/ Mask(c) \/ Unmask(c)

Spec == Init /\ [][Next]_vars

\* A CPU keeps executing the code it is in, masked sections end, and an
\* unmasked CPU takes a pending interrupt.
Fairness ==
  \A c \in CPUs : /\ WF_vars(InRunOn(c)) /\ WF_vars(ReceiveCall(c)) /\ WF_vars(CallbackBody(c))
                  /\ WF_vars(LetCallerReturn(c)) /\ WF_vars(InterruptReturn(c))
                  /\ SF_vars(Interrupt(c)) /\ WF_vars(Unmask(c))

FairSpec == Spec /\ Fairness
-----------------------------------------------------------------------------
TypeOK ==
  /\ lock \in [CPUs -> CPUs \cup {Null}]
  /\ callback \in [CPUs -> CPUs \cup {Null}]
  /\ callerCanReturn \in [CPUs -> BOOLEAN]
  /\ ipi \in [CPUs -> BOOLEAN]
  /\ irqs \in [CPUs -> BOOLEAN]
  /\ pc \in [CPUs -> {"idle", "acquire", "fill", "clear", "send", "wait", "cleanup", "release"}]
  /\ target \in [CPUs -> CPUs \cup {Null}]
  /\ oldIrqs \in [CPUs -> BOOLEAN]
  /\ call \in [CPUs -> {"none", "receive", "body", "let", "return"}]
  /\ running \in [CPUs -> CPUs \cup {Null}]
  /\ runs \in [CPUs -> Nat]
  /\ calls \in [CPUs -> 0 .. MaxCalls]

\* When runOn() goes on past its wait, the target has run this very callback,
\* once: neither a stale callerCanReturn nor a second interrupt fools it, and
\* no interrupt is left over from a call that has returned, so the next call
\* through the mailbox starts clean (processors.cpp:36-49).
RunsExactlyOnce ==
  /\ TypeOK
  /\ \A c \in CPUs : /\ runs[c] \in {0, 1}
                     /\ pc[c] \in {"cleanup", "release"} => runs[c] = 1
  /\ \A c \in CPUs : ipi[c] \/ call[c] = "receive"
                       => \E d \in CPUs : target[d] = c /\ pc[d] = "wait" /\ callback[c] = d

\* The callback object lives on the caller's stack: while a target is about
\* to enter it, or is in it before letCallerReturn(), the caller is still
\* waiting in runOn() (processors.cpp:44-46, 56-61).
CallbackAlive ==
  \A c \in CPUs : call[c] \in {"body", "let"}
                    => running[c] # Null /\ pc[running[c]] = "wait" /\ target[running[c]] = c

\* CPUs that wait for each other in runOn(): each one spins for the mailbox
\* that another one of them has locked, or for another one of them to take its
\* interrupt, and none does because all of them have interrupts off.
CrossCall ==
  \E S \in SUBSET CPUs \ {{}} :
    \A c \in S : \/ pc[c] = "acquire" /\ lock[target[c]] \in S
                 \/ pc[c] = "wait" /\ ipi[target[c]] /\ target[c] \in S

\* runOn() returns, unless CPUs call each other at the same time.
CallReturns == \A c \in CPUs : (pc[c] = "acquire") ~> (pc[c] = "idle" \/ CrossCall)
=============================================================================
