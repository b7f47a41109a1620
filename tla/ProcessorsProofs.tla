-------------------------- MODULE ProcessorsProofs --------------------------
(***************************************************************************)
(* That runOn() runs its callback exactly once, and keeps it alive while   *)
(* it runs, for any number of CPUs that call each other in any pattern.    *)
(* The inductive invariant says who may touch a mailbox when: its lock     *)
(* names the caller, the caller's position bounds what the mailbox holds,  *)
(* and an interrupt or a handler that is under way belongs to a caller     *)
(* that still waits.                                                       *)
(***************************************************************************)
EXTENDS Processors, TLAPS

\* Where in runOn() a CPU has its target's mailbox locked.
Owning == {"fill", "clear", "send", "wait", "cleanup", "release"}

\* The callback has been called for, and has not let its caller return.
InHandler(c) == call[c] \in {"receive", "body", "let"}
Active(c) == ipi[c] \/ InHandler(c)

CallerInv ==
  \A d \in CPUs :
    /\ pc[d] # "idle" => target[d] \in CPUs
    /\ pc[d] \in Owning => lock[target[d]] = d
    /\ pc[d] \in {"clear", "send", "wait"} => callback[target[d]] = d
    /\ pc[d] \in {"clear", "send"} => runs[d] = 0
    /\ pc[d] = "send" => ~callerCanReturn[target[d]]
    /\ pc[d] = "wait" /\ callerCanReturn[target[d]] => runs[d] = 1
    /\ pc[d] \in {"cleanup", "release"} => runs[d] = 1
    /\ runs[d] \in {0, 1}

MailboxInv ==
  \A c \in CPUs :
    /\ Active(c) => /\ lock[c] \in CPUs /\ pc[lock[c]] = "wait" /\ target[lock[c]] = c
                    /\ ~callerCanReturn[c]
    /\ ~(ipi[c] /\ InHandler(c))
    /\ ipi[c] \/ call[c] \in {"receive", "body"} => runs[lock[c]] = 0
    /\ call[c] = "let" => runs[lock[c]] = 1
    /\ call[c] \in {"body", "let"} => running[c] = lock[c]

Inv == TypeOK /\ CallerInv /\ MailboxInv

\* No call is under way at first.
LEMMA InitInv == Init => Inv
  <1> SUFFICES ASSUME Init PROVE Inv
    OBVIOUS
  <1>1. TypeOK
    BY TargetsAreOthers DEF Init, TypeOK
  <1>2. CallerInv
    BY DEF Init, CallerInv, Owning
  <1>3. MailboxInv
    BY DEF Init, MailboxInv, Active, InHandler
  <1> QED
    BY <1>1, <1>2, <1>3 DEF Inv

\* Every step keeps the types.
LEMMA StepTypeOK == Inv /\ [Next]_vars => TypeOK'
  <1> SUFFICES ASSUME Inv, [Next]_vars PROVE TypeOK'
    OBVIOUS
  <1> USE TargetsAreOthers DEF Inv, TypeOK
  <1>1. ASSUME NEW c \in CPUs, NEW d \in Targets[c], RunOn(c, d) PROVE TypeOK'
    BY <1>1 DEF RunOn, At, Threading, mailboxes, handler
  <1>2. ASSUME NEW c \in CPUs, Acquire(c) PROVE TypeOK'
    BY <1>2 DEF Acquire, At, Threading, handler
  <1>3. ASSUME NEW c \in CPUs, SetCallback(c) PROVE TypeOK'
    BY <1>3 DEF SetCallback, At, Threading, handler
  <1>4. ASSUME NEW c \in CPUs, ClearCanReturn(c) PROVE TypeOK'
    BY <1>4 DEF ClearCanReturn, At, Threading, handler
  <1>5. ASSUME NEW c \in CPUs, SendIpi(c) PROVE TypeOK'
    BY <1>5 DEF SendIpi, At, Threading, handler
  <1>6. ASSUME NEW c \in CPUs, SeeCanReturn(c) PROVE TypeOK'
    BY <1>6 DEF SeeCanReturn, At, Threading, mailboxes, handler
  <1>7. ASSUME NEW c \in CPUs, CleanUp(c) PROVE TypeOK'
    BY <1>7 DEF CleanUp, At, Threading, handler
  <1>8. ASSUME NEW c \in CPUs, Release(c) PROVE TypeOK'
    BY <1>8 DEF Release, At, Threading, handler
  <1>9. ASSUME NEW c \in CPUs, Interrupt(c) PROVE TypeOK'
    BY <1>9 DEF Interrupt, Threading, caller
  <1>10. ASSUME NEW c \in CPUs, ReceiveCall(c) PROVE TypeOK'
    BY <1>10 DEF ReceiveCall, mailboxes, caller
  <1>11. ASSUME NEW c \in CPUs, CallbackBody(c) PROVE TypeOK'
    <2>1. \A d \in CPUs : runs'[d] \in Nat
      BY <1>11 DEF CallbackBody
    <2>2. runs' \in [CPUs -> Nat]
      BY <1>11, <2>1 DEF CallbackBody
    <2> QED
      BY <1>11, <2>2 DEF CallbackBody, mailboxes, caller
  <1>12. ASSUME NEW c \in CPUs, LetCallerReturn(c) PROVE TypeOK'
    BY <1>12 DEF LetCallerReturn, caller
  <1>13. ASSUME NEW c \in CPUs, InterruptReturn(c) PROVE TypeOK'
    BY <1>13 DEF InterruptReturn, mailboxes, caller
  <1>14. ASSUME NEW c \in CPUs, Mask(c) PROVE TypeOK'
    BY <1>14 DEF Mask, Threading, mailboxes, caller, handler
  <1>15. ASSUME NEW c \in CPUs, Unmask(c) PROVE TypeOK'
    BY <1>15 DEF Unmask, Threading, mailboxes, caller, handler
  <1>16. CASE UNCHANGED vars
    BY <1>16 DEF vars
  <1> QED
    BY <1>1, <1>2, <1>3, <1>4, <1>5, <1>6, <1>7, <1>8, <1>9, <1>10, <1>11, <1>12, <1>13, <1>14, <1>15, <1>16 DEF Next, InRunOn, Handle

\* A caller finds its mailbox as it left it: another CPU that is in the same
\* mailbox would hold its lock.
LEMMA StepCallerInv == Inv /\ [Next]_vars => CallerInv'
  <1> SUFFICES ASSUME Inv, [Next]_vars PROVE CallerInv'
    OBVIOUS
  <1>0. TypeOK'
    BY StepTypeOK
  <1> USE <1>0, TargetsAreOthers DEF Inv, TypeOK, CallerInv, MailboxInv, Active, InHandler, Owning
  <1>1. ASSUME NEW c \in CPUs, NEW d \in Targets[c], RunOn(c, d) PROVE CallerInv'
    BY <1>1 DEF RunOn, At, Threading, mailboxes, handler
  <1>2. ASSUME NEW c \in CPUs, Acquire(c) PROVE CallerInv'
    BY <1>2 DEF Acquire, At, Threading, handler
  <1>3. ASSUME NEW c \in CPUs, SetCallback(c) PROVE CallerInv'
    BY <1>3 DEF SetCallback, At, Threading, handler
  <1>4. ASSUME NEW c \in CPUs, ClearCanReturn(c) PROVE CallerInv'
    BY <1>4 DEF ClearCanReturn, At, Threading, handler
  <1>5. ASSUME NEW c \in CPUs, SendIpi(c) PROVE CallerInv'
    BY <1>5 DEF SendIpi, At, Threading, handler
  <1>6. ASSUME NEW c \in CPUs, SeeCanReturn(c) PROVE CallerInv'
    BY <1>6 DEF SeeCanReturn, At, Threading, mailboxes, handler
  <1>7. ASSUME NEW c \in CPUs, CleanUp(c) PROVE CallerInv'
    BY <1>7 DEF CleanUp, At, Threading, handler
  <1>8. ASSUME NEW c \in CPUs, Release(c) PROVE CallerInv'
    BY <1>8 DEF Release, At, Threading, handler
  <1>9. ASSUME NEW c \in CPUs, Interrupt(c) PROVE CallerInv'
    BY <1>9 DEF Interrupt, Threading, caller
  <1>10. ASSUME NEW c \in CPUs, ReceiveCall(c) PROVE CallerInv'
    BY <1>10 DEF ReceiveCall, mailboxes, caller
  <1>11. ASSUME NEW c \in CPUs, CallbackBody(c) PROVE CallerInv'
    BY <1>11 DEF CallbackBody, mailboxes, caller
  <1>12. ASSUME NEW c \in CPUs, LetCallerReturn(c) PROVE CallerInv'
    BY <1>12 DEF LetCallerReturn, caller
  <1>13. ASSUME NEW c \in CPUs, InterruptReturn(c) PROVE CallerInv'
    BY <1>13 DEF InterruptReturn, mailboxes, caller
  <1>14. ASSUME NEW c \in CPUs, Mask(c) PROVE CallerInv'
    BY <1>14 DEF Mask, Threading, mailboxes, caller, handler
  <1>15. ASSUME NEW c \in CPUs, Unmask(c) PROVE CallerInv'
    BY <1>15 DEF Unmask, Threading, mailboxes, caller, handler
  <1>16. CASE UNCHANGED vars
    BY <1>16 DEF vars
  <1> QED
    BY <1>1, <1>2, <1>3, <1>4, <1>5, <1>6, <1>7, <1>8, <1>9, <1>10, <1>11, <1>12, <1>13, <1>14, <1>15, <1>16 DEF Next, InRunOn, Handle

\* An interrupt, and the handler that it starts, belong to the caller that
\* has the mailbox locked and waits.
LEMMA StepMailboxInv == Inv /\ [Next]_vars => MailboxInv'
  <1> SUFFICES ASSUME Inv, [Next]_vars PROVE MailboxInv'
    OBVIOUS
  <1>0. TypeOK'
    BY StepTypeOK
  <1> USE <1>0, TargetsAreOthers DEF Inv, TypeOK, CallerInv, MailboxInv, Active, InHandler, Owning
  <1>1. ASSUME NEW c \in CPUs, NEW d \in Targets[c], RunOn(c, d) PROVE MailboxInv'
    BY <1>1 DEF RunOn, At, Threading, mailboxes, handler
  <1>2. ASSUME NEW c \in CPUs, Acquire(c) PROVE MailboxInv'
    BY <1>2 DEF Acquire, At, Threading, handler
  <1>3. ASSUME NEW c \in CPUs, SetCallback(c) PROVE MailboxInv'
    BY <1>3 DEF SetCallback, At, Threading, handler
  <1>4. ASSUME NEW c \in CPUs, ClearCanReturn(c) PROVE MailboxInv'
    BY <1>4 DEF ClearCanReturn, At, Threading, handler
  <1>5. ASSUME NEW c \in CPUs, SendIpi(c) PROVE MailboxInv'
    BY <1>5 DEF SendIpi, At, Threading, handler
  <1>6. ASSUME NEW c \in CPUs, SeeCanReturn(c) PROVE MailboxInv'
    BY <1>6 DEF SeeCanReturn, At, Threading, mailboxes, handler
  <1>7. ASSUME NEW c \in CPUs, CleanUp(c) PROVE MailboxInv'
    BY <1>7 DEF CleanUp, At, Threading, handler
  <1>8. ASSUME NEW c \in CPUs, Release(c) PROVE MailboxInv'
    BY <1>8 DEF Release, At, Threading, handler
  <1>9. ASSUME NEW c \in CPUs, Interrupt(c) PROVE MailboxInv'
    BY <1>9 DEF Interrupt, Threading, caller
  <1>10. ASSUME NEW c \in CPUs, ReceiveCall(c) PROVE MailboxInv'
    BY <1>10 DEF ReceiveCall, mailboxes, caller
  <1>11. ASSUME NEW c \in CPUs, CallbackBody(c) PROVE MailboxInv'
    BY <1>11 DEF CallbackBody, mailboxes, caller
  <1>12. ASSUME NEW c \in CPUs, LetCallerReturn(c) PROVE MailboxInv'
    BY <1>12 DEF LetCallerReturn, caller
  <1>13. ASSUME NEW c \in CPUs, InterruptReturn(c) PROVE MailboxInv'
    BY <1>13 DEF InterruptReturn, mailboxes, caller
  <1>14. ASSUME NEW c \in CPUs, Mask(c) PROVE MailboxInv'
    BY <1>14 DEF Mask, Threading, mailboxes, caller, handler
  <1>15. ASSUME NEW c \in CPUs, Unmask(c) PROVE MailboxInv'
    BY <1>15 DEF Unmask, Threading, mailboxes, caller, handler
  <1>16. CASE UNCHANGED vars
    BY <1>16 DEF vars
  <1> QED
    BY <1>1, <1>2, <1>3, <1>4, <1>5, <1>6, <1>7, <1>8, <1>9, <1>10, <1>11, <1>12, <1>13, <1>14, <1>15, <1>16 DEF Next, InRunOn, Handle

\* The invariant holds in every reachable state.
LEMMA ProcessorsInv == Spec => []Inv
  <1>1. Inv /\ [Next]_vars => Inv'
    BY StepTypeOK, StepCallerInv, StepMailboxInv DEF Inv
  <1> QED
    BY InitInv, <1>1, PTL DEF Spec

\* For every number of CPUs and every pattern of calls, runOn() returns after
\* the target has run this callback once, and leaves no interrupt behind.
THEOREM CallbackRunsOnce == Spec => []RunsExactlyOnce
  <1>1. Inv => RunsExactlyOnce
    <2> SUFFICES ASSUME Inv PROVE RunsExactlyOnce
      OBVIOUS
    <2>1. ASSUME NEW c \in CPUs, ipi[c] \/ call[c] = "receive"
          PROVE  \E d \in CPUs : target[d] = c /\ pc[d] = "wait" /\ callback[c] = d
      <3>1. lock[c] \in CPUs /\ pc[lock[c]] = "wait" /\ target[lock[c]] = c
        BY <2>1 DEF Inv, MailboxInv, Active, InHandler
      <3>2. callback[c] = lock[c]
        BY <3>1 DEF Inv, CallerInv
      <3> QED
        BY <3>1, <3>2
    <2>2. \A c \in CPUs : /\ runs[c] \in {0, 1}
                          /\ pc[c] \in {"cleanup", "release"} => runs[c] = 1
      BY DEF Inv, CallerInv
    <2> QED
      BY <2>1, <2>2 DEF RunsExactlyOnce, Inv
  <1> QED
    BY ProcessorsInv, <1>1, PTL

\* For every number of CPUs, a callback that runs belongs to a caller that is
\* still in runOn(), so that the object on its stack exists.
THEOREM CallbackOutlivesCall == Spec => []CallbackAlive
  <1>1. Inv => CallbackAlive
    BY TargetsAreOthers DEF Inv, MailboxInv, Active, InHandler, CallbackAlive
  <1> QED
    BY ProcessorsInv, <1>1, PTL
=============================================================================
