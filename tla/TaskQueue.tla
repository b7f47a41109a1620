----------------------------- MODULE TaskQueue -----------------------------
(***************************************************************************)
(* task::Queue (include/mykonos/task/taskQueue.h): an intrusive list of    *)
(* control blocks.  All queues share the single `next' field of a control  *)
(* block.  An operation is one step: it runs between lock.acquire() and    *)
(* lock.release() of a Spinlock that excludes the other users of the queue *)
(* (theorem SpinlockExcludes), and `size' is only written there.           *)
(***************************************************************************)
EXTENDS Naturals

CONSTANTS Tasks,   \* the control blocks
          Queues,  \* the task queues of the system
          Null     \* nullptr

ASSUME NullIsNoTask == Null \notin Tasks

VARIABLES head, tail, size,  \* of each queue
          next               \* ControlBlock::next

queueVars == <<head, tail, size, next>>

QueueTypeOK ==
  /\ head \in [Queues -> Tasks \cup {Null}]
  /\ tail \in [Queues -> Tasks \cup {Null}]
  /\ size \in [Queues -> Nat]
  /\ next \in [Tasks -> Tasks \cup {Null}]

QueueInit ==
  /\ head = [q \in Queues |-> Null]
  /\ tail = [q \in Queues |-> Null]
  /\ size = [q \in Queues |-> 0]
  /\ next = [t \in Tasks |-> Null]

Push(q, t) ==
  /\ head' = [head EXCEPT ![q] = IF @ = Null THEN t ELSE @]
  /\ tail' = [tail EXCEPT ![q] = t]
  /\ next' = IF head[q] = Null THEN next ELSE [next EXCEPT ![tail[q]] = t]
  /\ size' = [size EXCEPT ![q] = @ + 1]

PushFront(q, t) ==
  /\ head' = [head EXCEPT ![q] = t]
  /\ tail' = [tail EXCEPT ![q] = IF head[q] = Null THEN t ELSE @]
  /\ next' = IF head[q] = Null THEN next ELSE [next EXCEPT ![t] = head[q]]
  /\ size' = [size EXCEPT ![q] = @ + 1]

\* Mutant: the last element is recognised by a null `next', which neither
\* push() nor pop() ever resets.
PopToNullNext(q) ==
  IF head[q] = Null
  THEN UNCHANGED queueVars
  ELSE /\ head' = [head EXCEPT ![q] = next[head[q]]]
       /\ tail' = [tail EXCEPT ![q] = IF next[head[q]] = Null THEN Null ELSE @]
       /\ size' = [size EXCEPT ![q] = @ - 1]
       /\ UNCHANGED next

\* pop() returns head[q].
Pop(q) ==
  IF head[q] = Null
  THEN UNCHANGED queueVars
  ELSE /\ head' = [head EXCEPT ![q] = IF @ = tail[q] THEN Null ELSE next[@]]
       /\ tail' = [tail EXCEPT ![q] = IF head[q] = @ THEN Null ELSE @]
       /\ size' = [size EXCEPT ![q] = @ - 1]
       /\ UNCHANGED next
=============================================================================
