----------------------------- MODULE TaskDeque -----------------------------
(* What task::Queue promises: queues of distinct tasks, pushed at either    *)
(* end and popped at the front.                                             *)
EXTENDS Sequences

CONSTANTS Tasks, Queues, Null

VARIABLES queue,   \* the tasks in each queue, front first
          result   \* what the last pop() returned

InQueue(q, t) == \E i \in DOMAIN queue[q] : queue[q][i] = t

Unqueued(t) == \A q \in Queues : ~InQueue(q, t)

Init == queue = [q \in Queues |-> <<>>] /\ result = Null

PushBack(q, t) ==
  /\ Unqueued(t)
  /\ queue' = [queue EXCEPT ![q] = Append(@, t)]
  /\ UNCHANGED result

PushFront(q, t) ==
  /\ Unqueued(t)
  /\ queue' = [queue EXCEPT ![q] = <<t>> \o @]
  /\ UNCHANGED result

PopFront(q) ==
  IF queue[q] = <<>>
  THEN result' = Null /\ UNCHANGED queue
  ELSE result' = Head(queue[q]) /\ queue' = [queue EXCEPT ![q] = Tail(@)]

Next ==
  \E q \in Queues : PopFront(q) \/ \E t \in Tasks : PushBack(q, t) \/ PushFront(q, t)

Spec == Init /\ [][Next]_<<queue, result>>
=============================================================================
