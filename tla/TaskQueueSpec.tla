--------------------------- MODULE TaskQueueSpec ---------------------------
(***************************************************************************)
(* task::Queue with clients that respect its contract: a control block is  *)
(* pushed only while it is in no queue.  `queue' is a history variable,    *)
(* the sequences the clients believe they operate on.                      *)
(***************************************************************************)
EXTENDS TaskQueue, Sequences

VARIABLES queue, result

vars == <<queueVars, queue, result>>

Deque == INSTANCE TaskDeque

Init == QueueInit /\ Deque!Init

DoPush(q, t) ==
  /\ Deque!Unqueued(t)
  /\ Push(q, t)
  /\ queue' = [queue EXCEPT ![q] = Append(@, t)]
  /\ UNCHANGED result

DoPushFront(q, t) ==
  /\ Deque!Unqueued(t)
  /\ PushFront(q, t)
  /\ queue' = [queue EXCEPT ![q] = <<t>> \o @]
  /\ UNCHANGED result

DoPop(q) ==
  /\ Pop(q)
  /\ result' = head[q]
  /\ queue' = IF queue[q] = <<>> THEN queue ELSE [queue EXCEPT ![q] = Tail(@)]

Next ==
  \E q \in Queues : DoPop(q) \/ \E t \in Tasks : DoPush(q, t) \/ DoPushFront(q, t)

Spec == Init /\ [][Next]_vars

TypeOK ==
  /\ QueueTypeOK
  /\ queue \in [Queues -> Seq(Tasks)]
  /\ result \in Tasks \cup {Null}

\* The list from head[q] to tail[q] is the client's sequence, link by link,
\* although a `next' field is never cleared and may still point into a queue
\* the task has left (taskQueue.h:52-87).
Represents ==
  \A q \in Queues :
    /\ size[q] = Len(queue[q])
    /\ head[q] = IF queue[q] = <<>> THEN Null ELSE queue[q][1]
    /\ tail[q] = IF queue[q] = <<>> THEN Null ELSE queue[q][Len(queue[q])]
    /\ \A i \in 1 .. Len(queue[q]) - 1 : next[queue[q][i]] = queue[q][i + 1]

\* Every pop() returns the front of the client's sequence and every push puts
\* the task where a deque would.
ImplementsDeque == Deque!Spec
=============================================================================
