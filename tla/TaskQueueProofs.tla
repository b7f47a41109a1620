-------------------------- MODULE TaskQueueProofs --------------------------
(***************************************************************************)
(* For every set of tasks and queues: as long as a control block is pushed *)
(* only while it is in no queue, task::Queue is a deque.                   *)
(***************************************************************************)
EXTENDS TaskQueueSpec, TLAPS

\* No control block is in two places.
Distinct ==
  \A p, q \in Queues : \A i \in 1 .. Len(queue[p]), j \in 1 .. Len(queue[q]) :
    queue[p][i] = queue[q][j] => p = q /\ i = j

IInv == TypeOK /\ Represents /\ Distinct

\* The initial state satisfies the inductive invariant.
LEMMA InitIInv == Init => IInv
  BY NullIsNoTask DEF Init, QueueInit, Deque!Init, IInv, TypeOK, QueueTypeOK, Represents, Distinct

\* Facts about the three sequence operations the history variable uses.
LEMMA SequenceOps ==
  ASSUME NEW S, NEW s \in Seq(S), NEW e \in S
  PROVE  /\ Append(s, e) \in Seq(S) /\ Append(s, e) # <<>> /\ Len(Append(s, e)) = Len(s) + 1
         /\ \A i \in 1 .. Len(s) : Append(s, e)[i] = s[i]
         /\ Append(s, e)[Len(s) + 1] = e
         /\ <<e>> \o s \in Seq(S) /\ <<e>> \o s # <<>> /\ Len(<<e>> \o s) = Len(s) + 1
         /\ (<<e>> \o s)[1] = e
         /\ \A i \in 1 .. Len(s) : (<<e>> \o s)[i + 1] = s[i]
         /\ Len(s) \in Nat /\ \A i \in 1 .. Len(s) : s[i] \in S
         /\ s = <<>> <=> Len(s) = 0
         /\ s # <<>> => /\ Tail(s) \in Seq(S) /\ Len(Tail(s)) = Len(s) - 1 /\ Head(s) = s[1]
                        /\ \A i \in 1 .. Len(s) - 1 : Tail(s)[i] = s[i + 1]
  OBVIOUS

\* The empty sequence is the one of length 0.
LEMMA EmptyIs ==
  ASSUME NEW S, NEW s \in Seq(S)
  PROVE  s = <<>> <=> Len(s) = 0
  OBVIOUS

\* A task the clients may push is nowhere in the sequences.
LEMMA UnqueuedIs ==
  ASSUME TypeOK, NEW t \in Tasks, Deque!Unqueued(t)
  PROVE  \A q \in Queues : \A i \in 1 .. Len(queue[q]) : queue[q][i] # t
  BY DEF Deque!Unqueued, Deque!InQueue, TypeOK

\* push() extends the list at its tail and disturbs no other list.
LEMMA PushIInv ==
  ASSUME IInv, NEW q \in Queues, NEW t \in Tasks, DoPush(q, t)
  PROVE  IInv'
  <1> DEFINE s == queue[q]
             n == Len(s)
  <1> USE NullIsNoTask DEF IInv
  <1>1. s \in Seq(Tasks) /\ n \in Nat /\ (s = <<>> <=> n = 0)
    BY SequenceOps DEF TypeOK
  <1>2. /\ \A r \in Queues \ {q} : queue'[r] = queue[r]
        /\ queue'[q] = Append(s, t)
        /\ queue' \in [Queues -> Seq(Tasks)]
    BY SequenceOps, <1>1 DEF DoPush, TypeOK
  <1>3. /\ Len(queue'[q]) = n + 1
        /\ \A i \in 1 .. n : queue'[q][i] = s[i] /\ s[i] \in Tasks
        /\ queue'[q][n + 1] = t
        /\ queue'[q] # <<>>
    BY <1>1, <1>2, SequenceOps
  <1>4. head[q] = Null <=> n = 0
    BY <1>1, <1>3 DEF Represents
  <1>5. n # 0 => tail[q] = s[n] /\ next' = [next EXCEPT ![s[n]] = t] /\ s[n] \in Tasks
    <2> SUFFICES ASSUME n # 0 PROVE tail[q] = s[n] /\ next' = [next EXCEPT ![s[n]] = t] /\ s[n] \in Tasks
      OBVIOUS
    <2>1. s[n] \in Tasks
      BY <1>1, <1>3
    <2>2. tail[q] = s[n]
      BY <1>1 DEF Represents
    <2>3. next' = [next EXCEPT ![tail[q]] = t]
      BY <1>4 DEF DoPush, Push
    <2> QED
      BY <2>1, <2>2, <2>3
  <1>6. n = 0 => next' = next
    BY <1>4 DEF DoPush, Push
  <1>7. TypeOK'
    <2>1. next' \in [Tasks -> Tasks \cup {Null}]
      BY <1>5, <1>6 DEF TypeOK, QueueTypeOK
    <2>2. /\ head' \in [Queues -> Tasks \cup {Null}] /\ tail' \in [Queues -> Tasks \cup {Null}]
          /\ size' \in [Queues -> Nat]
      BY DEF DoPush, Push, TypeOK, QueueTypeOK
    <2> QED
      BY <2>1, <2>2, <1>2 DEF TypeOK, QueueTypeOK, DoPush
  <1>8. Distinct'
    <2>1. \A r \in Queues : \A i \in 1 .. Len(queue[r]) : queue[r][i] # t
      BY UnqueuedIs DEF DoPush
    <2> SUFFICES ASSUME NEW p \in Queues, NEW r \in Queues, NEW i \in 1 .. Len(queue'[p]),
                        NEW j \in 1 .. Len(queue'[r]), queue'[p][i] = queue'[r][j]
                 PROVE  p = r /\ i = j
      BY DEF Distinct
    <2>2. ASSUME NEW u \in Queues, NEW k \in 1 .. Len(queue'[u])
          PROVE  \/ u = q /\ k = n + 1 /\ queue'[u][k] = t
                 \/ k \in 1 .. Len(queue[u]) /\ queue'[u][k] = queue[u][k]
      <3>1. CASE u = q
        <4>1. k = n + 1 \/ k \in 1 .. n
          BY <3>1, <1>1, <1>3
        <4> QED
          BY <3>1, <4>1, <1>3
      <3>2. CASE u # q
        BY <3>2, <1>2
      <3> QED
        BY <3>1, <3>2
    <2>3. CASE p = q /\ i = n + 1 /\ queue'[p][i] = t
      BY <2>1, <2>2, <2>3
    <2>4. CASE i \in 1 .. Len(queue[p]) /\ queue'[p][i] = queue[p][i]
      <3>1. j \in 1 .. Len(queue[r]) /\ queue'[r][j] = queue[r][j]
        BY <2>1, <2>2, <2>4
      <3> QED
        BY <3>1, <2>4 DEF Distinct
    <2> QED
      BY <2>2, <2>3, <2>4
  <1>9. Represents'
    <2> SUFFICES ASSUME NEW r \in Queues
                 PROVE  /\ size'[r] = Len(queue'[r])
                        /\ head'[r] = IF queue'[r] = <<>> THEN Null ELSE queue'[r][1]
                        /\ tail'[r] = IF queue'[r] = <<>> THEN Null ELSE queue'[r][Len(queue'[r])]
                        /\ \A i \in 1 .. Len(queue'[r]) - 1 : next'[queue'[r][i]] = queue'[r][i + 1]
      BY DEF Represents
    <2>1. CASE r = q
      <3>1. size'[q] = n + 1 /\ tail'[q] = t
        BY DEF DoPush, Push, Represents, TypeOK, QueueTypeOK
      <3>2. head'[q] = queue'[q][1]
        BY <1>1, <1>3, <1>4 DEF DoPush, Push, Represents, TypeOK, QueueTypeOK
      <3>3. ASSUME NEW i \in 1 .. n PROVE next'[queue'[q][i]] = queue'[q][i + 1]
        <4>1. CASE i = n
          BY <4>1, <1>1, <1>3, <1>5 DEF TypeOK, QueueTypeOK
        <4>2. CASE i # n
          <5>1. s[i] # s[n]
            BY <4>2, <1>1 DEF Distinct
          <5>2. next'[s[i]] = next[s[i]]
            BY <5>1, <1>3, <1>5, <1>1 DEF TypeOK, QueueTypeOK
          <5>3. i \in 1 .. n - 1 /\ i + 1 \in 1 .. n
            BY <4>2, <1>1
          <5>4. next[s[i]] = s[i + 1]
            BY <5>3 DEF Represents
          <5> QED
            BY <5>2, <5>3, <5>4, <1>3
        <4> QED
          BY <4>1, <4>2
      <3> QED
        BY <2>1, <3>1, <3>2, <3>3, <1>3, <1>1
    <2>2. CASE r # q
      <3>1. size'[r] = size[r] /\ head'[r] = head[r] /\ tail'[r] = tail[r] /\ queue'[r] = queue[r]
        BY <2>2, <1>2 DEF DoPush, Push, TypeOK, QueueTypeOK
      <3>2. ASSUME NEW i \in 1 .. Len(queue[r]) - 1 PROVE next'[queue[r][i]] = next[queue[r][i]]
        <4>1. queue[r] \in Seq(Tasks) /\ Len(queue[r]) \in Nat
          BY SequenceOps DEF TypeOK
        <4>2. queue[r][i] \in Tasks /\ (n # 0 => queue[r][i] # s[n])
          BY <4>1, <2>2, <1>1, SequenceOps DEF Distinct
        <4> QED
          BY <4>2, <1>5, <1>6, <1>1 DEF TypeOK, QueueTypeOK
      <3> QED
        BY <3>1, <3>2 DEF Represents
    <2> QED
      BY <2>1, <2>2
  <1> QED
    BY <1>7, <1>8, <1>9

\* push_front() links the new head before the old one; no other task's `next'
\* changes.
LEMMA PushFrontIInv ==
  ASSUME IInv, NEW q \in Queues, NEW t \in Tasks, DoPushFront(q, t)
  PROVE  IInv'
  <1> DEFINE s == queue[q]
             n == Len(s)
  <1> USE NullIsNoTask DEF IInv
  <1>1. s \in Seq(Tasks) /\ n \in Nat /\ (s = <<>> <=> n = 0)
    BY SequenceOps DEF TypeOK
  <1>2. /\ \A r \in Queues \ {q} : queue'[r] = queue[r]
        /\ queue'[q] = <<t>> \o s
        /\ queue' \in [Queues -> Seq(Tasks)]
    BY SequenceOps, <1>1 DEF DoPushFront, TypeOK
  <1>3. /\ Len(queue'[q]) = n + 1
        /\ \A i \in 1 .. n : queue'[q][i + 1] = s[i] /\ s[i] \in Tasks
        /\ queue'[q][1] = t
        /\ queue'[q] # <<>>
    BY <1>1, <1>2, SequenceOps
  <1>4. head[q] = Null <=> n = 0
    BY <1>1, <1>3 DEF Represents
  <1>5. n # 0 => head[q] = s[1] /\ next' = [next EXCEPT ![t] = s[1]] /\ s[1] \in Tasks
    <2> SUFFICES ASSUME n # 0 PROVE head[q] = s[1] /\ next' = [next EXCEPT ![t] = s[1]] /\ s[1] \in Tasks
      OBVIOUS
    <2>1. s[1] \in Tasks
      BY <1>1, <1>3
    <2>2. head[q] = s[1]
      BY <1>1 DEF Represents
    <2>3. next' = [next EXCEPT ![t] = head[q]]
      BY <1>4 DEF DoPushFront, PushFront
    <2> QED
      BY <2>1, <2>2, <2>3
  <1>6. n = 0 => next' = next
    BY <1>4 DEF DoPushFront, PushFront
  <1>7. TypeOK'
    <2>1. next' \in [Tasks -> Tasks \cup {Null}]
      BY <1>5, <1>6 DEF TypeOK, QueueTypeOK
    <2>2. /\ head' \in [Queues -> Tasks \cup {Null}] /\ tail' \in [Queues -> Tasks \cup {Null}]
          /\ size' \in [Queues -> Nat]
      BY DEF DoPushFront, PushFront, TypeOK, QueueTypeOK
    <2> QED
      BY <2>1, <2>2, <1>2 DEF TypeOK, QueueTypeOK, DoPushFront
  <1>8. \A r \in Queues : \A i \in 1 .. Len(queue[r]) : queue[r][i] # t
    BY UnqueuedIs DEF DoPushFront
  <1>9. Distinct'
    <2> SUFFICES ASSUME NEW p \in Queues, NEW r \in Queues, NEW i \in 1 .. Len(queue'[p]),
                        NEW j \in 1 .. Len(queue'[r]), queue'[p][i] = queue'[r][j]
                 PROVE  p = r /\ i = j
      BY DEF Distinct
    <2> DEFINE old(u, k) == IF u = q THEN k - 1 ELSE k
    <2>1. ASSUME NEW u \in Queues, NEW k \in 1 .. Len(queue'[u])
          PROVE  \/ u = q /\ k = 1 /\ queue'[u][k] = t
                 \/ old(u, k) \in 1 .. Len(queue[u]) /\ queue'[u][k] = queue[u][old(u, k)]
      <3>1. CASE u = q
        <4>1. k = 1 \/ (k - 1 \in 1 .. n /\ k = (k - 1) + 1)
          BY <3>1, <1>1, <1>3
        <4> QED
          BY <3>1, <4>1, <1>3
      <3>2. CASE u # q
        BY <3>2, <1>2
      <3> QED
        BY <3>1, <3>2
    <2> HIDE DEF old
    <2>2. CASE p = q /\ i = 1 /\ queue'[p][i] = t
      BY <1>8, <2>1, <2>2
    <2>3. CASE old(p, i) \in 1 .. Len(queue[p]) /\ queue'[p][i] = queue[p][old(p, i)]
      <3>1. old(r, j) \in 1 .. Len(queue[r]) /\ queue'[r][j] = queue[r][old(r, j)]
        BY <1>8, <2>1, <2>3
      <3>2. p = r /\ old(p, i) = old(r, j)
        BY <3>1, <2>3 DEF Distinct
      <3> QED
        BY <3>2 DEF old
    <2> QED
      BY <2>1, <2>2, <2>3
  <1>10. Represents'
    <2> SUFFICES ASSUME NEW r \in Queues
                 PROVE  /\ size'[r] = Len(queue'[r])
                        /\ head'[r] = IF queue'[r] = <<>> THEN Null ELSE queue'[r][1]
                        /\ tail'[r] = IF queue'[r] = <<>> THEN Null ELSE queue'[r][Len(queue'[r])]
                        /\ \A i \in 1 .. Len(queue'[r]) - 1 : next'[queue'[r][i]] = queue'[r][i + 1]
      BY DEF Represents
    <2>1. CASE r = q
      <3>1. size'[q] = n + 1 /\ head'[q] = t
        BY DEF DoPushFront, PushFront, Represents, TypeOK, QueueTypeOK
      <3>2. tail'[q] = queue'[q][n + 1]
        BY <1>1, <1>3, <1>4 DEF DoPushFront, PushFront, Represents, TypeOK, QueueTypeOK
      <3>3. ASSUME NEW i \in 1 .. n PROVE next'[queue'[q][i]] = queue'[q][i + 1]
        <4>1. CASE i = 1
          BY <4>1, <1>1, <1>3, <1>5 DEF TypeOK, QueueTypeOK
        <4>2. CASE i # 1
          <5>1. i - 1 \in 1 .. n - 1 /\ (i - 1) + 1 = i /\ i - 1 \in 1 .. n
            BY <4>2, <1>1
          <5>2. queue'[q][i] = s[i - 1] /\ queue'[q][i + 1] = s[i]
            BY <5>1, <1>3
          <5>3. next[s[i - 1]] = s[i]
            BY <5>1 DEF Represents
          <5>4. next'[s[i - 1]] = next[s[i - 1]]
            BY <5>1, <1>3, <1>5, <1>8, <1>1 DEF TypeOK, QueueTypeOK
          <5> QED
            BY <5>2, <5>3, <5>4
        <4> QED
          BY <4>1, <4>2
      <3> QED
        BY <2>1, <3>1, <3>2, <3>3, <1>3, <1>1
    <2>2. CASE r # q
      <3>1. size'[r] = size[r] /\ head'[r] = head[r] /\ tail'[r] = tail[r] /\ queue'[r] = queue[r]
        BY <2>2, <1>2 DEF DoPushFront, PushFront, TypeOK, QueueTypeOK
      <3>2. ASSUME NEW i \in 1 .. Len(queue[r]) - 1 PROVE next'[queue[r][i]] = next[queue[r][i]]
        <4>1. queue[r] \in Seq(Tasks) /\ Len(queue[r]) \in Nat
          BY SequenceOps DEF TypeOK
        <4>2. queue[r][i] \in Tasks /\ queue[r][i] # t
          BY <4>1, <1>8, SequenceOps
        <4> QED
          BY <4>2, <1>5, <1>6, <1>1 DEF TypeOK, QueueTypeOK
      <3> QED
        BY <3>1, <3>2 DEF Represents
    <2> QED
      BY <2>1, <2>2
  <1> QED
    BY <1>7, <1>9, <1>10

\* pop() of a non-empty queue moves head to the second task, or empties the
\* queue when head and tail coincide: that happens exactly at length 1,
\* whatever the stale `next' of the last task is.
LEMMA PopIInv ==
  ASSUME IInv, NEW q \in Queues, DoPop(q)
  PROVE  /\ IInv'
         /\ head[q] = IF queue[q] = <<>> THEN Null ELSE Head(queue[q])
  <1> DEFINE s == queue[q]
             n == Len(s)
  <1> USE NullIsNoTask DEF IInv
  <1>1. s \in Seq(Tasks) /\ n \in Nat /\ (s = <<>> <=> n = 0)
    BY SequenceOps DEF TypeOK
  <1>2. head[q] = Null <=> n = 0
    <2>1. n # 0 => s[1] \in Tasks
      BY <1>1, SequenceOps
    <2> QED
      BY <1>1, <2>1 DEF Represents
  <1>3. head[q] = IF s = <<>> THEN Null ELSE Head(s)
    BY <1>1 DEF Represents
  <1>4. CASE n = 0
    <2>1. UNCHANGED <<queueVars, queue>> /\ result' = Null
      BY <1>4, <1>1, <1>2 DEF DoPop, Pop
    <2> QED
      BY <2>1, <1>3 DEF queueVars, TypeOK, QueueTypeOK, Represents, Distinct
  <1>5. CASE n # 0
    <2> USE <1>5
    <2>1. /\ \A r \in Queues \ {q} : queue'[r] = queue[r]
          /\ queue'[q] = Tail(s)
          /\ queue' \in [Queues -> Seq(Tasks)]
      BY <1>1, SequenceOps DEF DoPop, TypeOK
    <2>2. /\ Len(queue'[q]) = n - 1
          /\ \A k \in 1 .. n - 1 : queue'[q][k] = s[k + 1]
          /\ queue'[q] = <<>> <=> n = 1
      <3>1. /\ Tail(s) \in Seq(Tasks) /\ Len(Tail(s)) = n - 1
            /\ \A k \in 1 .. n - 1 : Tail(s)[k] = s[k + 1]
        BY <1>1
      <3>2. Tail(s) = <<>> <=> n - 1 = 0
        <4> HIDE DEF n
        <4> QED
          BY <3>1, EmptyIs
      <3> QED
        BY <1>1, <2>1, <3>1, <3>2
    <2>3. head[q] = s[1] /\ tail[q] = s[n] /\ (head[q] = tail[q] <=> n = 1)
      <3>1. head[q] = s[1] /\ tail[q] = s[n]
        BY <1>1 DEF Represents
      <3>2. 1 \in 1 .. n /\ n \in 1 .. n
        BY <1>1
      <3>3. s[1] = s[n] => 1 = n
        BY <3>2 DEF Distinct
      <3> QED
        BY <3>1, <3>3
    <2>4. /\ head' = [head EXCEPT ![q] = IF n = 1 THEN Null ELSE next[s[1]]]
          /\ tail' = [tail EXCEPT ![q] = IF n = 1 THEN Null ELSE @]
          /\ size' = [size EXCEPT ![q] = @ - 1]
          /\ next' = next
          /\ result' = s[1]
      BY <1>2, <2>3 DEF DoPop, Pop
    <2>5. s[1] \in Tasks
      BY <1>1, SequenceOps
    <2>6. TypeOK'
      <3>1. size[q] \in Nat /\ size[q] # 0
        BY <1>1 DEF Represents, TypeOK, QueueTypeOK
      <3> QED
        BY <3>1, <2>1, <2>4, <2>5 DEF TypeOK, QueueTypeOK
    <2>7. ASSUME NEW u \in Queues, NEW k \in 1 .. Len(queue'[u])
          PROVE  (IF u = q THEN k + 1 ELSE k) \in 1 .. Len(queue[u])
                   /\ queue'[u][k] = queue[u][IF u = q THEN k + 1 ELSE k]
      <3>1. CASE u = q
        <4>1. k \in 1 .. n - 1 /\ k + 1 \in 1 .. n
          BY <3>1, <1>1, <2>2
        <4> QED
          BY <3>1, <4>1, <2>2
      <3>2. CASE u # q
        BY <3>2, <2>1
      <3> QED
        BY <3>1, <3>2
    <2>8. Distinct'
      <3> SUFFICES ASSUME NEW p \in Queues, NEW r \in Queues, NEW i \in 1 .. Len(queue'[p]),
                          NEW j \in 1 .. Len(queue'[r]), queue'[p][i] = queue'[r][j]
                   PROVE  p = r /\ i = j
        BY DEF Distinct
      <3> DEFINE a == IF p = q THEN i + 1 ELSE i
                 b == IF r = q THEN j + 1 ELSE j
      <3>1. a \in 1 .. Len(queue[p]) /\ b \in 1 .. Len(queue[r]) /\ queue[p][a] = queue[r][b]
        BY <2>7
      <3>2. p = r /\ a = b
        <4> HIDE DEF a, b
        <4> QED
          BY <3>1 DEF Distinct
      <3> QED
        BY <3>2
    <2>9. Represents'
      <3> SUFFICES ASSUME NEW r \in Queues
                   PROVE  /\ size'[r] = Len(queue'[r])
                          /\ head'[r] = IF queue'[r] = <<>> THEN Null ELSE queue'[r][1]
                          /\ tail'[r] = IF queue'[r] = <<>> THEN Null ELSE queue'[r][Len(queue'[r])]
                          /\ \A i \in 1 .. Len(queue'[r]) - 1 : next'[queue'[r][i]] = queue'[r][i + 1]
        BY DEF Represents
      <3>1. CASE r # q
        BY <3>1, <2>1, <2>4 DEF Represents, TypeOK, QueueTypeOK
      <3>2. CASE r = q
        <4>1. size'[q] = n - 1
          BY <2>4 DEF Represents, TypeOK, QueueTypeOK
        <4>2. n # 1 => next[s[1]] = s[2] /\ queue'[q][1] = s[2] /\ queue'[q][n - 1] = s[n]
          <5> SUFFICES ASSUME n # 1
                       PROVE next[s[1]] = s[2] /\ queue'[q][1] = s[2] /\ queue'[q][n - 1] = s[n]
            OBVIOUS
          <5>1. 1 \in 1 .. n - 1 /\ n - 1 \in 1 .. n - 1 /\ 1 + 1 = 2 /\ (n - 1) + 1 = n
            <6>1. n \in Nat /\ n # 0 /\ n # 1
              BY <1>1
            <6> HIDE DEF n
            <6> QED
              BY <6>1
          <5>2. next[s[1]] = s[1 + 1]
            BY <5>1 DEF Represents
          <5>3. queue'[q][1] = s[1 + 1] /\ queue'[q][n - 1] = s[(n - 1) + 1]
            BY <5>1, <2>2
          <5> QED
            BY <5>1, <5>2, <5>3
        <4>3. head'[q] = IF queue'[q] = <<>> THEN Null ELSE queue'[q][1]
          BY <4>2, <2>2, <2>4 DEF TypeOK, QueueTypeOK
        <4>4. tail'[q] = IF queue'[q] = <<>> THEN Null ELSE queue'[q][n - 1]
          BY <4>2, <2>2, <2>3, <2>4 DEF TypeOK, QueueTypeOK
        <4>5. ASSUME NEW i \in 1 .. (n - 1) - 1 PROVE next'[queue'[q][i]] = queue'[q][i + 1]
          <5>1. i + 1 \in 1 .. n - 1 /\ i \in 1 .. n - 1
            BY <1>1
          <5>2. next[s[i + 1]] = s[(i + 1) + 1]
            BY <5>1 DEF Represents
          <5> QED
            BY <5>1, <5>2, <2>2, <2>4
        <4> QED
          BY <3>2, <4>1, <4>3, <4>4, <4>5, <2>2
      <3> QED
        BY <3>1, <3>2
    <2> QED
      BY <1>3, <2>6, <2>8, <2>9
  <1> QED
    BY <1>4, <1>5

\* The inductive invariant is preserved by every step.
LEMMA StepIInv == IInv /\ [Next]_vars => IInv'
  <1>1. CASE UNCHANGED vars
    BY <1>1 DEF vars, queueVars, IInv, TypeOK, QueueTypeOK, Represents, Distinct
  <1> QED
    BY <1>1, PushIInv, PushFrontIInv, PopIInv DEF Next

\* The linked lists represent the clients' sequences in every reachable state.
THEOREM QueueRepresents == Spec => [](TypeOK /\ Represents)
  <1>1. IInv => TypeOK /\ Represents
    BY DEF IInv
  <1> QED
    BY <1>1, InitIInv, StepIInv, PTL DEF Spec

\* task::Queue implements a deque of distinct tasks.
THEOREM QueueImplementsDeque == Spec => ImplementsDeque
  <1>1. Init => Deque!Init
    BY DEF Init
  <1>2. IInv /\ [Next]_vars => [Deque!Next]_<<queue, result>>
    <2> SUFFICES ASSUME IInv, [Next]_vars PROVE [Deque!Next]_<<queue, result>>
      OBVIOUS
    <2>1. ASSUME NEW q \in Queues, NEW t \in Tasks, DoPush(q, t) \/ DoPushFront(q, t)
          PROVE  Deque!Next
      BY <2>1 DEF DoPush, DoPushFront, Deque!Next, Deque!PushBack, Deque!PushFront
    <2>2. ASSUME NEW q \in Queues, DoPop(q) PROVE Deque!Next
      BY <2>2, PopIInv DEF DoPop, Deque!Next, Deque!PopFront
    <2>3. CASE UNCHANGED vars
      BY <2>3 DEF vars
    <2> QED
      BY <2>1, <2>2, <2>3 DEF Next
  <1> QED
    BY <1>1, <1>2, InitIInv, StepIInv, PTL DEF Spec, ImplementsDeque, Deque!Spec
=============================================================================
