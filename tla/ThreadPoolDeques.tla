-------------------------- MODULE ThreadPoolDeques --------------------------
(* What the steps of the pool do to its deques and to the tasks in them,   *)
(* for every number of workers, tasks and clients.                         *)
EXTENDS ThreadPool, TLAPS

-----------------------------------------------------------------------------
(* Sequences: what pop, steal and push do to a deque. *)

\* deque_pop leaves every slot but the last one as it was.
LEMMA PopFacts ==
  ASSUME NEW S, NEW q \in Seq(S), q # <<>>
  PROVE  LET r == SubSeq(q, 1, Len(q) - 1) IN
         /\ r \in Seq(S) /\ Len(q) > 0 /\ Len(r) = Len(q) - 1
         /\ q[Len(q)] \in S
         /\ \A i \in 1 .. Len(r) : r[i] = q[i]
<1>1. Len(q) \in Nat /\ Len(q) > 0 /\ q[Len(q)] \in S
  OBVIOUS
<1> DEFINE r == SubSeq(q, 1, Len(q) - 1)
<1>2. r = [i \in 1 .. Len(q) - 1 |-> q[i]]
  BY <1>1
<1>3. r \in Seq(S)
  BY <1>1, <1>2
<1> HIDE DEF r
<1>4. DOMAIN r = 1 .. Len(q) - 1 /\ DOMAIN r = 1 .. Len(r) /\ Len(r) \in Nat
  BY <1>2, <1>3
<1>5. \A m, n \in Nat : 1 .. m = 1 .. n => m = n
  <2> SUFFICES ASSUME NEW m \in Nat, NEW n \in Nat, m < n, 1 .. m = 1 .. n
               PROVE  FALSE
    OBVIOUS
  <2>1. n \in 1 .. n /\ n \notin 1 .. m
    OBVIOUS
  <2> QED
    BY <2>1
<1>6. Len(r) = Len(q) - 1
  BY <1>1, <1>4, <1>5
<1>7. \A i \in 1 .. Len(r) : r[i] = q[i]
  BY <1>1, <1>2, <1>6
<1> QED
  BY <1>1, <1>3, <1>6, <1>7 DEF r

\* deque_steal shifts every slot but the first one.
LEMMA StealFacts ==
  ASSUME NEW S, NEW q \in Seq(S), q # <<>>
  PROVE  /\ Tail(q) \in Seq(S) /\ Len(q) > 0 /\ Len(Tail(q)) = Len(q) - 1
         /\ Head(q) = q[1] /\ q[1] \in S
         /\ \A i \in 1 .. Len(Tail(q)) : Tail(q)[i] = q[i + 1]
  OBVIOUS

\* deque_push adds one slot behind the others.
LEMMA PushFacts ==
  ASSUME NEW S, NEW q \in Seq(S), NEW e \in S
  PROVE  /\ Append(q, e) \in Seq(S) /\ Len(Append(q, e)) = Len(q) + 1
         /\ Append(q, e)[Len(q) + 1] = e
         /\ \A i \in 1 .. Len(q) : Append(q, e)[i] = q[i]
  OBVIOUS

\* The steal loop's victim is a worker.
LEMMA VictimIsWorker ==
  ASSUME NEW w \in Workers, NEW i \in Nat
  PROVE  (w + i) % NumThreads \in Workers
  BY PoolAssumption DEF Workers

\* A slot of a deque holds a task.
LEMMA SlotTask ==
  ASSUME TypeOK, NEW v \in Workers, NEW k \in Slots(v)
  PROVE  queues[v][k] \in Tasks
<1>1. queues[v] \in Seq(Tasks)
  BY DEF TypeOK
<1> QED
  BY <1>1 DEF Slots

\* Worker w takes slot k of deque v and leaves the other slots in order.
Took(w, v, k) ==
  /\ k \in Slots(v)
  /\ \A u \in Workers : u # v => queues'[u] = queues[u]
  /\ Len(queues'[v]) = Len(queues[v]) - 1
  /\ \A i \in 1 .. Len(queues'[v]) :
       queues'[v][i] = queues[v][IF i < k THEN i ELSE i + 1]
  /\ Take(w, queues[v][k])

\* Worker w found the deque it looked at empty.
Missed(w) ==
  /\ \E s \in {"steal", "test"} : wpc' = [wpc EXCEPT ![w] = s]
  /\ UNCHANGED <<queues, task, todo>>

\* deque_pop and deque_steal either take one slot or change no deque.
LEMMA PopOrSteal ==
  ASSUME TypeOK, NEW w \in Workers, WorkerPop(w) \/ WorkerSteal(w)
  PROVE  /\ wpc[w] \in {"pop", "steal"}
         /\ UNCHANGED <<poolVars, syncVars, clientVars, mine, historyVars>>
         /\ Missed(w) \/ \E v \in Workers : \E k \in Slots(v) : Took(w, v, k)
<1> USE DEF TypeOK, Slots
<1>1. CASE WorkerPop(w)
  <2>1. CASE queues[w] # <<>>
    <3> DEFINE q == queues[w]
               r == SubSeq(q, 1, Len(q) - 1)
    <3>1. /\ queues' = [queues EXCEPT ![w] = r] /\ Take(w, q[Len(q)])
      BY <1>1, <2>1 DEF WorkerPop, deque_pop
    <3>2. /\ q \in Seq(Tasks) /\ r \in Seq(Tasks) /\ Len(q) > 0
          /\ Len(r) = Len(q) - 1 /\ \A i \in 1 .. Len(r) : r[i] = q[i]
      BY <2>1, PopFacts
    <3> HIDE DEF r
    <3>3. queues'[w] = r /\ \A u \in Workers : u # w => queues'[u] = queues[u]
      BY <3>1
    <3>4. Len(q) \in Slots(w)
      BY <3>2
    <3>5. \A i \in 1 .. Len(r) : r[i] = q[IF i < Len(q) THEN i ELSE i + 1]
      BY <3>2
    <3>6. Took(w, w, Len(q))
      BY <3>1, <3>2, <3>3, <3>4, <3>5 DEF Took
    <3> QED
      BY <1>1, <3>4, <3>6 DEF WorkerPop
  <2>2. CASE queues[w] = <<>>
    BY <1>1, <2>2 DEF WorkerPop, Missed
  <2> QED
    BY <2>1, <2>2
<1>2. CASE WorkerSteal(w)
  <2> DEFINE v == (w + probe[w]) % NumThreads
             q == queues[v]
  <2>1. v \in Workers
    BY VictimIsWorker
  <2>2. CASE q # <<>>
    <3>1. queues' = [queues EXCEPT ![v] = Tail(q)] /\ Take(w, Head(q))
      BY <1>2, <2>2 DEF WorkerSteal, deque_steal
    <3> HIDE DEF v
    <3>2. /\ q \in Seq(Tasks) /\ Len(q) > 0 /\ Len(Tail(q)) = Len(q) - 1
          /\ Head(q) = q[1] /\ \A i \in 1 .. Len(Tail(q)) : Tail(q)[i] = q[i + 1]
      BY <2>1, <2>2, StealFacts
    <3>3. queues'[v] = Tail(q) /\ \A u \in Workers : u # v => queues'[u] = queues[u]
      BY <2>1, <3>1
    <3>4. 1 \in Slots(v)
      BY <3>2
    <3>5. \A i \in 1 .. Len(queues'[v]) :
            queues'[v][i] = q[IF i < 1 THEN i ELSE i + 1]
      BY <3>2, <3>3
    <3>6. Took(w, v, 1)
      BY <3>1, <3>2, <3>3, <3>4, <3>5, Zenon DEF Took
    <3> QED
      BY <1>2, <2>1, <3>4, <3>6 DEF WorkerSteal
  <2>3. CASE q = <<>>
    <3>1. wpc' = [wpc EXCEPT ![w] = "test"] \/ UNCHANGED wpc
      BY <1>2, <2>3, Zenon DEF WorkerSteal
    <3>2. UNCHANGED wpc => wpc' = [wpc EXCEPT ![w] = "steal"]
      BY <1>2 DEF WorkerSteal
    <3>3. UNCHANGED <<queues, task, todo>>
      BY <1>2, <2>3, Zenon DEF WorkerSteal
    <3> QED
      BY <1>2, <3>1, <3>2, <3>3 DEF WorkerSteal, Missed
  <2> QED
    BY <2>2, <2>3
<1> QED
  BY <1>1, <1>2

\* Taking a slot takes its task out of the deques, and only that one.
LEMMA TookQueued ==
  ASSUME TypeOK, TypeOK', ExactlyOnce, NEW w \in Workers, NEW v \in Workers,
         NEW k \in Slots(v), Took(w, v, k)
  PROVE  /\ Queued' = Queued \ {queues[v][k]} /\ queues[v][k] \in Queued
         /\ SlotsUnique'
<1> DEFINE t == queues[v][k]
<1> DEFINE old(a, i) == IF a = v /\ i >= k THEN i + 1 ELSE i
<1>1. \A a \in Workers : Len(queues[a]) \in Nat /\ Len(queues'[a]) \in Nat
  <2>1. \A a \in Workers : queues[a] \in Seq(Tasks) /\ queues'[a] \in Seq(Tasks)
    BY DEF TypeOK
  <2> QED
    BY <2>1
<1>2. ASSUME NEW a \in Workers, NEW i \in Slots(a)'
      PROVE  /\ old(a, i) \in Slots(a) /\ queues'[a][i] = queues[a][old(a, i)]
             /\ ~(a = v /\ old(a, i) = k)
  <2>1. CASE a = v
    <3>0. /\ Len(queues'[v]) = Len(queues[v]) - 1 /\ i \in 1 .. Len(queues'[v])
          /\ \A j \in 1 .. Len(queues'[v]) :
               queues'[v][j] = queues[v][IF j < k THEN j ELSE j + 1]
      BY <1>2, <2>1, Zenon DEF Took, Slots
    <3>1. /\ Len(queues'[v]) = Len(queues[v]) - 1 /\ k \in 1 .. Len(queues[v])
          /\ queues'[v][i] = queues[v][IF i < k THEN i ELSE i + 1]
          /\ i \in 1 .. Len(queues[v]) - 1 /\ Len(queues[v]) \in Nat
      BY <1>1, <3>0 DEF Slots
    <3> HIDE DEF Took
    <3>2. CASE i < k
      BY <2>1, <3>1, <3>2 DEF Slots
    <3>3. CASE ~(i < k)
      BY <2>1, <3>1, <3>3 DEF Slots
    <3> QED
      BY <3>2, <3>3
  <2>2. CASE a # v
    BY <1>1, <1>2, <2>2 DEF Took, Slots
  <2> QED
    BY <2>1, <2>2
<1>3. ASSUME NEW a \in Workers, NEW i \in Slots(a), ~(a = v /\ i = k)
      PROVE  \E j \in Slots(a)' : queues'[a][j] = queues[a][i]
  <2>1. CASE a = v /\ i > k
    <3>1. i - 1 \in Slots(a)' /\ i - 1 >= k
      BY <1>1, <1>3, <2>1 DEF Took, Slots
    <3>2. queues'[a][i - 1] = queues[a][i]
      BY <1>1, <1>3, <2>1, <3>1 DEF Took, Slots
    <3> QED
      BY <3>1, <3>2
  <2>2. CASE a = v /\ i < k
    <3>1. i \in Slots(a)' /\ queues'[a][i] = queues[a][i]
      BY <1>1, <1>3, <2>2 DEF Took, Slots
    <3> QED
      BY <3>1
  <2>3. CASE a # v
    BY <1>3, <2>3 DEF Took, Slots
  <2> QED
    BY <1>1, <1>3, <2>1, <2>2, <2>3 DEF Slots
<1>4. ASSUME NEW a \in Workers, NEW b \in Workers, NEW i \in Slots(a)',
             NEW j \in Slots(b)', queues'[a][i] = queues'[b][j]
      PROVE  a = b /\ i = j
  <2>1. old(a, i) \in Slots(a) /\ old(b, j) \in Slots(b)
    BY <1>2
  <2>2. queues[a][old(a, i)] = queues[b][old(b, j)]
    BY <1>2, <1>4
  <2>3. a = b /\ old(a, i) = old(b, j)
    BY <2>1, <2>2 DEF ExactlyOnce, SlotsUnique
  <2>4. i \in Int /\ j \in Int /\ k \in Int
    BY <1>1 DEF Slots
  <2> QED
    BY <2>3, <2>4
<1>5. t \in Queued
  BY DEF Queued
<1>6. ASSUME NEW x \in Queued' PROVE x \in Queued \ {t}
  <2>0. PICK a \in Workers : \E i \in Slots(a)' : x = queues'[a][i]
    BY <1>6 DEF Queued
  <2>1. PICK i \in Slots(a)' : x = queues'[a][i]
    BY <2>0
  <2>2. /\ old(a, i) \in Slots(a) /\ x = queues[a][old(a, i)]
        /\ ~(a = v /\ old(a, i) = k)
    BY <1>2, <2>1
  <2>3. x \in Queued
    BY <2>2 DEF Queued
  <2>4. x # t
    BY <2>2 DEF ExactlyOnce, SlotsUnique
  <2> QED
    BY <2>3, <2>4
<1>7. ASSUME NEW x \in Queued \ {t} PROVE x \in Queued'
  <2>0. PICK a \in Workers : \E i \in Slots(a) : x = queues[a][i]
    BY DEF Queued
  <2>1. PICK i \in Slots(a) : x = queues[a][i]
    BY <2>0
  <2>2. \E j \in Slots(a)' : queues'[a][j] = x
    BY <1>3, <1>7, <2>1
  <2> QED
    BY <2>2 DEF Queued
<1> QED
  BY <1>4, <1>5, <1>6, <1>7 DEF SlotsUnique


\* deque_destroy empties deque d.
Emptied(d) == queues' = [queues EXCEPT ![d] = <<>>]

\* A push adds one task to the deques, in a slot of its own.
LEMMA PushQueued ==
  ASSUME TypeOK, ExactlyOnce, NEW d \in Workers, NEW t \in Tasks,
         t \notin pushed, deque_push(d, t)
  PROVE  /\ Queued' = Queued \cup {t}
         /\ SlotsUnique'
<1>1. \A a \in Workers : queues[a] \in Seq(Tasks)
  BY DEF TypeOK
<1>2. \A a \in Workers : Len(queues[a]) \in Nat
  BY <1>1
<1>3. /\ queues'[d] = Append(queues[d], t)
      /\ \A a \in Workers : a # d => queues'[a] = queues[a]
  BY DEF TypeOK, deque_push
<1> DEFINE n == Len(queues[d]) + 1
<1>4. /\ Len(queues'[d]) = n /\ queues'[d][n] = t
      /\ \A i \in Slots(d) : queues'[d][i] = queues[d][i]
  <2>1. queues[d] \in Seq(Tasks)
    BY <1>1
  <2>2. LET r == Append(queues[d], t) IN
        /\ Len(r) = n /\ r[n] = t
        /\ \A i \in 1 .. Len(queues[d]) : r[i] = queues[d][i]
    BY <2>1, PushFacts
  <2> QED
    BY <1>3, <2>2, Zenon DEF Slots
<1>5. ASSUME NEW a \in Workers, NEW i \in Slots(a)', ~(a = d /\ i = n)
      PROVE  i \in Slots(a) /\ queues'[a][i] = queues[a][i]
  BY <1>2, <1>3, <1>4, <1>5 DEF Slots
<1>6. \A a \in Workers : Slots(a) \subseteq Slots(a)'
  BY <1>2, <1>3, <1>4 DEF Slots
<1>7. n \in Slots(d)'
  BY <1>2, <1>4 DEF Slots
<1>8. \A a \in Workers : \A i \in Slots(a) : queues[a][i] \in pushed /\ queues[a][i] # t
  BY DEF ExactlyOnce, Queued
<1> HIDE DEF n
<1>9. ASSUME NEW a \in Workers, NEW b \in Workers, NEW i \in Slots(a)',
             NEW j \in Slots(b)', queues'[a][i] = queues'[b][j]
      PROVE  a = b /\ i = j
  <2>1. CASE a = d /\ i = n
    <3>1. queues'[b][j] = t
      BY <1>4, <1>9, <2>1
    <3>2. b = d /\ j = n
      BY <1>5, <1>8, <3>1
    <3> QED
      BY <2>1, <3>2
  <2>2. CASE b = d /\ j = n
    <3>1. queues'[a][i] = t
      BY <1>4, <1>9, <2>2
    <3>2. a = d /\ i = n
      BY <1>5, <1>8, <3>1
    <3> QED
      BY <2>2, <3>2
  <2>3. CASE ~(a = d /\ i = n) /\ ~(b = d /\ j = n)
    <3>1. i \in Slots(a) /\ j \in Slots(b) /\ queues[a][i] = queues[b][j]
      BY <1>5, <1>9, <2>3
    <3> QED
      BY <3>1 DEF ExactlyOnce, SlotsUnique
  <2> QED
    BY <2>1, <2>2, <2>3
<1>10. ASSUME NEW x \in Queued' PROVE x \in Queued \cup {t}
  <2>1. PICK a \in Workers : \E i \in Slots(a)' : x = queues'[a][i]
    BY <1>10 DEF Queued
  <2>2. PICK i \in Slots(a)' : x = queues'[a][i]
    BY <2>1
  <2>3. CASE a = d /\ i = n
    BY <1>4, <2>2, <2>3
  <2>4. CASE ~(a = d /\ i = n)
    <3>1. i \in Slots(a) /\ x = queues[a][i]
      BY <1>5, <2>2, <2>4
    <3> QED
      BY <3>1 DEF Queued
  <2> QED
    BY <2>3, <2>4
<1>11. ASSUME NEW x \in Queued \cup {t} PROVE x \in Queued'
  <2>1. CASE x = t
    BY <1>4, <1>7, <2>1 DEF Queued
  <2>2. CASE x \in Queued
    <3>1. PICK a \in Workers : \E i \in Slots(a) : x = queues[a][i]
      BY <2>2 DEF Queued
    <3>2. PICK i \in Slots(a) : x = queues[a][i]
      BY <3>1
    <3>3. i \in Slots(a)' /\ queues'[a][i] = x
      BY <1>3, <1>4, <1>6, <3>2, Zenon
    <3>4. x \in {queues'[a][j] : j \in Slots(a)'}
      BY <3>3
    <3> QED
      BY <3>4 DEF Queued
  <2> QED
    BY <2>1, <2>2
<1> QED
  BY <1>9, <1>10, <1>11 DEF SlotsUnique

\* deque_destroy takes the tasks of one deque out, and only those.
LEMMA DrainQueued ==
  ASSUME TypeOK, ExactlyOnce, NEW d \in Workers, Emptied(d)
  PROVE  /\ Queued' = Queued \ {queues[d][i] : i \in Slots(d)}
         /\ {queues[d][i] : i \in Slots(d)} \subseteq Queued
         /\ SlotsUnique'
<1> DEFINE D == {queues[d][i] : i \in Slots(d)}
<1>1. /\ queues'[d] = <<>>
      /\ \A a \in Workers : a # d => queues'[a] = queues[a]
  BY DEF TypeOK, Emptied
<1>2. Slots(d)' = {}
  BY <1>1 DEF Slots
<1>3. \A a \in Workers : a # d => Slots(a)' = Slots(a)
  BY <1>1 DEF Slots
<1>4. ASSUME NEW a \in Workers, NEW b \in Workers, NEW i \in Slots(a)',
             NEW j \in Slots(b)', queues'[a][i] = queues'[b][j]
      PROVE  a = b /\ i = j
  <2>1. a # d /\ b # d
    BY <1>2
  <2>2. i \in Slots(a) /\ j \in Slots(b) /\ queues[a][i] = queues[b][j]
    BY <1>1, <1>3, <1>4, <2>1, Zenon
  <2> QED
    BY <2>2 DEF ExactlyOnce, SlotsUnique
<1>5. D \subseteq Queued
  BY DEF Queued
<1>6. ASSUME NEW x \in Queued' PROVE x \in Queued \ D
  <2>1. PICK a \in Workers : \E i \in Slots(a)' : x = queues'[a][i]
    BY <1>6 DEF Queued
  <2>2. PICK i \in Slots(a)' : x = queues'[a][i]
    BY <2>1
  <2>3. a # d
    BY <1>2
  <2>4. i \in Slots(a) /\ x = queues[a][i]
    BY <1>1, <1>3, <2>2, <2>3
  <2>5. x \in Queued
    BY <2>4 DEF Queued
  <2>6. x \notin D
    BY <2>3, <2>4 DEF ExactlyOnce, SlotsUnique
  <2> QED
    BY <2>5, <2>6
<1>7. Queued \ D \subseteq Queued'
  BY <1>1, <1>3 DEF Queued
<1> QED
  BY <1>4, <1>5, <1>6, <1>7 DEF SlotsUnique

=============================================================================
