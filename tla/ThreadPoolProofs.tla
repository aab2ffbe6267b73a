-------------------------- MODULE ThreadPoolProofs --------------------------
(* The inductive invariant of the pool and the theorems that follow from   *)
(* it, for every number of workers, tasks and clients.                     *)
EXTENDS ThreadPoolControl, ThreadPoolTasks, FiniteSetTheorems

\* The pool as SNEPPX_threadpool_create sets it up satisfies the invariant.
LEMMA InitInv == Init => IInv
<1> SUFFICES ASSUME Init PROVE IInv
  OBVIOUS
<1> USE PoolAssumption DEF Init
<1>1. TypeOK
  <2>1. started \in 0 .. NumThreads /\ joined \in 0 .. NumThreads
    OBVIOUS
  <2>2. shutdown \in BOOLEAN
    BY Zenon
  <2>3. probe \in [Workers -> 1 .. NumThreads]
    OBVIOUS
  <2>4. scan \in [Clients -> 0 .. NumThreads]
    OBVIOUS
  <2>5. queues \in [Workers -> Seq(Tasks)]
    OBVIOUS
  <2> QED
    BY <2>1, <2>2, <2>3, <2>4, <2>5 DEF TypeOK, WorkerStates
<1>2. ControlInv
  BY DEF ControlInv
<1>3. ExactlyOnce
  BY DEF ExactlyOnce, SlotsUnique, HeldOnce, Queued, Held, Slots
<1>4. CountInv
  BY DEF CountInv
<1>5. SpawnInv
  BY DEF SpawnInv
<1>6. LifeInv
  BY DEF LifeInv, Workers
<1>7. Accounting
  BY FS_EmptySet DEF Accounting
<1> QED
  BY <1>1, <1>2, <1>3, <1>4, <1>5, <1>6, <1>7 DEF IInv

\* Every increment counts a task not counted before, every decrement retires
\* one not retired before.
LEMMA AccountingStep == IInv /\ [Next]_vars => Accounting'
<1> SUFFICES ASSUME IInv, [Next]_vars PROVE Accounting'
  OBVIOUS
<1> DEFINE Moved(w) == WorkerPop(w) \/ WorkerSteal(w)
<1>0. ASSUME NEW w \in Workers, Moved(w)
      PROVE  /\ wpc[w] \in {"pop", "steal"}
             /\ UNCHANGED <<poolVars, syncVars, clientVars, mine, historyVars>>
             /\ Missed(w) \/ \E v \in Workers : \E k \in Slots(v) : Took(w, v, k)
  BY <1>0, PopOrSteal DEF IInv
<1> HIDE DEF Moved
<1>a. TypeOK /\ ControlInv /\ ExactlyOnce /\ CountInv /\ Accounting
  BY DEF IInv
<1>same. UNCHANGED <<active, counted, retired>> => Accounting'
  BY <1>a DEF Accounting
<1>fin. /\ IsFiniteSet(counted) /\ IsFiniteSet(retired) /\ active \in Int
       /\ Cardinality(counted) \in Nat /\ Cardinality(retired) \in Nat
  BY <1>a, PoolAssumption, FS_Subset, FS_CardinalityType DEF TypeOK
<1>1. CASE FailJoin
  BY <1>same, <1>1 DEF FailJoin, syncVars
<1>2. CASE DestroyJoin
  BY <1>same, <1>2 DEF DestroyJoin, syncVars
<1>3. ASSUME NEW w \in Workers, Moved(w) PROVE Accounting'
  BY <1>0, <1>same, <1>3 DEF syncVars, historyVars
<1>4. ASSUME NEW w \in Workers, WorkerPush(w) PROVE Accounting'
  BY <1>same, <1>4 DEF WorkerPush, syncVars
<1>5. ASSUME NEW w \in Workers, WorkerCount(w) PROVE Accounting'
  <2>1. /\ active' = active + 1 /\ counted' = counted \cup {mine[w]}
        /\ UNCHANGED retired
    BY <1>5 DEF WorkerCount, Count
  <2>2. mine[w] \notin counted
    BY <1>a DEF CountInv
  <2>3. Cardinality(counted') = Cardinality(counted) + 1
    BY <1>fin, <2>1, <2>2, FS_AddElement, Zenon
  <2> QED
    BY <1>a, <1>fin, <2>1, <2>3 DEF Accounting
<1>6. ASSUME NEW w \in Workers, WorkerFinish(w) PROVE Accounting'
  BY <1>same, <1>6 DEF WorkerFinish, syncVars
<1>7. ASSUME NEW w \in Workers, WorkerRetire(w) PROVE Accounting'
  <2>1. /\ active' = active - 1 /\ retired' = retired \cup {task[w]}
        /\ UNCHANGED counted /\ task[w] # NoTask
    BY <1>a, <1>7 DEF WorkerRetire, ControlInv
  <2>2. task[w] \notin retired
    BY <1>a, <2>1 DEF ExactlyOnce, Held
  <2>3. Cardinality(retired') = Cardinality(retired) + 1
    BY <1>fin, <2>1, <2>2, FS_AddElement, Zenon
  <2> QED
    BY <1>a, <1>fin, <2>1, <2>3 DEF Accounting
<1>8. ASSUME NEW c \in Clients, ClientPush(c) PROVE Accounting'
  BY <1>same, <1>8 DEF ClientPush, syncVars
<1>9. ASSUME NEW c \in Clients, ClientCount(c) PROVE Accounting'
  <2>1. /\ active' = active + 1 /\ counted' = counted \cup {mine[c]}
        /\ UNCHANGED retired
    BY <1>9 DEF ClientCount, Count
  <2>2. mine[c] \notin counted
    BY <1>a DEF CountInv
  <2>3. Cardinality(counted') = Cardinality(counted) + 1
    BY <1>fin, <2>1, <2>2, FS_AddElement, Zenon
  <2> QED
    BY <1>a, <1>fin, <2>1, <2>3 DEF Accounting
<1>10. ASSUME NEW c \in Clients, WaitBegin(c) PROVE Accounting'
  BY <1>same, <1>10 DEF WaitBegin, syncVars, historyVars
<1>11. CASE Quiet
  BY <1>same, <1>11 DEF Quiet, historyVars
<1> QED
  BY <1>1, <1>2, <1>3, <1>4, <1>5, <1>6, <1>7, <1>8, <1>9, <1>10, <1>11, Effects
     DEF OwnerMoves, WorkerMoves, ClientMoves, Moved

-----------------------------------------------------------------------------
(* Theorems *)

\* The inductive invariant of the pool.
THEOREM PoolInvariant == Spec => []IInv
<1>1. Init => IInv
  BY InitInv
<1>2. IInv /\ [Next]_vars => IInv'
  BY TypeStep, ControlStep, PlaceStep, CountStep, SpawnStep, LifeStep, AccountingStep
     DEF IInv
<1> QED
  BY <1>1, <1>2, PTL DEF Spec

\* Type correctness, for any number of workers, clients and tasks.
THEOREM TypeCorrect == Spec => []TypeOK
<1>1. IInv => TypeOK
  BY DEF IInv
<1> QED
  BY <1>1, PoolInvariant, PTL

\* The deques lose no task and hand none out twice, nested submissions and
\* destroy included.
THEOREM TasksRunExactlyOnce == Spec => []ExactlyOnce
<1>1. IInv => ExactlyOnce
  BY DEF IInv
<1> QED
  BY <1>1, PoolInvariant, PTL

\* active_tasks never drifts from what has been counted and retired.
THEOREM ActiveTasksExact == Spec => []Accounting
<1>1. IInv => Accounting
  BY DEF IInv
<1> QED
  BY <1>1, PoolInvariant, PTL

\* A joined worker runs nothing, and a destroyed pool holds nothing.
THEOREM DestroyLeavesNothing == Spec => []DestroyQuiesces
<1>1. IInv => DestroyQuiesces
  <2> SUFFICES ASSUME IInv PROVE DestroyQuiesces
    OBVIOUS
  <2>1. \A w \in Workers : w < joined => task[w] = NoTask /\ queues[w] = <<>>
    BY DEF IInv, LifeInv, ControlInv
  <2>2. \A w \in 0 .. joined - 1 : task[w] = NoTask
    BY <2>1, PoolAssumption DEF IInv, TypeOK, Workers
  <2>3. ASSUME life = "gone" PROVE Queued \cup Held = {}
    <3>1. \A w \in Workers : task[w] = NoTask /\ queues[w] = <<>>
      <4>1. joined = NumThreads
        BY <2>3 DEF IInv, LifeInv
      <4> QED
        BY <2>1, <4>1, PoolAssumption DEF Workers
    <3>2. \A w \in Workers : Slots(w) = {}
      BY <3>1 DEF Slots
    <3> QED
      BY <3>1, <3>2 DEF Queued, Held
  <2> QED
    BY <2>2, <2>3 DEF DestroyQuiesces
<1> QED
  BY <1>1, PoolInvariant, PTL

\* With one client and no nested submissions, threadpool_wait returns only
\* after every task submitted before it has completed.
THEOREM WaitIsSound ==
  ASSUME \A c, d \in Clients : c = d, \A t \in Tasks : Spawns[t] = {}
  PROVE  Spec => WaitSound
<1> DEFINE Waited == \A c \in Clients : cpc[c] = "scan" /\ cpc'[c] = "idle"
                                         => target[c] \subseteq finished
<1>1. IInv /\ [Next]_vars => [Waited]_vars
  <2> SUFFICES ASSUME IInv, Next, NEW c \in Clients,
                      cpc[c] = "scan", cpc'[c] = "idle"
               PROVE  target[c] \subseteq finished
    BY DEF Waited
  <2>1. active = 0
    <3>1. CASE WaitCheck(c)
      <4>1. cpc' = [cpc EXCEPT ![c] = IF active = 0 THEN "idle" ELSE "scan"]
        BY <3>1 DEF WaitCheck
      <4>2. cpc \in [Clients -> {"idle", "count", "scan"}]
        BY DEF IInv, TypeOK
      <4> QED
        BY <4>1, <4>2
    <3>2. CASE ~WaitCheck(c)
      <4>1. UNCHANGED cpc \/ \E d \in Clients : Client(d)
        BY Zenon DEF Next, Owner, Worker, StartWorker, CreateReturns, CreateFails,
               FailJoin, FailReturns, DestroyBegin, DestroyBroadcast, DestroyJoin,
               DestroyReturns, WorkerTop, WorkerPop, WorkerSteal, WorkerPush,
               WorkerCount, WorkerFinish, WorkerRetire, WorkerTest, WorkerWait,
               WorkerWake, SpuriousWake, TestPredicate, clientVars
      <4>2. Client(c)
        BY <4>1
      <4> QED
        BY <3>2, <4>2, Zenon DEF Client, ClientPush, ClientCount, WaitBegin, WaitScan
    <3> QED
      BY <3>1, <3>2
  <2>2. \A p \in Workers \cup Clients : mine[p] = NoTask
    <3>1. \A d \in Clients : mine[d] = NoTask
      BY DEF IInv, ControlInv
    <3>2. \A w \in Workers : mine[w] = NoTask
      <4>1. ASSUME NEW w \in Workers, mine[w] # NoTask PROVE FALSE
        <5>0. ControlInv /\ task \in [Workers -> Tasks \cup {NoTask}]
          BY DEF IInv, TypeOK
        <5>1. task[w] \in Tasks
          BY <4>1, <5>0 DEF ControlInv
        <5> QED
          BY <4>1, <5>1 DEF IInv, SpawnInv
      <4> QED
        BY <4>1
    <3> QED
      BY <3>1, <3>2
  <2>3. pushed \subseteq counted
    <3>1. pushed \in SUBSET Tasks /\ NoTask \notin Tasks
      BY PoolAssumption DEF IInv, TypeOK
    <3>2. \A t \in pushed : t \in counted \/ \E p \in Workers \cup Clients : mine[p] = t
      BY <3>1 DEF IInv, CountInv
    <3> QED
      BY <2>2, <3>1, <3>2
  <2>4. retired \subseteq counted
    BY <2>3 DEF IInv, ExactlyOnce
  <2>5. Cardinality(counted) = Cardinality(retired)
    <3>1. IsFiniteSet(counted) /\ IsFiniteSet(retired)
      BY PoolAssumption, FS_Subset DEF IInv, TypeOK
    <3>2. Cardinality(counted) \in Nat /\ Cardinality(retired) \in Nat
      BY <3>1, FS_CardinalityType
    <3>3. active = Cardinality(counted) - Cardinality(retired)
      BY DEF IInv, Accounting
    <3> QED
      BY <2>1, <3>2, <3>3
  <2>6. retired = counted
    <3>1. IsFiniteSet(counted) /\ retired \in SUBSET counted
      BY <2>4, PoolAssumption, FS_Subset DEF IInv, TypeOK
    <3> QED
      BY <2>5, <3>1, FS_Subset
  <2> QED
    BY <2>6 DEF IInv, CountInv
<1> QED
  BY <1>1, PoolInvariant, PTL DEF Spec, WaitSound

\* The workers inside the cond_wait loop.
Inside == {w \in Workers : wpc[w] \in {"wait", "asleep"}}

\* Only the test of the predicate moves a worker into the loop or out of it,
\* and it changes waiting_count by as much.
LEMMA InsideStep ==
  ASSUME IInv, [Next]_vars
  PROVE  \/ Inside' = Inside /\ waiting' = waiting
         \/ \E w \in Workers \ Inside : Inside' = Inside \cup {w} /\ waiting' = waiting + 1
         \/ \E w \in Inside : Inside' = Inside \ {w} /\ waiting' = waiting - 1
<1> DEFINE Same == Inside' = Inside /\ waiting' = waiting
           Goal == \/ Same
                   \/ \E w \in Workers \ Inside :
                        Inside' = Inside \cup {w} /\ waiting' = waiting + 1
                   \/ \E w \in Inside : Inside' = Inside \ {w} /\ waiting' = waiting - 1
<1>a. wpc \in [Workers -> WorkerStates] /\ waiting \in Int
  BY DEF IInv, TypeOK
<1>b. ASSUME NEW w \in Workers, wpc[w] \notin {"wait", "asleep"}, waiting' = waiting,
             NEW x, x \notin {"wait", "asleep"}, wpc' = [wpc EXCEPT ![w] = x]
      PROVE  Same
  BY <1>a, <1>b DEF Inside
<1>c. UNCHANGED <<wpc, waiting>> => Same
  BY DEF Inside
<1> HIDE DEF Same
<1>1. ASSUME StartWorker PROVE Same
  <2>1. started \in Workers /\ wpc[started] = "unborn"
    BY <1>1, PoolAssumption DEF StartWorker, IInv, TypeOK, LifeInv, Workers
  <2>2. waiting' = waiting /\ wpc' = [wpc EXCEPT ![started] = "top"]
    BY <1>1 DEF StartWorker, syncVars
  <2>3. "top" \notin {"wait", "asleep"} /\ wpc[started] \notin {"wait", "asleep"}
    BY <2>1
  <2> QED BY <2>1, <2>2, <2>3, <1>b, Zenon
<1>2. ASSUME Owner, ~StartWorker PROVE Same
  <2>1. UNCHANGED <<wpc, waiting>>
    BY <1>2 DEF Owner, CreateReturns, CreateFails, FailJoin, FailReturns,
       DestroyBegin, DestroyBroadcast, DestroyJoin, DestroyReturns, syncVars, workerVars
  <2> QED BY <2>1, <1>c
<1>3. ASSUME NEW w \in Workers,
             WorkerTop(w) \/ WorkerFinish(w) \/ WorkerRetire(w)
      PROVE  Same
  <2>1. CASE WorkerTop(w)
    <3>1. \E x \in {"exited", "pop"} : wpc' = [wpc EXCEPT ![w] = x]
      BY <2>1 DEF WorkerTop
    <3> QED BY <3>1, <2>1, <1>b DEF WorkerTop, syncVars
  <2>2. CASE WorkerFinish(w)
    BY <2>2, <1>b DEF WorkerFinish, syncVars
  <2>3. CASE WorkerRetire(w)
    BY <2>3, <1>b DEF WorkerRetire
  <2> QED BY <1>3, <2>1, <2>2, <2>3
<1>4. ASSUME NEW w \in Workers, WorkerPop(w) \/ WorkerSteal(w) PROVE Same
  <2>1. /\ waiting' = waiting /\ wpc[w] \in {"pop", "steal"}
        /\ \/ UNCHANGED wpc
           \/ \E x \in {"run", "steal", "test"} : wpc' = [wpc EXCEPT ![w] = x]
    BY <1>4, Zenon DEF WorkerPop, WorkerSteal, Take, syncVars
  <2> QED BY <2>1, <1>b, <1>c
<1>5. ASSUME NEW w \in Workers, WorkerPush(w) \/ WorkerCount(w) PROVE Same
  <2>1. /\ waiting' = waiting /\ wpc[w] \in {"run", "count"}
        /\ \E x \in {"run", "count"} : wpc' = [wpc EXCEPT ![w] = x]
    BY <1>5 DEF WorkerPush, WorkerCount, Count, syncVars
  <2> QED BY <2>1, <1>b
<1>6. ASSUME NEW w \in Workers, WorkerWait(w) PROVE Same
  BY <1>a, <1>6 DEF WorkerWait, Same, Inside
<1>7. ASSUME NEW w \in Workers, SpuriousWake(w) PROVE Same
  BY <1>7, <1>c DEF SpuriousWake, workerVars
<1>8. ASSUME NEW w \in Workers, WorkerTest(w) PROVE Goal
  <2>1. w \in Workers \ Inside
    BY <1>8 DEF WorkerTest, Inside
  <2>2. CASE NothingToDo
    <3>1. waiting' = waiting + 1 /\ wpc' = [wpc EXCEPT ![w] = "wait"]
      BY <1>8, <2>2 DEF WorkerTest, TestPredicate
    <3>2. Inside' = Inside \cup {w}
      BY <3>1, <1>a DEF Inside
    <3> QED BY <3>1, <3>2, <2>1
  <2>3. CASE ~NothingToDo
    <3>1. waiting' = (waiting + 1) - 1 /\ wpc' = [wpc EXCEPT ![w] = "top"]
      BY <1>8, <2>3, Zenon DEF WorkerTest, TestPredicate
    <3>2. waiting' = waiting
      BY <3>1, <1>a
    <3> QED BY <3>1, <3>2, <2>1, <1>b DEF Inside
  <2> QED BY <2>2, <2>3
<1>9. ASSUME NEW w \in Workers, WorkerWake(w) PROVE Goal
  <2>1. w \in Inside
    BY <1>9 DEF WorkerWake, Inside
  <2>2. CASE NothingToDo
    <3>1. waiting' = waiting /\ wpc' = [wpc EXCEPT ![w] = "wait"]
      BY <1>9, <2>2 DEF WorkerWake, TestPredicate
    <3> QED BY <3>1, <2>1, <1>a DEF Inside, Same
  <2>3. CASE ~NothingToDo
    <3>1. waiting' = waiting - 1 /\ wpc' = [wpc EXCEPT ![w] = "top"]
      BY <1>9, <2>3 DEF WorkerWake, TestPredicate
    <3>2. Inside' = Inside \ {w}
      BY <3>1, <1>a DEF Inside
    <3> QED BY <3>1, <3>2, <2>1
  <2> QED BY <2>2, <2>3
<1>10. ASSUME NEW c \in Clients, Client(c) PROVE Same
  BY <1>10, <1>c DEF Client, ClientPush, ClientCount, Count, WaitBegin, WaitScan,
     WaitCheck, syncVars, workerVars
<1>11. ASSUME UNCHANGED vars PROVE Same
  <2>1. UNCHANGED <<wpc, waiting>>
    BY <1>11 DEF vars, syncVars, workerVars
  <2> QED BY <2>1, <1>c
<1>12. Same => Goal
  OBVIOUS
<1> HIDE DEF Goal
<1>13. Goal
  BY <1>1, <1>2, <1>3, <1>4, <1>5, <1>6, <1>7, <1>8, <1>9, <1>10, <1>11, <1>12
     DEF Next, Worker
<1> QED BY <1>13 DEF Goal, Same

\* waiting_count is the number of workers inside the cond_wait loop.
THEOREM WaitersCountedAlways == Spec => []WaitersCounted
<1>1. Init => WaitersCounted
  <2> SUFFICES ASSUME Init PROVE WaitersCounted
    OBVIOUS
  <2>1. {w \in Workers : wpc[w] \in {"wait", "asleep"}} = {}
    BY DEF Init
  <2> QED BY <2>1, FS_EmptySet DEF Init, WaitersCounted
<1>2. IInv /\ WaitersCounted /\ [Next]_vars => WaitersCounted'
  <2> SUFFICES ASSUME IInv, WaitersCounted, [Next]_vars PROVE WaitersCounted'
    OBVIOUS
  <2>1. waiting = Cardinality(Inside)
    BY DEF WaitersCounted, Inside
  <2>2. IsFiniteSet(Inside)
    <3>1. IsFiniteSet(Workers)
      BY FS_Interval, PoolAssumption DEF Workers
    <3> QED BY <3>1, FS_Subset DEF Inside
  <2>3. Cardinality(Inside) \in Nat
    BY <2>2, FS_CardinalityType
  <2>4. waiting' = Cardinality(Inside')
    <3>1. ASSUME NEW w \in Workers \ Inside, Inside' = Inside \cup {w}, waiting' = waiting + 1
          PROVE  waiting' = Cardinality(Inside')
      <4>1. Cardinality(Inside \cup {w}) = Cardinality(Inside) + 1
        BY <2>2, FS_AddElement, Zenon
      <4> QED BY <3>1, <4>1, <2>1
    <3>2. ASSUME NEW w \in Inside, Inside' = Inside \ {w}, waiting' = waiting - 1
          PROVE  waiting' = Cardinality(Inside')
      <4>1. Cardinality(Inside \ {w}) = Cardinality(Inside) - 1
        BY <2>2, FS_RemoveElement, Zenon
      <4> QED BY <3>2, <4>1, <2>1
    <3> QED BY <3>1, <3>2, <2>1, InsideStep
  <2> QED BY <2>4 DEF WaitersCounted, Inside
<1> QED BY <1>1, <1>2, PoolInvariant, PTL DEF Spec
=============================================================================
