------------------------- MODULE ThreadPoolControl -------------------------
(* Types, control states and the owner's loops, for every number of        *)
(* workers, tasks and clients.                                              *)
EXTENDS ThreadPoolDeques

\* Both outcomes of the cond_wait predicate keep the types.
LEMMA TestType ==
  ASSUME TypeOK, NEW w \in Workers, NEW n \in Int, TestPredicate(w, n)
  PROVE  TypeOK'
<1>1. lock' \in Workers \cup {Free} /\ waiting' \in Int
  BY DEF TypeOK, TestPredicate
<1>2. wpc' \in [Workers -> WorkerStates]
  <2>1. \E s \in {"wait", "top"} : wpc' = [wpc EXCEPT ![w] = s]
    BY Zenon DEF TestPredicate
  <2> QED
    BY <2>1 DEF TypeOK, WorkerStates
<1>3. UNCHANGED <<poolVars, queues, active, sleepers, probe, task, todo,
                  clientVars, mine, historyVars>>
  BY DEF TestPredicate
<1> QED
  BY <1>1, <1>2, <1>3 DEF TypeOK, poolVars, clientVars, historyVars

\* Type correctness is preserved, given what the control states imply.
LEMMA TypeStep == IInv /\ [Next]_vars => TypeOK'
<1> SUFFICES ASSUME IInv, [Next]_vars PROVE TypeOK'
  OBVIOUS
<1>a. TypeOK /\ ControlInv
  BY DEF IInv
<1> USE DEF poolVars, syncVars, workerVars, clientVars, historyVars
<1>1. CASE StartWorker
  <2>1. started \in Workers
    BY <1>a, <1>1, PoolAssumption DEF TypeOK, StartWorker, Workers
  <2>2. started' \in 0 .. NumThreads
    BY <1>a, <1>1, PoolAssumption DEF TypeOK, StartWorker
  <2>3. wpc' \in [Workers -> WorkerStates]
    BY <1>a, <1>1, <2>1 DEF TypeOK, StartWorker, WorkerStates
  <2> QED
    BY <1>a, <1>1, <2>2, <2>3 DEF TypeOK, StartWorker
<1>2. CASE CreateReturns
  BY <1>a, <1>2 DEF TypeOK, CreateReturns
<1>3. CASE CreateFails
  BY <1>a, <1>3 DEF TypeOK, CreateFails
<1>4. CASE FailJoin
  <2>1. joined \in Workers /\ joined' \in 0 .. NumThreads
    BY <1>a, <1>4, PoolAssumption DEF TypeOK, FailJoin, deque_destroy, Workers
  <2>2. queues' \in [Workers -> Seq(Tasks)] /\ dropped' \in SUBSET Tasks
    BY <1>a, <1>4, <2>1 DEF TypeOK, FailJoin, deque_destroy
  <2>3. UNCHANGED <<life, started, shutdown, syncVars, workerVars, clientVars,
                    mine, pushed, counted, finished, retired>>
    BY <1>4 DEF FailJoin
  <2> QED
    BY <1>a, <2>1, <2>2, <2>3, SMTT(20) DEF TypeOK
<1>5. CASE FailReturns
  BY <1>a, <1>5 DEF TypeOK, FailReturns
<1>6. CASE DestroyBegin
  BY <1>a, <1>6 DEF TypeOK, DestroyBegin
<1>7. CASE DestroyBroadcast
  BY <1>a, <1>7 DEF TypeOK, DestroyBroadcast
<1>8. CASE DestroyJoin
  <2>1. joined \in Workers /\ joined' \in 0 .. NumThreads
    BY <1>a, <1>8, PoolAssumption DEF TypeOK, DestroyJoin, deque_destroy, Workers
  <2>2. queues' \in [Workers -> Seq(Tasks)] /\ dropped' \in SUBSET Tasks
    BY <1>a, <1>8, <2>1 DEF TypeOK, DestroyJoin, deque_destroy
  <2>3. UNCHANGED <<life, started, shutdown, syncVars, workerVars, clientVars,
                    mine, pushed, counted, finished, retired>>
    BY <1>8 DEF DestroyJoin
  <2> QED
    BY <1>a, <2>1, <2>2, <2>3 DEF TypeOK
<1>9. CASE DestroyReturns
  BY <1>a, <1>9 DEF TypeOK, DestroyReturns
<1>10. ASSUME NEW w \in Workers, WorkerTop(w) PROVE TypeOK'
  BY <1>a, <1>10 DEF TypeOK, WorkerTop, WorkerStates
<1>11. ASSUME NEW w \in Workers, WorkerPop(w) PROVE TypeOK'
  <2>1. CASE queues[w] # <<>>
    <3>1. /\ SubSeq(queues[w], 1, Len(queues[w]) - 1) \in Seq(Tasks)
          /\ queues[w][Len(queues[w])] \in Tasks
      BY <1>a, <1>11, <2>1, PopFacts DEF TypeOK
    <3>2. /\ queues' = [queues EXCEPT ![w] = SubSeq(queues[w], 1, Len(queues[w]) - 1)]
          /\ Take(w, queues[w][Len(queues[w])]) /\ UNCHANGED probe
          /\ UNCHANGED <<poolVars, syncVars, clientVars, mine, historyVars>>
      BY <1>11, <2>1 DEF WorkerPop, deque_pop
    <3>3. queues' \in [Workers -> Seq(Tasks)]
      BY <1>a, <3>1, <3>2 DEF TypeOK
    <3>4. /\ task' \in [Workers -> Tasks \cup {NoTask}]
          /\ todo' \in [Workers -> SUBSET Tasks]
          /\ wpc' \in [Workers -> WorkerStates]
      BY <1>a, <3>1, <3>2, PoolAssumption DEF TypeOK, Take, WorkerStates
    <3> QED
      BY <1>a, <3>2, <3>3, <3>4 DEF TypeOK
  <2>2. CASE queues[w] = <<>>
    <3>0. /\ wpc' = [wpc EXCEPT ![w] = IF NumThreads > 1 THEN "steal" ELSE "test"]
          /\ probe' = [probe EXCEPT ![w] = 1]
          /\ UNCHANGED <<queues, task, todo>>
          /\ UNCHANGED <<poolVars, syncVars, clientVars, mine, historyVars>>
      BY <1>11, <2>2 DEF WorkerPop
    <3>1. probe' \in [Workers -> 1 .. NumThreads]
      BY <1>a, <3>0, PoolAssumption DEF TypeOK
    <3>2. wpc' \in [Workers -> WorkerStates]
      BY <1>a, <3>0 DEF TypeOK, WorkerStates
    <3> QED
      BY <1>a, <3>0, <3>1, <3>2 DEF TypeOK
  <2> QED
    BY <2>1, <2>2
<1>12. ASSUME NEW w \in Workers, WorkerSteal(w) PROVE TypeOK'
  <2> DEFINE v == (w + probe[w]) % NumThreads
  <2>1. v \in Workers
    BY <1>a, VictimIsWorker DEF TypeOK
  <2> HIDE DEF v
  <2>2. CASE queues[v] # <<>>
    <3>1. Tail(queues[v]) \in Seq(Tasks) /\ Head(queues[v]) \in Tasks
      BY <1>a, <2>1, <2>2, StealFacts DEF TypeOK
    <3>2. /\ queues' = [queues EXCEPT ![v] = Tail(@)]
          /\ Take(w, Head(queues[v])) /\ UNCHANGED probe
          /\ UNCHANGED <<poolVars, syncVars, clientVars, mine, historyVars>>
      BY <1>12, <2>2 DEF WorkerSteal, deque_steal, v
    <3>3. queues' \in [Workers -> Seq(Tasks)]
      BY <1>a, <2>1, <3>1, <3>2 DEF TypeOK
    <3>4. /\ task' \in [Workers -> Tasks \cup {NoTask}]
          /\ todo' \in [Workers -> SUBSET Tasks]
          /\ wpc' \in [Workers -> WorkerStates]
      BY <1>a, <3>1, <3>2, PoolAssumption DEF TypeOK, Take, WorkerStates
    <3> QED
      BY <1>a, <3>2, <3>3, <3>4, SMTT(20) DEF TypeOK
  <2>3. CASE queues[v] = <<>>
    <3>1. /\ \/ probe' = [probe EXCEPT ![w] = @ + 1] /\ probe[w] + 1 < NumThreads
                /\ UNCHANGED wpc
             \/ wpc' = [wpc EXCEPT ![w] = "test"] /\ UNCHANGED probe
          /\ UNCHANGED <<queues, task, todo>>
          /\ UNCHANGED <<poolVars, syncVars, clientVars, mine, historyVars>>
      BY <1>12, <2>3, Zenon DEF WorkerSteal, v
    <3>4. probe[w] + 1 < NumThreads => probe[w] + 1 \in 1 .. NumThreads
      BY <1>a, PoolAssumption DEF TypeOK
    <3>5. probe' = [probe EXCEPT ![w] = probe[w] + 1] /\ probe[w] + 1 < NumThreads
            => probe' \in [Workers -> 1 .. NumThreads]
      BY <1>a, <3>4 DEF TypeOK
    <3>2. probe' \in [Workers -> 1 .. NumThreads]
      BY <1>a, <3>1, <3>5, Zenon DEF TypeOK
    <3>3. wpc' \in [Workers -> WorkerStates]
      BY <1>a, <3>1, Zenon DEF TypeOK, WorkerStates
    <3> QED
      BY <1>a, <3>1, <3>2, <3>3 DEF TypeOK
  <2> QED
    BY <2>2, <2>3
<1>13. ASSUME NEW w \in Workers, WorkerPush(w) PROVE TypeOK'
  <2>1. PICK t \in todo[w] : /\ Push(w, w, t)
                             /\ todo' = [todo EXCEPT ![w] = @ \ {t}]
    BY <1>13, Zenon DEF WorkerPush
  <2>2. t \in Tasks
    BY <1>a, <2>1 DEF TypeOK
  <2>3. /\ queues' \in [Workers -> Seq(Tasks)] /\ pushed' \in SUBSET Tasks
        /\ mine' \in [Workers \cup Clients -> Tasks \cup {NoTask}]
    BY <1>a, <2>1, <2>2 DEF TypeOK, Push, deque_push
  <2>4. todo' \in [Workers -> SUBSET Tasks] /\ wpc' \in [Workers -> WorkerStates]
    BY <1>a, <1>13, <2>1 DEF TypeOK, WorkerPush, WorkerStates
  <2> QED
    BY <1>a, <1>13, <2>3, <2>4 DEF TypeOK, WorkerPush
<1>14. ASSUME NEW w \in Workers, WorkerCount(w) PROVE TypeOK'
  <2>1. mine[w] \in Tasks
    BY <1>a, <1>14 DEF TypeOK, ControlInv, WorkerCount
  <2>2. /\ sleepers' \in SUBSET Workers /\ active' \in Int
    BY <1>a, <1>14 DEF TypeOK, WorkerCount, Count, Signal
  <2>3. /\ counted' \in SUBSET Tasks
        /\ mine' \in [Workers \cup Clients -> Tasks \cup {NoTask}]
    BY <1>a, <1>14, <2>1 DEF TypeOK, WorkerCount, Count
  <2> QED
    BY <1>a, <1>14, <2>2, <2>3, Zenon DEF TypeOK, WorkerCount, WorkerStates
<1>15. ASSUME NEW w \in Workers, WorkerFinish(w) PROVE TypeOK'
  BY <1>a, <1>15 DEF TypeOK, WorkerFinish, ControlInv, WorkerStates
<1>16. ASSUME NEW w \in Workers, WorkerRetire(w) PROVE TypeOK'
  BY <1>a, <1>16 DEF TypeOK, WorkerRetire, ControlInv, WorkerStates
<1>17. ASSUME NEW w \in Workers, WorkerTest(w) PROVE TypeOK'
  <2>1. waiting + 1 \in Int /\ TestPredicate(w, waiting + 1)
    BY <1>a, <1>17 DEF TypeOK, WorkerTest
  <2> QED
    BY <1>a, <2>1, TestType
<1>18. ASSUME NEW w \in Workers, WorkerWait(w) PROVE TypeOK'
  BY <1>a, <1>18 DEF TypeOK, WorkerWait, WorkerStates
<1>19. ASSUME NEW w \in Workers, WorkerWake(w) PROVE TypeOK'
  <2>1. waiting \in Int /\ TestPredicate(w, waiting)
    BY <1>a, <1>19 DEF TypeOK, WorkerWake
  <2> QED
    BY <1>a, <2>1, TestType
<1>20. ASSUME NEW w \in Workers, SpuriousWake(w) PROVE TypeOK'
  BY <1>a, <1>20 DEF TypeOK, SpuriousWake
<1>21. ASSUME NEW c \in Clients, ClientPush(c) PROVE TypeOK'
  <2>1. PICK t \in RootTasks, d \in Workers : Push(c, d, t)
    BY <1>21 DEF ClientPush
  <2>2. t \in Tasks
    BY <2>1 DEF RootTasks
  <2>3. /\ queues' \in [Workers -> Seq(Tasks)] /\ pushed' \in SUBSET Tasks
        /\ mine' \in [Workers \cup Clients -> Tasks \cup {NoTask}]
    BY <1>a, <2>1, <2>2 DEF TypeOK, Push, deque_push
  <2> QED
    BY <1>a, <1>21, <2>3, Zenon DEF TypeOK, ClientPush
<1>22. ASSUME NEW c \in Clients, ClientCount(c) PROVE TypeOK'
  <2>1. mine[c] \in Tasks
    BY <1>a, <1>22 DEF TypeOK, ControlInv, ClientCount
  <2>2. /\ sleepers' \in SUBSET Workers /\ active' \in Int
    BY <1>a, <1>22 DEF TypeOK, ClientCount, Count, Signal
  <2>3. /\ counted' \in SUBSET Tasks
        /\ mine' \in [Workers \cup Clients -> Tasks \cup {NoTask}]
    BY <1>a, <1>22, <2>1 DEF TypeOK, ClientCount, Count
  <2> QED
    BY <1>a, <1>22, <2>2, <2>3, Zenon DEF TypeOK, ClientCount
<1>23. ASSUME NEW c \in Clients, WaitBegin(c) PROVE TypeOK'
  <2>1. /\ cpc' \in [Clients -> {"idle", "count", "scan"}]
        /\ target' \in [Clients -> SUBSET Tasks]
    BY <1>a, <1>23 DEF TypeOK, WaitBegin
  <2>2. scan' \in [Clients -> 0 .. NumThreads]
    BY <1>a, <1>23, PoolAssumption DEF TypeOK, WaitBegin
  <2> QED
    BY <1>a, <1>23, <2>1, <2>2 DEF TypeOK, WaitBegin
<1>24. ASSUME NEW c \in Clients, WaitScan(c) PROVE TypeOK'
  <2>1. scan[c] \in 0 .. NumThreads /\ scan[c] < NumThreads
    BY <1>a, <1>24 DEF TypeOK, WaitScan
  <2>2. scan[c] + 1 \in 0 .. NumThreads /\ 0 \in 0 .. NumThreads
    BY <2>1, PoolAssumption
  <2>3. \E n \in 0 .. NumThreads : scan' = [scan EXCEPT ![c] = n]
    BY <1>24, <2>2, Zenon DEF WaitScan
  <2>4. scan' \in [Clients -> 0 .. NumThreads]
    BY <1>a, <2>3 DEF TypeOK
  <2> QED
    BY <1>a, <1>24, <2>4 DEF TypeOK, WaitScan
<1>25. ASSUME NEW c \in Clients, WaitCheck(c) PROVE TypeOK'
  <2>1. scan' \in [Clients -> 0 .. NumThreads]
    BY <1>a, <1>25, PoolAssumption DEF TypeOK, WaitCheck
  <2>2. cpc' \in [Clients -> {"idle", "count", "scan"}]
    BY <1>a, <1>25 DEF TypeOK, WaitCheck
  <2> QED
    BY <1>a, <1>25, <2>1, <2>2 DEF TypeOK, WaitCheck
<1>26. CASE UNCHANGED vars
  BY <1>a, <1>26 DEF TypeOK, vars
<1> QED
  BY <1>1, <1>2, <1>3, <1>4, <1>5, <1>6, <1>7, <1>8, <1>9, <1>10, <1>11, <1>12,
     <1>13, <1>14, <1>15, <1>16, <1>17, <1>18, <1>19, <1>20, <1>21, <1>22,
     <1>23, <1>24, <1>25, <1>26
     DEF Next, Owner, Worker, Client

\* The control states keep telling what a thread has in hand.
LEMMA ControlStep == IInv /\ [Next]_vars => ControlInv'
<1> SUFFICES ASSUME IInv, [Next]_vars PROVE ControlInv'
  OBVIOUS
<1> DEFINE Moved(w) == WorkerPop(w) \/ WorkerSteal(w)
<1>0. ASSUME NEW w \in Workers, Moved(w)
      PROVE  /\ wpc[w] \in {"pop", "steal"}
             /\ UNCHANGED <<poolVars, syncVars, clientVars, mine, historyVars>>
             /\ Missed(w) \/ \E v \in Workers : \E k \in Slots(v) : Took(w, v, k)
  BY <1>0, PopOrSteal DEF IInv
<1> HIDE DEF Moved
<1>a. TypeOK /\ ControlInv /\ LifeInv
  BY DEF IInv
<1> DEFINE Idle == WorkerStates \ {"run", "count", "retire"}
<1>same. UNCHANGED <<wpc, task, todo, mine, cpc, finished>> => ControlInv'
  BY <1>a DEF ControlInv
<1>pc. ASSUME NEW w \in Workers, wpc[w] \in Idle, NEW s \in Idle,
              wpc' = [wpc EXCEPT ![w] = s],
              UNCHANGED <<task, todo, mine, cpc, finished>>
       PROVE  ControlInv'
  BY <1>a, <1>pc DEF ControlInv, TypeOK
<1>1. CASE StartWorker
  <2>1. started \in Workers /\ wpc[started] = "unborn"
    BY <1>a, <1>1, PoolAssumption DEF StartWorker, LifeInv, TypeOK, Workers
  <2>2. /\ wpc' = [wpc EXCEPT ![started] = "top"]
        /\ UNCHANGED <<task, todo, mine, cpc, finished>>
    BY <1>1 DEF StartWorker, clientVars, historyVars
  <2> QED
    BY <1>pc, <2>1, <2>2, Zenon DEF WorkerStates
<1>2. CASE CreateReturns
  BY <1>same, <1>2 DEF CreateReturns, workerVars, clientVars, historyVars
<1>3. CASE CreateFails
  BY <1>same, <1>3 DEF CreateFails, workerVars, clientVars, historyVars
<1>4. CASE FailJoin
  BY <1>same, <1>4 DEF FailJoin, workerVars, clientVars
<1>5. CASE FailReturns
  BY <1>same, <1>5 DEF FailReturns, workerVars, clientVars, historyVars
<1>6. CASE DestroyBegin
  BY <1>same, <1>6 DEF DestroyBegin, workerVars, clientVars, historyVars
<1>7. CASE DestroyBroadcast
  BY <1>same, <1>7 DEF DestroyBroadcast, workerVars, clientVars, historyVars
<1>8. CASE DestroyJoin
  BY <1>same, <1>8 DEF DestroyJoin, workerVars, clientVars
<1>9. CASE DestroyReturns
  BY <1>same, <1>9 DEF DestroyReturns, workerVars, clientVars, historyVars
<1>10. ASSUME NEW w \in Workers, WorkerTop(w) PROVE ControlInv'
  <2>1. /\ wpc[w] \in Idle /\ \E s \in Idle : wpc' = [wpc EXCEPT ![w] = s]
    BY <1>10, Zenon DEF WorkerTop, WorkerStates
  <2>2. UNCHANGED <<task, todo, mine, cpc, finished>>
    BY <1>10 DEF WorkerTop, clientVars, historyVars
  <2> QED
    BY <1>pc, <2>1, <2>2, Zenon
<1>11. ASSUME NEW w \in Workers, Moved(w) PROVE ControlInv'
  <2>0. wpc[w] \in {"pop", "steal"} /\ UNCHANGED <<mine, finished, cpc>>
    BY <1>0, <1>11 DEF clientVars, historyVars
  <2>1. CASE Missed(w)
    <3>1. PICK s \in {"steal", "test"} : wpc' = [wpc EXCEPT ![w] = s]
      BY <2>1, Zenon DEF Missed
    <3>2. UNCHANGED <<task, todo>>
      BY <2>1 DEF Missed
    <3> QED
      BY <1>pc, <2>0, <3>1, <3>2, Zenon DEF WorkerStates
  <2>2. ASSUME NEW v \in Workers, NEW k \in Slots(v), Took(w, v, k) PROVE ControlInv'
    <3>2. queues[v][k] \in Tasks
      BY <1>a, SlotTask
    <3>3. Take(w, queues[v][k])
      BY <2>2 DEF Took
    <3>4. queues[v][k] # NoTask
      BY <3>2, PoolAssumption
    <3>5. /\ task' = [task EXCEPT ![w] = queues[v][k]]
          /\ todo' = [todo EXCEPT ![w] = Spawns[queues[v][k]]]
          /\ wpc' = [wpc EXCEPT ![w] = "run"]
      BY <3>3 DEF Take
    <3>6. mine[w] = NoTask
      BY <1>a, <2>0 DEF ControlInv
    <3> QED
      BY <1>a, <2>0, <3>4, <3>5, <3>6 DEF ControlInv, TypeOK
  <2> QED
    BY <1>0, <1>11, <2>1, <2>2
<1>12. ASSUME NEW w \in Workers, WorkerPush(w) PROVE ControlInv'
  <2>1. PICK t \in todo[w] : /\ Push(w, w, t)
                             /\ todo' = [todo EXCEPT ![w] = @ \ {t}]
    BY <1>12, Zenon DEF WorkerPush
  <2>2. t \in Tasks /\ t # NoTask
    BY <1>a, <2>1, PoolAssumption DEF TypeOK
  <2>3. mine' = [mine EXCEPT ![w] = t]
    BY <2>1 DEF Push
  <2>4. /\ wpc[w] = "run" /\ wpc' = [wpc EXCEPT ![w] = "count"]
        /\ UNCHANGED <<task, cpc, finished>>
    BY <1>12 DEF WorkerPush, clientVars
  <2>5. \A c \in Clients : mine'[c] = mine[c]
    BY <1>a, <2>3, PoolAssumption DEF TypeOK
  <2> QED
    BY <1>a, <2>1, <2>2, <2>3, <2>4, <2>5 DEF ControlInv, TypeOK
<1>13. ASSUME NEW w \in Workers, WorkerCount(w) PROVE ControlInv'
  <2>1. /\ wpc[w] = "count" /\ wpc' = [wpc EXCEPT ![w] = "run"]
        /\ mine' = [mine EXCEPT ![w] = NoTask]
        /\ UNCHANGED <<task, todo, cpc, finished>>
    BY <1>13 DEF WorkerCount, Count, clientVars
  <2>2. \A c \in Clients : mine'[c] = mine[c]
    BY <1>a, <2>1, PoolAssumption DEF TypeOK
  <2> QED
    BY <1>a, <2>1, <2>2 DEF ControlInv, TypeOK
<1>14. ASSUME NEW w \in Workers, WorkerFinish(w) PROVE ControlInv'
  BY <1>a, <1>14 DEF WorkerFinish, ControlInv, TypeOK, clientVars
<1>15. ASSUME NEW w \in Workers, WorkerRetire(w) PROVE ControlInv'
  BY <1>a, <1>15 DEF WorkerRetire, ControlInv, TypeOK, clientVars
<1>16. ASSUME NEW w \in Workers, WorkerTest(w) PROVE ControlInv'
  <2>1. /\ wpc[w] \in Idle /\ \E s \in Idle : wpc' = [wpc EXCEPT ![w] = s]
    BY <1>16 DEF WorkerTest, WorkerStates, TestPredicate
  <2>2. UNCHANGED <<task, todo, mine, cpc, finished>>
    BY <1>16 DEF WorkerTest, clientVars, historyVars, TestPredicate
  <2> QED
    BY <1>pc, <2>1, <2>2, Zenon
<1>17. ASSUME NEW w \in Workers, WorkerWait(w) PROVE ControlInv'
  <2>1. /\ wpc[w] \in Idle /\ \E s \in Idle : wpc' = [wpc EXCEPT ![w] = s]
    BY <1>17, Zenon DEF WorkerWait, WorkerStates
  <2>2. UNCHANGED <<task, todo, mine, cpc, finished>>
    BY <1>17 DEF WorkerWait, clientVars, historyVars
  <2> QED
    BY <1>pc, <2>1, <2>2, Zenon
<1>18. ASSUME NEW w \in Workers, WorkerWake(w) PROVE ControlInv'
  <2>1. /\ wpc[w] \in Idle /\ \E s \in Idle : wpc' = [wpc EXCEPT ![w] = s]
    BY <1>18 DEF WorkerWake, WorkerStates, TestPredicate
  <2>2. UNCHANGED <<task, todo, mine, cpc, finished>>
    BY <1>18 DEF WorkerWake, clientVars, historyVars, TestPredicate
  <2> QED
    BY <1>pc, <2>1, <2>2, Zenon
<1>19. ASSUME NEW w \in Workers, SpuriousWake(w) PROVE ControlInv'
  BY <1>same, <1>19 DEF SpuriousWake, workerVars, clientVars, historyVars
<1>20. ASSUME NEW c \in Clients, ClientPush(c) PROVE ControlInv'
  <2>1. PICK t \in RootTasks, d \in Workers : Push(c, d, t)
    BY <1>20 DEF ClientPush
  <2>2. t # NoTask /\ mine' = [mine EXCEPT ![c] = t]
    BY <2>1, PoolAssumption DEF RootTasks, Push
  <2>3. /\ cpc[c] = "idle" /\ cpc' = [cpc EXCEPT ![c] = "count"]
        /\ UNCHANGED <<wpc, task, todo, finished>>
    BY <1>20 DEF ClientPush, workerVars
  <2>4. \A w \in Workers : mine'[w] = mine[w]
    BY <1>a, <2>2, PoolAssumption DEF TypeOK
  <2> QED
    BY <1>a, <2>2, <2>3, <2>4 DEF ControlInv, TypeOK
<1>21. ASSUME NEW c \in Clients, ClientCount(c) PROVE ControlInv'
  <2>1. /\ cpc[c] = "count" /\ cpc' = [cpc EXCEPT ![c] = "idle"]
        /\ mine' = [mine EXCEPT ![c] = NoTask]
        /\ UNCHANGED <<wpc, task, todo, finished>>
    BY <1>21 DEF ClientCount, Count, workerVars
  <2>2. \A w \in Workers : mine'[w] = mine[w]
    BY <1>a, <2>1, PoolAssumption DEF TypeOK
  <2> QED
    BY <1>a, <2>1, <2>2 DEF ControlInv, TypeOK
<1>22. ASSUME NEW c \in Clients, WaitBegin(c) PROVE ControlInv'
  BY <1>a, <1>22 DEF WaitBegin, ControlInv, TypeOK, workerVars, historyVars
<1>23. ASSUME NEW c \in Clients, WaitScan(c) PROVE ControlInv'
  BY <1>same, <1>23, Zenon DEF WaitScan, workerVars, historyVars
<1>24. ASSUME NEW c \in Clients, WaitCheck(c) PROVE ControlInv'
  BY <1>a, <1>24 DEF WaitCheck, ControlInv, TypeOK, workerVars, historyVars
<1>25. CASE UNCHANGED vars
  BY <1>same, <1>25 DEF vars, workerVars, clientVars, historyVars
<1> QED
  BY <1>1, <1>2, <1>3, <1>4, <1>5, <1>6, <1>7, <1>8, <1>9, <1>10, <1>11,
     <1>12, <1>13, <1>14, <1>15, <1>16, <1>17, <1>18, <1>19, <1>20, <1>21,
     <1>22, <1>23, <1>24, <1>25
     DEF Next, Owner, Worker, Client, Moved

\* A worker below the join loop's index stays stopped and its deque empty.
LEMMA LifeStep == IInv /\ [Next]_vars => LifeInv'
<1> SUFFICES ASSUME IInv, [Next]_vars PROVE LifeInv'
  OBVIOUS
<1> DEFINE Moved(w) == WorkerPop(w) \/ WorkerSteal(w)
<1>0. ASSUME NEW w \in Workers, Moved(w)
      PROVE  /\ wpc[w] \in {"pop", "steal"}
             /\ UNCHANGED <<poolVars, syncVars, clientVars, mine, historyVars>>
             /\ Missed(w) \/ \E v \in Workers : \E k \in Slots(v) : Took(w, v, k)
  BY <1>0, PopOrSteal DEF IInv
<1> HIDE DEF Moved
<1>a. TypeOK /\ LifeInv
  BY DEF IInv
<1>same. UNCHANGED <<life, started, joined, queues, wpc>> => LifeInv'
  BY <1>a DEF LifeInv
<1>pc. ASSUME NEW w \in Workers, wpc[w] \notin {"unborn", "exited"},
              NEW s \in WorkerStates \ {"unborn"}, wpc' = [wpc EXCEPT ![w] = s],
              UNCHANGED <<life, started, joined, queues>>
       PROVE  LifeInv'
  BY <1>a, <1>pc DEF LifeInv, TypeOK
<1>1. CASE StartWorker
  BY <1>a, <1>1, PoolAssumption DEF StartWorker, LifeInv, TypeOK, Workers
<1>2. CASE CreateReturns
  BY <1>a, <1>2 DEF CreateReturns, workerVars, LifeInv
<1>3. CASE CreateFails
  BY <1>a, <1>3 DEF CreateFails, workerVars, LifeInv
<1>4. CASE FailJoin
  <2>1. /\ joined \in Workers /\ joined' = joined + 1 /\ wpc[joined] \in {"unborn", "exited"}
        /\ queues' = [queues EXCEPT ![joined] = <<>>] /\ UNCHANGED <<life, started, wpc>>
    BY <1>a, <1>4, PoolAssumption DEF FailJoin, deque_destroy, workerVars, LifeInv, TypeOK, Workers
  <2>2. life \in {"failing", "joining"}
    BY <1>4 DEF FailJoin
  <2>3. \A w \in Workers : w < joined' => w < joined \/ w = joined
    BY <1>a, <2>1 DEF Workers, TypeOK
  <2> QED
    BY <1>a, <2>1, <2>2, <2>3 DEF LifeInv, TypeOK
<1>5. CASE FailReturns
  BY <1>a, <1>5 DEF FailReturns, workerVars, LifeInv
<1>6. CASE DestroyBegin
  BY <1>a, <1>6 DEF DestroyBegin, workerVars, LifeInv
<1>7. CASE DestroyBroadcast
  BY <1>a, <1>7 DEF DestroyBroadcast, workerVars, LifeInv
<1>8. CASE DestroyJoin
  <2>1. /\ joined \in Workers /\ joined' = joined + 1 /\ wpc[joined] \in {"unborn", "exited"}
        /\ queues' = [queues EXCEPT ![joined] = <<>>] /\ UNCHANGED <<life, started, wpc>>
    BY <1>a, <1>8, PoolAssumption DEF DestroyJoin, deque_destroy, workerVars, LifeInv, TypeOK, Workers
  <2>2. life \in {"failing", "joining"}
    BY <1>8 DEF DestroyJoin
  <2>3. \A w \in Workers : w < joined' => w < joined \/ w = joined
    BY <1>a, <2>1 DEF Workers, TypeOK
  <2> QED
    BY <1>a, <2>1, <2>2, <2>3 DEF LifeInv, TypeOK
<1>9. CASE DestroyReturns
  BY <1>a, <1>9 DEF DestroyReturns, workerVars, LifeInv
<1>10. ASSUME NEW w \in Workers, WorkerTop(w) PROVE LifeInv'
  <2>1. /\ wpc[w] \notin {"unborn", "exited"} /\ \E s \in WorkerStates \ {"unborn"} : wpc' = [wpc EXCEPT ![w] = s]
        /\ UNCHANGED <<life, started, joined, queues>>
    BY <1>10, Zenon DEF WorkerTop, poolVars, TestPredicate, WorkerStates
  <2> QED
    BY <1>pc, <2>1, Zenon
<1>11. ASSUME NEW w \in Workers, Moved(w) PROVE LifeInv'
  <2>0. UNCHANGED <<life, started, joined>> /\ wpc[w] \in {"pop", "steal"}
    BY <1>0, <1>11 DEF poolVars
  <2>1. CASE Missed(w)
    <3>1. /\ \E s \in WorkerStates \ {"unborn"} : wpc' = [wpc EXCEPT ![w] = s]
          /\ UNCHANGED queues
      BY <2>1, Zenon DEF Missed, WorkerStates
    <3> QED
      BY <1>pc, <2>0, <3>1, Zenon
  <2>2. ASSUME NEW v \in Workers, NEW k \in Slots(v), Took(w, v, k) PROVE LifeInv'
    <3>1. wpc' = [wpc EXCEPT ![w] = "run"] /\ \A u \in Workers : u # v => queues'[u] = queues[u]
      BY <2>2 DEF Took, Take
    <3>2. queues[v] # <<>>
      BY DEF Slots
    <3>3. ~(v < joined) /\ ~(w < joined)
      BY <1>a, <2>0, <3>2 DEF LifeInv
    <3> QED
      BY <1>a, <2>0, <3>1, <3>3 DEF LifeInv, TypeOK
  <2> QED
    BY <1>0, <1>11, <2>1, <2>2
<1>12. ASSUME NEW w \in Workers, WorkerPush(w) PROVE LifeInv'
  <2>1. /\ wpc[w] = "run" /\ wpc' = [wpc EXCEPT ![w] = "count"]
        /\ UNCHANGED <<life, started, joined>>
        /\ \E t : queues' = [queues EXCEPT ![w] = Append(@, t)]
    BY <1>12, Zenon DEF WorkerPush, Push, deque_push, poolVars
  <2>2. ~(w < joined)
    BY <1>a, <2>1 DEF LifeInv
  <2> QED
    BY <1>a, <2>1, <2>2 DEF LifeInv, TypeOK
<1>13. ASSUME NEW w \in Workers, WorkerCount(w) PROVE LifeInv'
  <2>1. /\ wpc[w] \notin {"unborn", "exited"} /\ \E s \in WorkerStates \ {"unborn"} : wpc' = [wpc EXCEPT ![w] = s]
        /\ UNCHANGED <<life, started, joined, queues>>
    BY <1>13, Zenon DEF WorkerCount, poolVars, TestPredicate, WorkerStates
  <2> QED
    BY <1>pc, <2>1, Zenon
<1>14. ASSUME NEW w \in Workers, WorkerFinish(w) PROVE LifeInv'
  <2>1. /\ wpc[w] \notin {"unborn", "exited"} /\ \E s \in WorkerStates \ {"unborn"} : wpc' = [wpc EXCEPT ![w] = s]
        /\ UNCHANGED <<life, started, joined, queues>>
    BY <1>14, Zenon DEF WorkerFinish, poolVars, TestPredicate, WorkerStates
  <2> QED
    BY <1>pc, <2>1, Zenon
<1>15. ASSUME NEW w \in Workers, WorkerRetire(w) PROVE LifeInv'
  <2>1. /\ wpc[w] \notin {"unborn", "exited"} /\ \E s \in WorkerStates \ {"unborn"} : wpc' = [wpc EXCEPT ![w] = s]
        /\ UNCHANGED <<life, started, joined, queues>>
    BY <1>15, Zenon DEF WorkerRetire, poolVars, TestPredicate, WorkerStates
  <2> QED
    BY <1>pc, <2>1, Zenon
<1>16. ASSUME NEW w \in Workers, WorkerTest(w) PROVE LifeInv'
  <2>1. /\ wpc[w] \notin {"unborn", "exited"} /\ \E s \in WorkerStates \ {"unborn"} : wpc' = [wpc EXCEPT ![w] = s]
        /\ UNCHANGED <<life, started, joined, queues>>
    BY <1>16 DEF WorkerTest, poolVars, TestPredicate, WorkerStates
  <2> QED
    BY <1>pc, <2>1, Zenon
<1>17. ASSUME NEW w \in Workers, WorkerWait(w) PROVE LifeInv'
  <2>1. /\ wpc[w] \notin {"unborn", "exited"} /\ \E s \in WorkerStates \ {"unborn"} : wpc' = [wpc EXCEPT ![w] = s]
        /\ UNCHANGED <<life, started, joined, queues>>
    BY <1>17, Zenon DEF WorkerWait, poolVars, TestPredicate, WorkerStates
  <2> QED
    BY <1>pc, <2>1, Zenon
<1>18. ASSUME NEW w \in Workers, WorkerWake(w) PROVE LifeInv'
  <2>1. /\ wpc[w] \notin {"unborn", "exited"} /\ \E s \in WorkerStates \ {"unborn"} : wpc' = [wpc EXCEPT ![w] = s]
        /\ UNCHANGED <<life, started, joined, queues>>
    BY <1>18 DEF WorkerWake, poolVars, TestPredicate, WorkerStates
  <2> QED
    BY <1>pc, <2>1, Zenon
<1>19. ASSUME NEW w \in Workers, SpuriousWake(w) PROVE LifeInv'
  BY <1>same, <1>19 DEF SpuriousWake, poolVars, workerVars
<1>20. ASSUME NEW c \in Clients, ClientPush(c) PROVE LifeInv'
  <2>1. life = "up" /\ UNCHANGED <<life, started, joined, wpc>>
    BY <1>20 DEF ClientPush, poolVars, workerVars
  <2>2. joined = 0 /\ \A w \in Workers : ~(w < joined)
    BY <1>a, <2>1 DEF LifeInv, Workers
  <2> QED
    BY <1>a, <2>1, <2>2 DEF LifeInv
<1>21. ASSUME NEW c \in Clients, ClientCount(c) PROVE LifeInv'
  BY <1>same, <1>21 DEF ClientCount, poolVars, workerVars
<1>22. ASSUME NEW c \in Clients, WaitBegin(c) PROVE LifeInv'
  BY <1>same, <1>22 DEF WaitBegin, poolVars, workerVars
<1>23. ASSUME NEW c \in Clients, WaitScan(c) PROVE LifeInv'
  BY <1>same, <1>23 DEF WaitScan, poolVars, workerVars
<1>24. ASSUME NEW c \in Clients, WaitCheck(c) PROVE LifeInv'
  BY <1>same, <1>24 DEF WaitCheck, poolVars, workerVars
<1>25. CASE UNCHANGED vars
  BY <1>same, <1>25 DEF vars, poolVars, workerVars
<1> QED
  BY <1>1, <1>2, <1>3, <1>4, <1>5, <1>6, <1>7, <1>8, <1>9, <1>10, <1>11,
     <1>12, <1>13, <1>14, <1>15, <1>16, <1>17, <1>18, <1>19, <1>20, <1>21,
     <1>22, <1>23, <1>24, <1>25
     DEF Next, Owner, Worker, Client, Moved

=============================================================================
