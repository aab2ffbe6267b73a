-------------------------- MODULE ThreadPoolTasks --------------------------
(* Where every task is and who has counted it, for every number of         *)
(* workers, tasks and clients.                                             *)
EXTENDS ThreadPoolDeques

-----------------------------------------------------------------------------
(* Which steps matter to the tasks *)

\* What the invariants about tasks speak of: a step that changes none of it.
Quiet == UNCHANGED <<queues, active, task, todo, mine, target, historyVars>>

\* The actions that move a task, or that begin a wait.
OwnerMoves == FailJoin \/ DestroyJoin
WorkerMoves(w) == \/ WorkerPop(w) \/ WorkerSteal(w) \/ WorkerPush(w)
                  \/ WorkerCount(w) \/ WorkerFinish(w) \/ WorkerRetire(w)
ClientMoves(c) == ClientPush(c) \/ ClientCount(c) \/ WaitBegin(c)

\* Every other action leaves the tasks where they are: starting and ending the
\* workers, the cond_wait protocol, the loop of wait and the owner's returns.
LEMMA Effects ==
  [Next]_vars => \/ Quiet \/ OwnerMoves
                 \/ \E w \in Workers : WorkerMoves(w)
                 \/ \E c \in Clients : ClientMoves(c)
<1> SUFFICES ASSUME [Next]_vars, ~OwnerMoves,
                    \A w \in Workers : ~WorkerMoves(w),
                    \A c \in Clients : ~ClientMoves(c)
             PROVE  Quiet
  OBVIOUS
<1>1. CASE StartWorker
  BY <1>1 DEF Quiet, StartWorker, syncVars, workerVars, clientVars, historyVars
<1>2. CASE CreateReturns
  BY <1>2 DEF Quiet, CreateReturns, syncVars, workerVars, clientVars, historyVars
<1>3. CASE CreateFails
  BY <1>3 DEF Quiet, CreateFails, syncVars, workerVars, clientVars, historyVars
<1>4. CASE FailReturns
  BY <1>4 DEF Quiet, FailReturns, syncVars, workerVars, clientVars, historyVars
<1>5. CASE DestroyBegin
  BY <1>5 DEF Quiet, DestroyBegin, syncVars, workerVars, clientVars, historyVars
<1>6. CASE DestroyBroadcast
  BY <1>6 DEF Quiet, DestroyBroadcast, syncVars, workerVars, clientVars, historyVars
<1>7. CASE DestroyReturns
  BY <1>7 DEF Quiet, DestroyReturns, syncVars, workerVars, clientVars, historyVars
<1>8. ASSUME NEW w \in Workers, WorkerTop(w) PROVE Quiet
  BY <1>8 DEF Quiet, WorkerTop, syncVars, workerVars, clientVars, historyVars
<1>9. ASSUME NEW w \in Workers, WorkerTest(w) PROVE Quiet
  BY <1>9 DEF Quiet, WorkerTest, TestPredicate, syncVars, workerVars, clientVars, historyVars
<1>10. ASSUME NEW w \in Workers, WorkerWait(w) PROVE Quiet
  BY <1>10 DEF Quiet, WorkerWait, syncVars, workerVars, clientVars, historyVars
<1>11. ASSUME NEW w \in Workers, WorkerWake(w) PROVE Quiet
  BY <1>11 DEF Quiet, WorkerWake, TestPredicate, syncVars, workerVars, clientVars, historyVars
<1>12. ASSUME NEW w \in Workers, SpuriousWake(w) PROVE Quiet
  BY <1>12 DEF Quiet, SpuriousWake, syncVars, workerVars, clientVars, historyVars
<1>13. ASSUME NEW c \in Clients, WaitScan(c) PROVE Quiet
  BY <1>13 DEF Quiet, WaitScan, syncVars, workerVars, historyVars
<1>14. ASSUME NEW c \in Clients, WaitCheck(c) PROVE Quiet
  BY <1>14 DEF Quiet, WaitCheck, syncVars, workerVars, historyVars
<1>15. CASE UNCHANGED vars
  BY <1>15 DEF Quiet, vars, syncVars, workerVars, clientVars, historyVars
<1> QED
  BY <1>1, <1>2, <1>3, <1>4, <1>5, <1>6, <1>7, <1>8, <1>9, <1>10, <1>11, <1>12,
     <1>13, <1>14, <1>15
     DEF Next, Owner, Worker, Client, OwnerMoves, WorkerMoves, ClientMoves

-----------------------------------------------------------------------------
(* Where the tasks are *)

\* No step of any thread loses, copies or revives a task.
LEMMA PlaceStep == IInv /\ [Next]_vars /\ TypeOK' => ExactlyOnce'
<1> SUFFICES ASSUME IInv, [Next]_vars, TypeOK' PROVE ExactlyOnce'
  OBVIOUS
<1> DEFINE Moved(w) == WorkerPop(w) \/ WorkerSteal(w)
<1>0. ASSUME NEW w \in Workers, Moved(w)
      PROVE  /\ wpc[w] \in {"pop", "steal"}
             /\ UNCHANGED <<poolVars, syncVars, clientVars, mine, historyVars>>
             /\ Missed(w) \/ \E v \in Workers : \E k \in Slots(v) : Took(w, v, k)
  BY <1>0, PopOrSteal DEF IInv
<1> HIDE DEF Moved
<1>a. TypeOK /\ ControlInv /\ ExactlyOnce /\ SpawnInv
  BY DEF IInv
<1>t. task \in [Workers -> Tasks \cup {NoTask}]
  BY <1>a DEF TypeOK
<1>same. UNCHANGED <<queues, task, pushed, retired, dropped>> => ExactlyOnce'
  <2> SUFFICES ASSUME UNCHANGED <<queues, task, pushed, retired, dropped>>
               PROVE  ExactlyOnce'
    OBVIOUS
  <2>1. \A w \in Workers : Slots(w)' = Slots(w)
    BY DEF Slots
  <2>2. Queued' = Queued /\ Held' = Held
    BY <2>1 DEF Queued, Held
  <2>3. SlotsUnique' /\ HeldOnce'
    BY <1>a, <2>1 DEF ExactlyOnce, SlotsUnique, HeldOnce
  <2> QED
    BY <1>a, <2>2, <2>3 DEF ExactlyOnce
<1>1. CASE FailJoin
  <2> DEFINE D == {queues[joined][i] : i \in Slots(joined)}
  <2>1. joined \in Workers
    BY <1>1, <1>a, PoolAssumption DEF FailJoin, TypeOK, Workers
  <2>2. /\ Emptied(joined) /\ dropped' = dropped \cup D
        /\ UNCHANGED <<task, pushed, retired>>
    BY <1>1 DEF FailJoin, deque_destroy, Emptied, workerVars, Slots
  <2>3. Queued' = Queued \ D /\ D \subseteq Queued /\ SlotsUnique'
    BY <1>a, <2>1, <2>2, DrainQueued
  <2>4. Held' = Held /\ HeldOnce'
    BY <1>a, <2>2 DEF Held, HeldOnce, ExactlyOnce
  <2> HIDE DEF D
  <2> QED
    BY <1>a, <2>2, <2>3, <2>4 DEF ExactlyOnce
<1>2. CASE DestroyJoin
  <2> DEFINE D == {queues[joined][i] : i \in Slots(joined)}
  <2>1. joined \in Workers
    BY <1>2, <1>a, PoolAssumption DEF DestroyJoin, TypeOK, Workers
  <2>2. /\ Emptied(joined) /\ dropped' = dropped \cup D
        /\ UNCHANGED <<task, pushed, retired>>
    BY <1>2 DEF DestroyJoin, deque_destroy, Emptied, workerVars, Slots
  <2>3. Queued' = Queued \ D /\ D \subseteq Queued /\ SlotsUnique'
    BY <1>a, <2>1, <2>2, DrainQueued
  <2>4. Held' = Held /\ HeldOnce'
    BY <1>a, <2>2 DEF Held, HeldOnce, ExactlyOnce
  <2> HIDE DEF D
  <2> QED
    BY <1>a, <2>2, <2>3, <2>4 DEF ExactlyOnce
<1>3. ASSUME NEW w \in Workers, Moved(w) PROVE ExactlyOnce'
  <2>0. /\ UNCHANGED <<pushed, retired, dropped>>
        /\ task[w] = NoTask
    BY <1>0, <1>a, <1>3 DEF ControlInv, historyVars
  <2>1. CASE Missed(w)
    BY <1>same, <2>0, <2>1 DEF Missed
  <2>2. ASSUME NEW v \in Workers, NEW k \in Slots(v), Took(w, v, k) PROVE ExactlyOnce'
    <3> DEFINE t == queues[v][k]
    <3>1. Queued' = Queued \ {t} /\ t \in Queued /\ SlotsUnique'
      BY <1>a, <2>2, TookQueued
    <3>2. task' = [task EXCEPT ![w] = t]
      BY <2>2 DEF Took, Take
    <3>3. t \notin Held /\ t # NoTask
      <4>1. t \in Tasks
        BY <1>a, SlotTask
      <4> QED
        BY <1>a, <3>1, <4>1, PoolAssumption DEF ExactlyOnce
    <3> HIDE DEF t
    <3>4. Held' = Held \cup {t}
      BY <1>t, <2>0, <3>2, <3>3 DEF Held
    <3>5. HeldOnce'
      <4>1. \A a \in Workers : task[a] # t
        BY <3>3 DEF Held
      <4>2. HeldOnce
        BY <1>a DEF ExactlyOnce
      <4> QED
        BY <1>t, <3>2, <4>1, <4>2 DEF HeldOnce
    <3> QED
      BY <1>a, <2>0, <3>1, <3>4, <3>5 DEF ExactlyOnce
  <2> QED
    BY <1>0, <1>3, <2>1, <2>2
<1>4. ASSUME NEW w \in Workers, WorkerPush(w) PROVE ExactlyOnce'
  <2>0. PICK t \in todo[w] : Push(w, w, t)
    BY <1>4 DEF WorkerPush
  <2>1. /\ t \in Tasks /\ t \notin pushed
        /\ pushed' = pushed \cup {t} /\ deque_push(w, t)
    <3>1. todo[w] \in SUBSET Tasks /\ todo[w] \cap pushed = {}
      BY <1>a, SMTT(20) DEF SpawnInv, TypeOK
    <3> QED
      BY <2>0, <3>1 DEF Push
  <2>2. UNCHANGED <<task, retired, dropped>>
    BY <1>4 DEF WorkerPush, workerVars
  <2>3. Queued' = Queued \cup {t} /\ SlotsUnique'
    BY <1>a, <2>1, PushQueued
  <2>4. Held' = Held /\ HeldOnce'
    BY <1>a, <2>2 DEF Held, HeldOnce, ExactlyOnce
  <2>5. t \notin Held \cup retired \cup dropped
    BY <1>a, <2>1 DEF ExactlyOnce
  <2>6. pushed' = Queued' \cup Held' \cup retired' \cup dropped'
    BY <1>a, <2>1, <2>2, <2>3, <2>4 DEF ExactlyOnce
  <2> QED
    BY <1>a, <2>2, <2>3, <2>4, <2>5, <2>6 DEF ExactlyOnce
<1>5. ASSUME NEW w \in Workers, WorkerCount(w) PROVE ExactlyOnce'
  BY <1>same, <1>5 DEF WorkerCount, Count
<1>6. ASSUME NEW w \in Workers, WorkerFinish(w) PROVE ExactlyOnce'
  BY <1>same, <1>6 DEF WorkerFinish, workerVars, historyVars
<1>7. ASSUME NEW w \in Workers, WorkerRetire(w) PROVE ExactlyOnce'
  <2>1. /\ task' = [task EXCEPT ![w] = NoTask] /\ retired' = retired \cup {task[w]}
        /\ UNCHANGED <<queues, pushed, dropped>> /\ task[w] # NoTask
    BY <1>7, <1>a DEF WorkerRetire, ControlInv
  <2>2. Queued' = Queued /\ SlotsUnique'
    BY <1>a, <2>1 DEF Queued, Slots, SlotsUnique, ExactlyOnce
  <2>0. HeldOnce
    BY <1>a DEF ExactlyOnce
  <2>3. Held' = Held \ {task[w]} /\ task[w] \in Held
    <3>1. \A v \in Workers : v # w /\ task[v] # NoTask => task[v] # task[w]
      BY <2>0, <2>1 DEF HeldOnce
    <3> QED
      BY <1>t, <2>1, <3>1 DEF Held
  <2>4. HeldOnce'
    BY <1>t, <2>0, <2>1 DEF HeldOnce
  <2> QED
    BY <1>a, <2>1, <2>2, <2>3, <2>4 DEF ExactlyOnce
<1>8. ASSUME NEW c \in Clients, ClientPush(c) PROVE ExactlyOnce'
  <2>0. PICK t \in RootTasks \ pushed, d \in Workers : Push(c, d, t)
    BY <1>8 DEF ClientPush
  <2>1. /\ t \in Tasks /\ t \notin pushed
        /\ pushed' = pushed \cup {t} /\ deque_push(d, t)
    BY <2>0 DEF Push, RootTasks
  <2>2. UNCHANGED <<task, retired, dropped>>
    BY <1>8 DEF ClientPush, workerVars
  <2>3. Queued' = Queued \cup {t} /\ SlotsUnique'
    BY <1>a, <2>1, PushQueued
  <2>4. Held' = Held /\ HeldOnce'
    BY <1>a, <2>2 DEF Held, HeldOnce, ExactlyOnce
  <2>5. t \notin Held \cup retired \cup dropped
    BY <1>a, <2>1 DEF ExactlyOnce
  <2>6. pushed' = Queued' \cup Held' \cup retired' \cup dropped'
    BY <1>a, <2>1, <2>2, <2>3, <2>4 DEF ExactlyOnce
  <2> QED
    BY <1>a, <2>2, <2>3, <2>4, <2>5, <2>6 DEF ExactlyOnce
<1>9. ASSUME NEW c \in Clients, ClientCount(c) PROVE ExactlyOnce'
  BY <1>same, <1>9 DEF ClientCount, Count, workerVars
<1>10. ASSUME NEW c \in Clients, WaitBegin(c) PROVE ExactlyOnce'
  BY <1>same, <1>10 DEF WaitBegin, workerVars, historyVars
<1>11. CASE Quiet
  BY <1>same, <1>11 DEF Quiet, historyVars
<1> QED
  BY <1>1, <1>2, <1>3, <1>4, <1>5, <1>6, <1>7, <1>8, <1>9, <1>10, <1>11, Effects
     DEF OwnerMoves, WorkerMoves, ClientMoves, Moved

-----------------------------------------------------------------------------
(* What active_tasks counts *)

\* After a push one more thread is about to count one more task.
LEMMA PushCounts ==
  ASSUME TypeOK, CountInv, NEW p \in Workers \cup Clients, NEW t \in Tasks,
         t \notin pushed, pushed' = pushed \cup {t}, mine[p] = NoTask,
         mine' = [mine EXCEPT ![p] = t],
         UNCHANGED <<counted, finished, retired, target>>
  PROVE  CountInv'
<1> DEFINE Threads == Workers \cup Clients
<1>1. t \notin counted /\ \A q \in Threads : mine[q] # t
  BY DEF CountInv
<1>2. mine'[p] = t /\ \A q \in Threads : q # p => mine'[q] = mine[q]
  BY DEF TypeOK
<1>3. ASSUME NEW s \in Tasks
      PROVE  s \in pushed' <=> s \in counted' \/ \E q \in Threads : mine'[q] = s
  <2>1. CASE s = t
    BY <1>2, <2>1
  <2>2. CASE s # t
    <3>1. s \in pushed' <=> s \in counted \/ \E q \in Threads : mine[q] = s
      BY <2>2 DEF CountInv
    <3>2. (\E q \in Threads : mine'[q] = s) <=> (\E q \in Threads : mine[q] = s)
      BY <1>2, <2>2, PoolAssumption
    <3> QED
      BY <3>1, <3>2
  <2> QED
    BY <2>1, <2>2
<1>4. \A q \in Threads : mine'[q] \notin counted'
  BY <1>1, <1>2 DEF CountInv
<1>5. \A q, r \in Threads : mine'[q] = mine'[r] /\ mine'[q] # NoTask => q = r
  BY <1>1, <1>2 DEF CountInv
<1> QED
  BY <1>3, <1>4, <1>5 DEF CountInv

\* Counting the task in hand is the end of its submission.
LEMMA CountCounts ==
  ASSUME TypeOK, CountInv, NEW p \in Workers \cup Clients, mine[p] \in Tasks,
         counted' = counted \cup {mine[p]}, mine' = [mine EXCEPT ![p] = NoTask],
         UNCHANGED <<pushed, finished, retired, target>>
  PROVE  CountInv'
<1> DEFINE Threads == Workers \cup Clients
<1>1. mine'[p] = NoTask /\ \A q \in Threads : q # p => mine'[q] = mine[q]
  BY DEF TypeOK
<1>2. NoTask \notin counted' /\ NoTask \notin Tasks
  BY PoolAssumption DEF TypeOK
<1>3. \A q \in Threads : q # p => mine[q] # mine[p]
  BY <1>2 DEF CountInv
<1>4. ASSUME NEW s \in Tasks
      PROVE  s \in pushed' <=> s \in counted' \/ \E q \in Threads : mine'[q] = s
  <2>1. CASE s = mine[p]
    BY <2>1 DEF CountInv
  <2>2. CASE s # mine[p]
    <3>1. s \in pushed' <=> s \in counted' \/ \E q \in Threads : mine[q] = s
      BY <2>2 DEF CountInv
    <3>2. (\E q \in Threads : mine'[q] = s) <=> (\E q \in Threads : mine[q] = s)
      BY <1>1, <1>2, <2>2
    <3> QED
      BY <3>1, <3>2
  <2> QED
    BY <2>1, <2>2
<1>5. \A q \in Threads : mine'[q] \notin counted'
  BY <1>1, <1>2, <1>3 DEF CountInv
<1>6. \A q, r \in Threads : mine'[q] = mine'[r] /\ mine'[q] # NoTask => q = r
  BY <1>1 DEF CountInv
<1> QED
  BY <1>4, <1>5, <1>6 DEF CountInv

\* A pushed task is counted exactly once, by the thread that pushed it.
LEMMA CountStep == IInv /\ [Next]_vars => CountInv'
<1> SUFFICES ASSUME IInv, [Next]_vars PROVE CountInv'
  OBVIOUS
<1> DEFINE Moved(w) == WorkerPop(w) \/ WorkerSteal(w)
<1>0. ASSUME NEW w \in Workers, Moved(w)
      PROVE  /\ wpc[w] \in {"pop", "steal"}
             /\ UNCHANGED <<poolVars, syncVars, clientVars, mine, historyVars>>
             /\ Missed(w) \/ \E v \in Workers : \E k \in Slots(v) : Took(w, v, k)
  BY <1>0, PopOrSteal DEF IInv
<1> HIDE DEF Moved
<1> DEFINE Threads == Workers \cup Clients
<1>a. TypeOK /\ ControlInv /\ CountInv /\ SpawnInv
  BY DEF IInv
<1>same. UNCHANGED <<pushed, counted, finished, retired, target, mine>> => CountInv'
  BY <1>a DEF CountInv
<1>1. CASE FailJoin
  BY <1>same, <1>1 DEF FailJoin, clientVars
<1>2. CASE DestroyJoin
  BY <1>same, <1>2 DEF DestroyJoin, clientVars
<1>3. ASSUME NEW w \in Workers, Moved(w) PROVE CountInv'
  BY <1>0, <1>same, <1>3 DEF clientVars, historyVars
<1>4. ASSUME NEW w \in Workers, WorkerPush(w) PROVE CountInv'
  <2>1. PICK t \in Tasks : /\ t \notin pushed /\ pushed' = pushed \cup {t}
                           /\ mine' = [mine EXCEPT ![w] = t]
    BY <1>4, <1>a, PoolAssumption, Zenon DEF WorkerPush, Push, SpawnInv, TypeOK
  <2>2. UNCHANGED <<counted, finished, retired, target>> /\ mine[w] = NoTask
    BY <1>4, <1>a DEF WorkerPush, clientVars, ControlInv
  <2> QED
    BY <1>a, <2>1, <2>2, PushCounts, Zenon
<1>5. ASSUME NEW w \in Workers, WorkerCount(w) PROVE CountInv'
  <2>1. /\ counted' = counted \cup {mine[w]} /\ mine' = [mine EXCEPT ![w] = NoTask]
        /\ UNCHANGED <<pushed, finished, retired, target>>
    BY <1>5 DEF WorkerCount, Count, clientVars
  <2>2. mine[w] \in Tasks
    BY <1>5, <1>a DEF WorkerCount, ControlInv, TypeOK
  <2> QED
    BY <1>a, <2>1, <2>2, CountCounts, Zenon
<1>6. ASSUME NEW w \in Workers, WorkerFinish(w) PROVE CountInv'
  BY <1>a, <1>6 DEF WorkerFinish, clientVars, CountInv
<1>7. ASSUME NEW w \in Workers, WorkerRetire(w) PROVE CountInv'
  <2>1. /\ task[w] \in finished /\ retired' = retired \cup {task[w]}
        /\ UNCHANGED <<pushed, counted, finished, target, mine>>
    BY <1>a, <1>7 DEF WorkerRetire, clientVars, ControlInv
  <2> QED
    BY <1>a, <2>1 DEF CountInv
<1>8. ASSUME NEW c \in Clients, ClientPush(c) PROVE CountInv'
  <2>1. PICK t \in Tasks : /\ t \notin pushed /\ pushed' = pushed \cup {t}
                           /\ mine' = [mine EXCEPT ![c] = t]
    BY <1>8, <1>a, PoolAssumption, Zenon DEF ClientPush, Push, RootTasks
  <2>2. UNCHANGED <<counted, finished, retired, target>> /\ mine[c] = NoTask
    BY <1>8, <1>a DEF ClientPush, clientVars, ControlInv
  <2> QED
    BY <1>a, <2>1, <2>2, PushCounts, Zenon
<1>9. ASSUME NEW c \in Clients, ClientCount(c) PROVE CountInv'
  <2>1. /\ counted' = counted \cup {mine[c]} /\ mine' = [mine EXCEPT ![c] = NoTask]
        /\ UNCHANGED <<pushed, finished, retired, target>>
    BY <1>9 DEF ClientCount, Count, clientVars
  <2>2. mine[c] \in Tasks
    BY <1>9, <1>a DEF ClientCount, ControlInv, TypeOK
  <2> QED
    BY <1>a, <2>1, <2>2, CountCounts, Zenon
<1>10. ASSUME NEW c \in Clients, WaitBegin(c) PROVE CountInv'
  BY <1>a, <1>10 DEF WaitBegin, historyVars, CountInv, TypeOK
<1>11. CASE Quiet
  BY <1>same, <1>11 DEF Quiet, historyVars
<1> QED
  BY <1>1, <1>2, <1>3, <1>4, <1>5, <1>6, <1>7, <1>8, <1>9, <1>10, <1>11, Effects
     DEF OwnerMoves, WorkerMoves, ClientMoves, Moved

-----------------------------------------------------------------------------
(* Nested submissions *)

\* A task's own submissions happen once, and only while it runs.
LEMMA SpawnStep == IInv /\ [Next]_vars => SpawnInv'
<1> SUFFICES ASSUME IInv, [Next]_vars PROVE SpawnInv'
  OBVIOUS
<1> DEFINE Moved(w) == WorkerPop(w) \/ WorkerSteal(w)
<1>0. ASSUME NEW w \in Workers, Moved(w)
      PROVE  /\ wpc[w] \in {"pop", "steal"}
             /\ UNCHANGED <<poolVars, syncVars, clientVars, mine, historyVars>>
             /\ Missed(w) \/ \E v \in Workers : \E k \in Slots(v) : Took(w, v, k)
  BY <1>0, PopOrSteal DEF IInv
<1> HIDE DEF Moved
<1>a. TypeOK /\ ControlInv /\ ExactlyOnce /\ SpawnInv
  BY DEF IInv
<1>same. UNCHANGED <<task, todo, mine, pushed, retired>> => SpawnInv'
  BY <1>a DEF SpawnInv, Held
<1>1. CASE FailJoin
  BY <1>same, <1>1 DEF FailJoin, workerVars, historyVars
<1>2. CASE DestroyJoin
  BY <1>same, <1>2 DEF DestroyJoin, workerVars, historyVars
<1>3. ASSUME NEW w \in Workers, Moved(w) PROVE SpawnInv'
  <2>0. UNCHANGED <<pushed, retired, mine>> /\ task[w] = NoTask /\ mine[w] = NoTask
    BY <1>0, <1>a, <1>3 DEF ControlInv, historyVars
  <2>1. CASE Missed(w)
    BY <1>same, <2>0, <2>1 DEF Missed
  <2>2. ASSUME NEW v \in Workers, NEW k \in Slots(v), Took(w, v, k) PROVE SpawnInv'
    <3> DEFINE t == queues[v][k]
    <3>0. t \in Tasks
      BY <1>a, SlotTask
    <3>1. t \in Queued
      BY DEF Queued
    <3>2. task' = [task EXCEPT ![w] = t] /\ todo' = [todo EXCEPT ![w] = Spawns[t]]
      BY <2>2 DEF Took, Take
    <3>3. Spawns[t] \cap pushed = {}
      BY <1>a, <3>0, <3>1 DEF SpawnInv, ExactlyOnce
    <3> HIDE DEF t
    <3>4. Held \subseteq Held'
      BY <1>a, <2>0, <3>2, SMTT(20) DEF Held, TypeOK
    <3> QED
      BY <1>a, <2>0, <3>2, <3>3, <3>4 DEF SpawnInv, TypeOK
  <2> QED
    BY <1>0, <1>3, <2>1, <2>2
<1>4. ASSUME NEW w \in Workers, WorkerPush(w) PROVE SpawnInv'
  <2>1. PICK s \in todo[w] : /\ pushed' = pushed \cup {s}
                            /\ todo' = [todo EXCEPT ![w] = @ \ {s}]
                            /\ mine' = [mine EXCEPT ![w] = s]
    BY <1>4, Zenon DEF WorkerPush, Push
  <2>2. UNCHANGED <<task, retired>> /\ task[w] \in Tasks /\ task[w] # NoTask
    BY <1>4, <1>a DEF WorkerPush, ControlInv, TypeOK
  <2>3. s \in Spawns[task[w]] /\ s \in Tasks
    BY <1>a, <2>1, <2>2, PoolAssumption DEF SpawnInv, TypeOK
  <2>4. Held' = Held /\ task[w] \in Held
    BY <2>2 DEF Held
  <2>5. ASSUME NEW u \in Workers
        PROVE  /\ todo'[u] \cap pushed' = {} /\ todo'[u] \subseteq todo[u]
    <3>1. CASE u = w
      BY <1>a, <2>1, <3>1 DEF SpawnInv, TypeOK
    <3>2. CASE u # w /\ task[u] = NoTask
      BY <1>a, <2>1, <3>2 DEF ControlInv, TypeOK
    <3>3. CASE u # w /\ task[u] # NoTask
      <4>0. HeldOnce
        BY <1>a DEF ExactlyOnce
      <4>1. task[u] \in Tasks /\ task[u] # task[w]
        BY <1>a, <2>2, <3>3, <4>0 DEF HeldOnce, TypeOK
      <4>2. s \notin todo[u]
        BY <1>a, <2>2, <2>3, <3>3, <4>1, PoolAssumption DEF SpawnInv
      <4> QED
        BY <1>a, <2>1, <3>3, <4>2 DEF SpawnInv, TypeOK
    <3> QED
      BY <3>1, <3>2, <3>3
  <2>6. ASSUME NEW p \in Tasks, Spawns[p] \cap pushed' # {}
        PROVE  p \in Held' \cup retired'
    <3>1. CASE s \in Spawns[p]
      BY <2>2, <2>3, <2>4, <3>1, PoolAssumption
    <3>2. CASE s \notin Spawns[p]
      BY <1>a, <2>1, <2>2, <2>4, <2>6, <3>2, SMTT(20) DEF SpawnInv
    <3> QED
      BY <3>1, <3>2
  <2>7. \A u \in Workers : mine'[u] # NoTask => mine'[u] \in Spawns[task'[u]]
    BY <1>a, <2>1, <2>2, <2>3 DEF SpawnInv, TypeOK
  <2> QED
    BY <1>a, <2>2, <2>5, <2>6, <2>7 DEF SpawnInv
<1>5. ASSUME NEW w \in Workers, WorkerCount(w) PROVE SpawnInv'
  <2>1. /\ UNCHANGED <<task, todo, pushed, retired>>
        /\ mine' = [mine EXCEPT ![w] = NoTask]
    BY <1>5 DEF WorkerCount, Count
  <2>2. Held' = Held
    BY <2>1 DEF Held
  <2> QED
    BY <1>a, <2>1, <2>2 DEF SpawnInv, TypeOK
<1>6. ASSUME NEW w \in Workers, WorkerFinish(w) PROVE SpawnInv'
  BY <1>same, <1>6, Zenon DEF WorkerFinish, workerVars, historyVars
<1>7. ASSUME NEW w \in Workers, WorkerRetire(w) PROVE SpawnInv'
  <2>1. /\ task' = [task EXCEPT ![w] = NoTask] /\ retired' = retired \cup {task[w]}
        /\ UNCHANGED <<todo, pushed, mine>> /\ mine[w] = NoTask
    BY <1>a, <1>7, ZenonT(30) DEF WorkerRetire, ControlInv
  <2>2. Held \subseteq Held' \cup {task[w]}
    BY <1>a, <2>1 DEF Held, TypeOK
  <2> QED
    BY <1>a, <2>1, <2>2, SMTT(20) DEF SpawnInv, TypeOK
<1>8. ASSUME NEW c \in Clients, ClientPush(c) PROVE SpawnInv'
  <2>1. PICK s \in RootTasks : /\ pushed' = pushed \cup {s}
                                /\ mine' = [mine EXCEPT ![c] = s]
    BY <1>8, Zenon DEF ClientPush, Push
  <2>2. UNCHANGED <<task, todo, retired>> /\ Held' = Held
    BY <1>8 DEF ClientPush, workerVars, Held
  <2>3. \A p \in Tasks : s \notin Spawns[p]
    BY <2>1 DEF RootTasks
  <2>4. ASSUME NEW w \in Workers PROVE s \notin todo[w]
    <3>1. CASE task[w] = NoTask
      BY <1>a, <3>1 DEF ControlInv
    <3>2. CASE task[w] # NoTask
      <4>1. task[w] \in Tasks /\ todo[w] \subseteq Spawns[task[w]]
        BY <1>a, <3>2 DEF SpawnInv, TypeOK
      <4> QED
        BY <2>3, <4>1
    <3> QED
      BY <3>1, <3>2
  <2>5. \A w \in Workers : mine'[w] = mine[w]
    BY <1>a, <2>1, PoolAssumption DEF TypeOK
  <2> QED
    BY <1>a, <2>1, <2>2, <2>3, <2>4, <2>5 DEF SpawnInv
<1>9. ASSUME NEW c \in Clients, ClientCount(c) PROVE SpawnInv'
  <2>1. /\ UNCHANGED <<task, todo, pushed, retired>>
        /\ mine' = [mine EXCEPT ![c] = NoTask]
    BY <1>9 DEF ClientCount, Count, workerVars
  <2>2. Held' = Held
    BY <2>1 DEF Held
  <2>3. \A w \in Workers : mine'[w] = mine[w]
    BY <1>a, <2>1, PoolAssumption DEF TypeOK
  <2> QED
    BY <1>a, <2>1, <2>2, <2>3 DEF SpawnInv
<1>10. ASSUME NEW c \in Clients, WaitBegin(c) PROVE SpawnInv'
  BY <1>same, <1>10 DEF WaitBegin, workerVars, historyVars
<1>11. CASE Quiet
  BY <1>same, <1>11 DEF Quiet, historyVars
<1> QED
  BY <1>1, <1>2, <1>3, <1>4, <1>5, <1>6, <1>7, <1>8, <1>9, <1>10, <1>11, Effects
     DEF OwnerMoves, WorkerMoves, ClientMoves, Moved

=============================================================================
