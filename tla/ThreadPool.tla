----------------------------- MODULE ThreadPool -----------------------------
(***************************************************************************)
(* The work-stealing thread pool of kernel/thread/threadpool.c: creation   *)
(* and its failure path, the worker loop, submit, wait and destroy.        *)
(*                                                                         *)
(* A step is a maximal run of code with one access to state that another   *)
(* thread reads or writes.  Every deque operation takes the deque's own    *)
(* lock for its whole body, so it is one step.  global_lock is a variable, *)
(* because SNEPPX_threadpool_destroy writes shutdown and broadcasts        *)
(* without taking it: what happens between a worker's predicate test and   *)
(* its cond_wait matters.                                                  *)
(***************************************************************************)
EXTENDS Integers, Sequences, FiniteSets

CONSTANTS
  NumThreads,     \* num_threads of SNEPPX_threadpool_create
  Tasks,          \* the submissions that may happen, each made at most once
  Clients,        \* threads outside the pool (g_thread_id = -1)
  Spawns,         \* Spawns[t]: the tasks that t's function submits itself
  ThreadsMayFail, \* can malloc or SNEPPX_thread_create fail during create
  MayDestroy,     \* does the owner ever call SNEPPX_threadpool_destroy
  NoTask, Free    \* no task in hand; global_lock not held

Workers == 0 .. NumThreads - 1

\* The tasks that clients submit: those no other task submits.
RootTasks == Tasks \ UNION {Spawns[t] : t \in Tasks}

ASSUME PoolAssumption ==
  /\ NumThreads \in Nat \ {0}
  /\ IsFiniteSet(Tasks)
  /\ NoTask \notin Tasks
  /\ Clients \cap Workers = {}
  /\ Free \notin Workers \cup Clients
  /\ Spawns \in [Tasks -> SUBSET Tasks]
  /\ \A s, t \in Tasks : s # t => Spawns[s] \cap Spawns[t] = {}
  /\ ThreadsMayFail \in BOOLEAN
  /\ MayDestroy \in BOOLEAN

VARIABLES
  life,      \* where the owner is: creating, up, failing, closing, joining, gone
  started,   \* the i of create's start loop: workers 0 .. i-1 exist
  joined,    \* the loop index of the join loop of destroy or of create's fail
  shutdown,  \* pool->shutdown
  queues,    \* pool->queues: one deque per worker, head first
  active,    \* pool->active_tasks
  waiting,   \* pool->waiting_count
  lock,      \* the holder of pool->global_lock between two steps, or Free
  sleepers,  \* the workers blocked in SNEPPX_cond_wait and not yet signalled
  wpc,       \* control state of each worker
  probe,     \* the steal loop's i of each worker
  task,      \* the task each worker has in hand
  todo,      \* the submissions the task in hand has still to make
  cpc,       \* control state of each client
  mine,      \* the task a thread has pushed and not yet counted
  scan,      \* the i of the wait loop of each client
  \* History of the submissions: pushed to a deque, counted in active_tasks
  \* (submit returned), finished (its function returned), retired (taken off
  \* active_tasks), dropped (freed by deque_destroy without running).
  pushed, counted, finished, retired, dropped,
  target     \* what was already submitted when the client's wait began

poolVars == <<life, started, joined, shutdown>>
syncVars == <<active, waiting, lock, sleepers>>
workerVars == <<wpc, probe, task, todo>>
clientVars == <<cpc, scan, target>>
historyVars == <<pushed, counted, finished, retired, dropped>>
vars == <<poolVars, queues, syncVars, workerVars, clientVars, mine, historyVars>>

WorkerStates == {"unborn", "top", "pop", "steal", "run", "count", "retire",
                 "test", "wait", "asleep", "exited"}

Init ==
  /\ life = "creating" /\ started = 0 /\ joined = 0 /\ shutdown = FALSE
  /\ queues = [w \in Workers |-> <<>>]
  /\ active = 0 /\ waiting = 0 /\ lock = Free /\ sleepers = {}
  /\ wpc = [w \in Workers |-> "unborn"]
  /\ probe = [w \in Workers |-> 1]
  /\ task = [w \in Workers |-> NoTask]
  /\ todo = [w \in Workers |-> {}]
  /\ cpc = [c \in Clients |-> "idle"]
  /\ mine = [p \in Workers \cup Clients |-> NoTask]
  /\ scan = [c \in Clients |-> 0]
  /\ target = [c \in Clients |-> {}]
  /\ pushed = {} /\ counted = {} /\ finished = {} /\ retired = {}
  /\ dropped = {}

-----------------------------------------------------------------------------
(* The deques, each operation of which runs under the deque's own lock.    *)

\* Frees what is left in worker j's deque: those tasks never run.
deque_destroy(j) ==
  /\ queues' = [queues EXCEPT ![j] = <<>>]
  /\ dropped' = dropped \cup {queues[j][i] : i \in 1 .. Len(queues[j])}

\* Mutant of deque_push: head and tail are both set to the new node, always.
PushOverwrites(d, t) == queues' = [queues EXCEPT ![d] = <<t>>]

\* Behind the last node.
deque_push(d, t) == queues' = [queues EXCEPT ![d] = Append(@, t)]

\* Takes the last node off a deque that is not empty.
deque_pop(d) == queues' = [queues EXCEPT ![d] = SubSeq(@, 1, Len(@) - 1)]

\* Takes the first node off a deque that is not empty.
deque_steal(d) == queues' = [queues EXCEPT ![d] = Tail(@)]

deque_count(d) == Len(queues[d])

-----------------------------------------------------------------------------
(* SNEPPX_threadpool_create *)

\* Mutant of StartWorker: i <= num_threads in the start loop.
StartWorkerOverrun ==
  /\ life = "creating" /\ started <= NumThreads
  /\ wpc' = [wpc EXCEPT ![started] = "top"]
  /\ started' = started + 1
  /\ UNCHANGED <<life, joined, shutdown, queues, syncVars, probe, task, todo,
                 clientVars, mine, historyVars>>

\* One turn of the start loop; the new thread may run before the next turn.
StartWorker ==
  /\ life = "creating" /\ started < NumThreads
  /\ wpc' = [wpc EXCEPT ![started] = "top"]
  /\ started' = started + 1
  /\ UNCHANGED <<life, joined, shutdown, queues, syncVars, probe, task, todo,
                 clientVars, mine, historyVars>>

CreateReturns ==
  /\ life = "creating" /\ started = NumThreads
  /\ life' = "up"
  /\ UNCHANGED <<started, joined, shutdown, queues, syncVars, workerVars,
                 clientVars, mine, historyVars>>

\* malloc of the thread's arguments or SNEPPX_thread_create fails: goto fail.
CreateFails ==
  /\ ThreadsMayFail
  /\ life = "creating" /\ started < NumThreads
  /\ life' = "failing"
  /\ UNCHANGED <<started, joined, shutdown, queues, syncVars, workerVars,
                 clientVars, mine, historyVars>>

\* One turn of the fail loop: joins the workers that were started, which
\* nothing has told to stop, and destroys each deque.
FailJoin ==
  /\ life = "failing" /\ joined < NumThreads
  /\ joined < started => wpc[joined] = "exited"
  /\ deque_destroy(joined)
  /\ joined' = joined + 1
  /\ UNCHANGED <<life, started, shutdown, syncVars, workerVars, clientVars,
                 mine, pushed, counted, finished, retired>>

\* The synchronisation objects and the pool are released: create returns NULL.
FailReturns ==
  /\ life = "failing" /\ joined = NumThreads
  /\ life' = "gone"
  /\ UNCHANGED <<started, joined, shutdown, queues, syncVars, workerVars,
                 clientVars, mine, historyVars>>

-----------------------------------------------------------------------------
(* SNEPPX_threadpool_submit, in two steps: the push, then the count.       *)

\* Thread p puts t on deque idx.
Push(p, idx, t) ==
  /\ deque_push(idx, t)
  /\ mine' = [mine EXCEPT ![p] = t]
  /\ pushed' = pushed \cup {t}

\* Mutant of Signal: the call is missing.
SignalMissing == UNCHANGED sleepers

\* Wakes one thread blocked on global_cond, if there is one.
Signal ==
  \/ /\ sleepers = {}
     /\ UNCHANGED sleepers
  \/ \E w \in sleepers : sleepers' = sleepers \ {w}

\* Mutant of Count: the increment has slipped into the test of waiting_count.
CountIfWaiting(p) ==
  /\ lock = Free
  /\ IF waiting > 0 THEN Signal /\ active' = active + 1
                    ELSE UNCHANGED <<active, sleepers>>
  /\ counted' = counted \cup {mine[p]}
  /\ mine' = [mine EXCEPT ![p] = NoTask]

\* active_tasks++ and the signal, under global_lock.
Count(p) ==
  /\ lock = Free
  /\ active' = active + 1
  /\ IF waiting > 0 THEN Signal ELSE UNCHANGED sleepers
  /\ counted' = counted \cup {mine[p]}
  /\ mine' = [mine EXCEPT ![p] = NoTask]

\* A client's push.  g_rr_counter is static, shared by every pool of the
\* process, so its residue may select any deque of this one.
ClientPush(c) ==
  /\ life = "up" /\ cpc[c] = "idle"
  /\ \E t \in RootTasks \ pushed, idx \in Workers : Push(c, idx, t)
  /\ cpc' = [cpc EXCEPT ![c] = "count"]
  /\ UNCHANGED <<poolVars, syncVars, workerVars, scan, target, counted,
                 finished, retired, dropped>>

ClientCount(c) ==
  /\ cpc[c] = "count"
  /\ Count(c)
  /\ cpc' = [cpc EXCEPT ![c] = "idle"]
  /\ UNCHANGED <<poolVars, queues, waiting, lock, workerVars, scan, target,
                 pushed, finished, retired, dropped>>

\* A task's function submits another task: g_thread_id selects the worker's
\* own deque.
WorkerPush(w) ==
  /\ wpc[w] = "run"
  /\ \E t \in todo[w] : /\ Push(w, w, t)
                        /\ todo' = [todo EXCEPT ![w] = @ \ {t}]
  /\ wpc' = [wpc EXCEPT ![w] = "count"]
  /\ UNCHANGED <<poolVars, syncVars, probe, task, clientVars, counted,
                 finished, retired, dropped>>

WorkerCount(w) ==
  /\ wpc[w] = "count"
  /\ Count(w)
  /\ wpc' = [wpc EXCEPT ![w] = "run"]
  /\ UNCHANGED <<poolVars, queues, waiting, lock, probe, task, todo,
                 clientVars, pushed, finished, retired, dropped>>

-----------------------------------------------------------------------------
(* worker_entry *)

\* while (!pool->shutdown)
WorkerTop(w) ==
  /\ wpc[w] = "top"
  /\ wpc' = [wpc EXCEPT ![w] = IF shutdown THEN "exited" ELSE "pop"]
  /\ UNCHANGED <<poolVars, queues, syncVars, probe, task, todo, clientVars,
                 mine, historyVars>>

\* task.func(task.arg) begins: the worker has t in hand.
Take(w, t) ==
  /\ task' = [task EXCEPT ![w] = t]
  /\ todo' = [todo EXCEPT ![w] = Spawns[t]]
  /\ wpc' = [wpc EXCEPT ![w] = "run"]

\* 1. Own deque, from the back (deque_pop).
WorkerPop(w) ==
  /\ wpc[w] = "pop"
  /\ LET q == queues[w] IN
     \/ /\ q # <<>>
        /\ deque_pop(w)
        /\ Take(w, q[Len(q)])
        /\ UNCHANGED probe
     \/ /\ q = <<>>
        /\ wpc' = [wpc EXCEPT ![w] = IF NumThreads > 1 THEN "steal" ELSE "test"]
        /\ probe' = [probe EXCEPT ![w] = 1]
        /\ UNCHANGED <<queues, task, todo>>
  /\ UNCHANGED <<poolVars, syncVars, clientVars, mine, historyVars>>

\* 2. One turn of the steal loop, from the victim's front (deque_steal).  A
\* deque that destroy has already drained and destroyed reads as empty.
WorkerSteal(w) ==
  /\ wpc[w] = "steal"
  /\ LET v == (w + probe[w]) % NumThreads IN
     \/ /\ queues[v] # <<>>
        /\ deque_steal(v)
        /\ Take(w, Head(queues[v]))
        /\ UNCHANGED probe
     \/ /\ queues[v] = <<>>
        /\ IF probe[w] + 1 < NumThreads
           THEN /\ probe' = [probe EXCEPT ![w] = @ + 1]
                /\ UNCHANGED wpc
           ELSE /\ wpc' = [wpc EXCEPT ![w] = "test"]
                /\ UNCHANGED probe
        /\ UNCHANGED <<queues, task, todo>>
  /\ UNCHANGED <<poolVars, syncVars, clientVars, mine, historyVars>>

\* task.func returns.
WorkerFinish(w) ==
  /\ wpc[w] = "run" /\ todo[w] = {}
  /\ finished' = finished \cup {task[w]}
  /\ wpc' = [wpc EXCEPT ![w] = "retire"]
  /\ UNCHANGED <<poolVars, queues, syncVars, probe, task, todo, clientVars,
                 mine, pushed, counted, retired, dropped>>

\* Mutant of WorkerRetire: active_tasks is not decremented.
WorkerRetireKeepsCount(w) ==
  /\ wpc[w] = "retire" /\ lock = Free
  /\ retired' = retired \cup {task[w]}
  /\ task' = [task EXCEPT ![w] = NoTask]
  /\ wpc' = [wpc EXCEPT ![w] = "top"]
  /\ UNCHANGED <<poolVars, queues, syncVars, probe, todo, clientVars, mine,
                 pushed, counted, finished, dropped>>

\* active_tasks-- under global_lock.
WorkerRetire(w) ==
  /\ wpc[w] = "retire" /\ lock = Free
  /\ active' = active - 1
  /\ retired' = retired \cup {task[w]}
  /\ task' = [task EXCEPT ![w] = NoTask]
  /\ wpc' = [wpc EXCEPT ![w] = "top"]
  /\ UNCHANGED <<poolVars, queues, waiting, lock, sleepers, probe, todo,
                 clientVars, mine, pushed, counted, finished, dropped>>

\* The predicate of the cond_wait loop.
NothingToDo == ~shutdown /\ active = 0

\* Mutant of TestPredicate: waiting_count is not taken back after the loop.
TestPredicateLeaks(w, sleeping) ==
  /\ lock = Free
  /\ IF NothingToDo
     THEN lock' = w /\ wpc' = [wpc EXCEPT ![w] = "wait"]
     ELSE lock' = Free /\ wpc' = [wpc EXCEPT ![w] = "top"]
  /\ waiting' = sleeping
  /\ UNCHANGED <<poolVars, queues, active, sleepers, probe, task, todo,
                 clientVars, mine, historyVars>>

\* With global_lock held: go to cond_wait, keeping the lock, or leave the loop.
TestPredicate(w, sleeping) ==
  /\ lock = Free
  /\ IF NothingToDo
     THEN /\ lock' = w
          /\ waiting' = sleeping
          /\ wpc' = [wpc EXCEPT ![w] = "wait"]
     ELSE /\ lock' = Free
          /\ waiting' = sleeping - 1
          /\ wpc' = [wpc EXCEPT ![w] = "top"]
  /\ UNCHANGED <<poolVars, queues, active, sleepers, probe, task, todo,
                 clientVars, mine, historyVars>>

\* 3. No work: waiting_count++ and the first test.
WorkerTest(w) ==
  /\ wpc[w] = "test"
  /\ TestPredicate(w, waiting + 1)

\* SNEPPX_cond_wait releases the lock and blocks, in one step.
WorkerWait(w) ==
  /\ wpc[w] = "wait"
  /\ lock' = Free
  /\ sleepers' = sleepers \cup {w}
  /\ wpc' = [wpc EXCEPT ![w] = "asleep"]
  /\ UNCHANGED <<poolVars, queues, active, waiting, probe, task, todo,
                 clientVars, mine, historyVars>>

\* A woken worker gets the lock back and tests again.
WorkerWake(w) ==
  /\ wpc[w] = "asleep" /\ w \notin sleepers
  /\ TestPredicate(w, waiting)

\* POSIX lets cond_wait return without a signal.
SpuriousWake(w) ==
  /\ w \in sleepers
  /\ sleepers' = sleepers \ {w}
  /\ UNCHANGED <<poolVars, queues, active, waiting, lock, workerVars,
                 clientVars, mine, historyVars>>

-----------------------------------------------------------------------------
(* SNEPPX_threadpool_wait *)

WaitBegin(c) ==
  /\ life = "up" /\ cpc[c] = "idle"
  /\ cpc' = [cpc EXCEPT ![c] = "scan"]
  /\ scan' = [scan EXCEPT ![c] = 0]
  /\ target' = [target EXCEPT ![c] = counted]
  /\ UNCHANGED <<poolVars, queues, syncVars, workerVars, mine, historyVars>>

\* deque_count of one deque; a non-empty one starts the loop over.
WaitScan(c) ==
  /\ cpc[c] = "scan" /\ scan[c] < NumThreads
  /\ scan' = [scan EXCEPT ![c] = IF deque_count(@) > 0 THEN 0 ELSE @ + 1]
  /\ UNCHANGED <<poolVars, queues, syncVars, workerVars, cpc, target, mine,
                 historyVars>>

\* Mutant of WaitCheck: empty deques are taken for finished tasks.
WaitCheckDequesOnly(c) ==
  /\ cpc[c] = "scan" /\ scan[c] = NumThreads
  /\ scan' = [scan EXCEPT ![c] = 0]
  /\ cpc' = [cpc EXCEPT ![c] = "idle"]
  /\ UNCHANGED <<poolVars, queues, syncVars, workerVars, target, mine,
                 historyVars>>

\* All deques looked empty: the unlocked read of active_tasks decides.
WaitCheck(c) ==
  /\ cpc[c] = "scan" /\ scan[c] = NumThreads
  /\ scan' = [scan EXCEPT ![c] = 0]
  /\ cpc' = [cpc EXCEPT ![c] = IF active = 0 THEN "idle" ELSE "scan"]
  /\ UNCHANGED <<poolVars, queues, syncVars, workerVars, target, mine,
                 historyVars>>

-----------------------------------------------------------------------------
(* SNEPPX_threadpool_destroy, called once no client is in another call.    *)

\* pool->shutdown = 1, without global_lock.
DestroyBegin ==
  /\ MayDestroy
  /\ life = "up" /\ \A c \in Clients : cpc[c] = "idle"
  /\ life' = "closing"
  /\ shutdown' = TRUE
  /\ UNCHANGED <<started, joined, queues, syncVars, workerVars, clientVars,
                 mine, historyVars>>

\* SNEPPX_cond_broadcast, without global_lock.
DestroyBroadcast ==
  /\ life = "closing"
  /\ life' = "joining"
  /\ sleepers' = {}
  /\ UNCHANGED <<started, joined, shutdown, queues, active, waiting, lock,
                 workerVars, clientVars, mine, historyVars>>

\* Mutant of DestroyJoin: the deque is destroyed without joining its worker.
DestroyJoinSkipped ==
  /\ life = "joining" /\ joined < NumThreads
  /\ deque_destroy(joined)
  /\ joined' = joined + 1
  /\ UNCHANGED <<life, started, shutdown, syncVars, workerVars, clientVars,
                 mine, pushed, counted, finished, retired>>

\* Joins worker i, then destroys its deque; workers above i still run.
DestroyJoin ==
  /\ life = "joining" /\ joined < NumThreads
  /\ wpc[joined] = "exited"
  /\ deque_destroy(joined)
  /\ joined' = joined + 1
  /\ UNCHANGED <<life, started, shutdown, syncVars, workerVars, clientVars,
                 mine, pushed, counted, finished, retired>>

DestroyReturns ==
  /\ life = "joining" /\ joined = NumThreads
  /\ life' = "gone"
  /\ UNCHANGED <<started, joined, shutdown, queues, syncVars, workerVars,
                 clientVars, mine, historyVars>>

-----------------------------------------------------------------------------
Owner == \/ StartWorker \/ CreateReturns \/ CreateFails \/ FailJoin
         \/ FailReturns \/ DestroyBegin \/ DestroyBroadcast \/ DestroyJoin
         \/ DestroyReturns

Worker(w) == \/ WorkerTop(w) \/ WorkerPop(w) \/ WorkerSteal(w)
             \/ WorkerPush(w) \/ WorkerCount(w) \/ WorkerFinish(w)
             \/ WorkerRetire(w) \/ WorkerTest(w) \/ WorkerWait(w)
             \/ WorkerWake(w)

Client(c) == \/ ClientPush(c) \/ ClientCount(c)
             \/ WaitBegin(c) \/ WaitScan(c) \/ WaitCheck(c)

Next == \/ Owner
        \/ \E w \in Workers : Worker(w) \/ SpuriousWake(w)
        \/ \E c \in Clients : Client(c)

Spec == Init /\ [][Next]_vars

\* Threads that have begun a call finish it: the scheduler runs every thread
\* again and again (WF), and global_lock starves nobody that keeps asking for
\* it (SF).  Whether a client calls submit or wait, or the owner destroy, is
\* up to them; spurious wake-ups are never owed.
Fairness ==
  /\ WF_vars(StartWorker) /\ WF_vars(CreateReturns) /\ WF_vars(FailJoin)
  /\ WF_vars(FailReturns) /\ WF_vars(DestroyBroadcast) /\ WF_vars(DestroyJoin)
  /\ WF_vars(DestroyReturns)
  /\ \A w \in Workers : /\ WF_vars(WorkerTop(w)) /\ WF_vars(WorkerPop(w))
                        /\ WF_vars(WorkerSteal(w)) /\ WF_vars(WorkerPush(w))
                        /\ WF_vars(WorkerFinish(w)) /\ WF_vars(WorkerWait(w))
                        /\ SF_vars(WorkerCount(w)) /\ SF_vars(WorkerRetire(w))
                        /\ SF_vars(WorkerTest(w)) /\ SF_vars(WorkerWake(w))
  /\ \A c \in Clients : /\ WF_vars(WaitScan(c)) /\ WF_vars(WaitCheck(c))
                        /\ SF_vars(ClientCount(c))

FairSpec == Spec /\ Fairness

-----------------------------------------------------------------------------
(* Properties *)

Slots(w) == 1 .. Len(queues[w])
Queued == UNION {{queues[w][i] : i \in Slots(w)} : w \in Workers}
Held == {task[w] : w \in Workers} \ {NoTask}

\* Every variable of the pool, of its workers and of its callers keeps its
\* type; in particular active_tasks is an integer that may drop below zero.
TypeOK ==
  /\ life \in {"creating", "up", "failing", "closing", "joining", "gone"}
  /\ started \in 0 .. NumThreads /\ joined \in 0 .. NumThreads
  /\ shutdown \in BOOLEAN
  /\ queues \in [Workers -> Seq(Tasks)]
  /\ active \in Int /\ waiting \in Int
  /\ lock \in Workers \cup {Free} /\ sleepers \in SUBSET Workers
  /\ wpc \in [Workers -> WorkerStates]
  /\ probe \in [Workers -> 1 .. NumThreads]
  /\ task \in [Workers -> Tasks \cup {NoTask}]
  /\ todo \in [Workers -> SUBSET Tasks]
  /\ cpc \in [Clients -> {"idle", "count", "scan"}]
  /\ mine \in [Workers \cup Clients -> Tasks \cup {NoTask}]
  /\ scan \in [Clients -> 0 .. NumThreads]
  /\ pushed \in SUBSET Tasks /\ counted \in SUBSET Tasks
  /\ finished \in SUBSET Tasks /\ retired \in SUBSET Tasks
  /\ dropped \in SUBSET Tasks
  /\ target \in [Clients -> SUBSET Tasks]

\* No slot of any deque repeats the task of another, and no two workers hold
\* the same task.
SlotsUnique ==
  \A v, w \in Workers : \A i \in Slots(v), j \in Slots(w) :
    queues[v][i] = queues[w][j] => v = w /\ i = j
HeldOnce ==
  \A v, w \in Workers : task[v] = task[w] /\ task[v] # NoTask => v = w

\* No task is lost or run twice, whatever pop, steal, push and deque_destroy
\* interleave: each submission sits in one slot of one deque, or in the hands
\* of one worker, or has been retired, or was dropped by destroy.
ExactlyOnce ==
  /\ pushed = Queued \cup Held \cup retired \cup dropped
  /\ SlotsUnique /\ HeldOnce
  /\ Queued \cap (Held \cup retired \cup dropped) = {}
  /\ Held \cap (retired \cup dropped) = {}
  /\ retired \cap dropped = {}

\* active_tasks is exactly the submissions counted less those retired: the
\* push that precedes the count can make it lag, never drift.
Accounting == active = Cardinality(counted) - Cardinality(retired)

\* waiting_count is the number of workers inside the cond_wait loop, so a
\* submit that finds it zero has nobody to wake.
WaitersCounted ==
  waiting = Cardinality({w \in Workers : wpc[w] \in {"wait", "asleep"}})

\* SNEPPX_threadpool_wait returns only when every task whose submit had
\* returned before it was called has completed.
WaitSound ==
  [][\A c \in Clients : cpc[c] = "scan" /\ cpc'[c] = "idle"
                          => target[c] \subseteq finished]_vars

\* Once destroy has joined a worker that worker runs no task, and once destroy
\* has returned no task is running and none is queued.
DestroyQuiesces ==
  /\ life = "joining" => \A w \in 0 .. joined - 1 : task[w] = NoTask
  /\ life = "gone" => Queued \cup Held = {}

\* While the pool is not destroyed, every submitted task eventually completes:
\* the wake-up protocol of submit loses no signal that matters.
SubmittedCompletes ==
  \A t \in Tasks : t \in pushed ~> (t \in finished \/ shutdown)

\* SNEPPX_threadpool_wait returns.
WaitReturns == \A c \in Clients : cpc[c] = "scan" ~> cpc[c] = "idle"

\* SNEPPX_threadpool_destroy returns.
DestroyTerminates == life = "closing" ~> life = "gone"

\* SNEPPX_threadpool_create returns, with a pool or with NULL.
CreateTerminates == life = "creating" ~> life \in {"up", "gone"}

-----------------------------------------------------------------------------
(* The inductive invariant behind the theorems of ThreadPoolProofs.        *)

\* What a control state says about the data of its thread.
ControlInv ==
  /\ \A w \in Workers :
       /\ (task[w] # NoTask) <=> (wpc[w] \in {"run", "count", "retire"})
       /\ (mine[w] # NoTask) <=> (wpc[w] = "count")
       /\ wpc[w] \notin {"run", "count"} => todo[w] = {}
       /\ wpc[w] = "retire" => task[w] \in finished
  /\ \A c \in Clients : (mine[c] # NoTask) <=> (cpc[c] = "count")

\* A pushed task is counted unless some thread is still about to count it.
CountInv ==
  /\ \A t \in Tasks : t \in pushed <=> \/ t \in counted
                                       \/ \E p \in Workers \cup Clients : mine[p] = t
  /\ \A p \in Workers \cup Clients : mine[p] \notin counted
  /\ \A p, q \in Workers \cup Clients : mine[p] = mine[q] /\ mine[p] # NoTask => p = q
  /\ retired \subseteq finished
  /\ \A c \in Clients : target[c] \subseteq counted

\* A task submits its own tasks only while it runs, each of them once.
SpawnInv ==
  /\ \A w \in Workers : /\ todo[w] \cap pushed = {}
                        /\ task[w] # NoTask => todo[w] \subseteq Spawns[task[w]]
                        /\ mine[w] # NoTask => mine[w] \in Spawns[task[w]]
  /\ \A t \in Tasks : Spawns[t] \cap pushed # {} => t \in Held \cup retired

\* How far the owner's loops have got, and what they have left behind.
LifeInv ==
  /\ \A w \in Workers : wpc[w] = "unborn" <=> w >= started
  /\ life \in {"creating", "up", "closing"} => joined = 0
  /\ life \in {"up", "closing", "joining"} => started = NumThreads
  /\ life = "gone" => joined = NumThreads
  /\ \A w \in Workers : w < joined => /\ wpc[w] \in {"unborn", "exited"}
                                       /\ queues[w] = <<>>

IInv == /\ TypeOK /\ ControlInv /\ ExactlyOnce /\ CountInv /\ SpawnInv
        /\ LifeInv /\ Accounting

=============================================================================
