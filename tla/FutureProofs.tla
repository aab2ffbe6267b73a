---------------------------- MODULE FutureProofs ----------------------------
(***************************************************************************)
(* A future is ready only when its task has run: proof for any number of   *)
(* futures and waiters.  The invariant adds to ReadyMeansRun that a        *)
(* wrapper that has begun is never dropped.                                *)
(***************************************************************************)
EXTENDS Future, TLAPS

Stages == {"queued", "ran", "set", "told"}

Types ==
  /\ stage \in [Futures -> Stages] /\ ready \subseteq Futures
  /\ accepted \subseteq Futures /\ acked \subseteq Futures
  /\ on \in [Waiters -> Futures]
  /\ wpc \in [Waiters -> {"idle", "enter", "wait", "asleep", "got"}]

\* A wrapper that a worker has taken is not among those that destroy frees.
BegunStays == \A f \in Futures : stage[f] # "queued" => f \notin dropped

\* ready is written after the function has returned.
ReadyIsSet == \A f \in ready : stage[f] \in {"set", "told"}

GotIsReady == \A w \in Waiters : wpc[w] = "got" => on[w] \in ready

FutureInv == Types /\ BegunStays /\ ReadyIsSet /\ GotIsReady

\* The steps of a waiter change neither the pool nor a wrapper, and one gets
\* to "got" only through the test of ready.
LEMMA WaiterKeeps ==
  ASSUME FutureInv, NEW w \in Waiters, Waiter(w) \/ SpuriousWake(w)
  PROVE  FutureInv'
<1> USE DEF FutureInv, Types, BegunStays, ReadyIsSet, GotIsReady, poolState
<1>1. CASE WaitBegin(w)
  BY <1>1 DEF WaitBegin, futureState
<1>2. CASE WaitEnter(w)
  BY <1>2 DEF WaitEnter, Test
<1>3. CASE WaitSleep(w)
  BY <1>3 DEF WaitSleep
<1>4. CASE WaitWake(w)
  BY <1>4 DEF WaitWake, Test
<1>5. CASE SpuriousWake(w)
  BY <1>5 DEF SpuriousWake, waiterState
<1> QED BY <1>1, <1>2, <1>3, <1>4, <1>5 DEF Waiter

\* The steps of the wrapper: its stages follow one another, and ready is set
\* between the second and the third.
LEMMA WrapperKeeps ==
  ASSUME FutureInv, NEW f \in Futures, Wrapper(f)
  PROVE  FutureInv'
<1> USE DEF FutureInv, Types, BegunStays, ReadyIsSet, GotIsReady, waiterState, Stages
<1>1. CASE RunInner(f)
  BY <1>1 DEF RunInner, Pool!Pending, poolState
<1>2. CASE SetReady(f)
  BY <1>2 DEF SetReady, poolState
<1>3. CASE Broadcast(f)
  BY <1>3 DEF Broadcast, Pool!Complete
<1> QED BY <1>1, <1>2, <1>3 DEF Wrapper

\* The pool's side: only a wrapper that is still queued is dropped.
LEMMA PoolKeeps ==
  ASSUME FutureInv,
         Close \/ \E f \in Futures : Submit(f) \/ SubmitReturns(f) \/ Drop(f)
  PROVE  FutureInv'
<1> USE DEF FutureInv, Types, BegunStays, ReadyIsSet, GotIsReady, futureState, waiterState
<1>1. CASE Close
  BY <1>1 DEF Close, Pool!Close
<1>2. ASSUME NEW f \in Futures, Submit(f) PROVE FutureInv'
  BY <1>2 DEF Submit, Pool!Accept
<1>3. ASSUME NEW f \in Futures, SubmitReturns(f) PROVE FutureInv'
  BY <1>3 DEF SubmitReturns, Pool!Ack
<1>4. ASSUME NEW f \in Futures, Drop(f) PROVE FutureInv'
  BY <1>4 DEF Drop, Pool!Drop
<1> QED BY <1>1, <1>2, <1>3, <1>4

\* A future says that it is ready, to is_ready or by letting a wait return,
\* only after its task's function has returned, and never for a dropped task
\* (future_wrapper_func, SNEPPX_future_set_result, SNEPPX_future_wait).
THEOREM ReadyMeansRunAlways == Spec => []ReadyMeansRun
<1>1. Init => FutureInv
  BY DEF Init, Pool!Init, FutureInv, Types, BegunStays, ReadyIsSet, GotIsReady, Stages
<1>2. FutureInv /\ [Next]_vars => FutureInv'
  <2> SUFFICES ASSUME FutureInv, [Next]_vars PROVE FutureInv'
    OBVIOUS
  <2>1. CASE Next
    BY <2>1, WaiterKeeps, WrapperKeeps, PoolKeeps DEF Next
  <2>2. CASE UNCHANGED vars
    BY <2>2 DEF vars, poolState, futureState, waiterState, FutureInv, Types,
                BegunStays, ReadyIsSet, GotIsReady
  <2> QED BY <2>1, <2>2
<1>3. FutureInv => ReadyMeansRun
  BY DEF FutureInv, Types, BegunStays, ReadyIsSet, GotIsReady, ReadyMeansRun
<1> QED BY <1>1, <1>2, <1>3, PTL DEF Spec
=============================================================================
