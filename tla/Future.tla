------------------------------- MODULE Future -------------------------------
(***************************************************************************)
(* Futures of kernel/thread/threadpool.c: SNEPPX_threadpool_submit_future, *)
(* the wrapper that runs the task and publishes its completion, and        *)
(* SNEPPX_future_wait, on top of the pool that TaskPool specifies.  Each   *)
(* future has its own lock and condition variable.  malloc's failure in    *)
(* submit_future leaves every variable as it was and is not a step; the    *)
(* result that the wrapper stores is always NULL and is left out.          *)
(***************************************************************************)
EXTENDS FiniteSets

CONSTANTS
  Futures,  \* the futures, each submitted at most once with its task
  Waiters,  \* the threads that wait for them
  Free      \* fut->lock is not held

VARIABLES
  accepted, acked, complete, dropped, closed, waiters, promise, \* the pool
  stage,    \* how far the wrapper of each future has got
  ready,    \* the futures with fut->ready
  holder,   \* who holds fut->lock between two steps
  sleepers, \* the waiters blocked in SNEPPX_cond_wait and not yet signalled
  wpc,      \* control state of each waiter
  on        \* the future each waiter is waiting for, or waited for last

poolState == <<accepted, acked, complete, dropped, closed, waiters, promise>>
futureState == <<stage, ready, holder, sleepers>>
waiterState == <<wpc, on>>
vars == <<poolState, futureState, waiterState>>

Pool == INSTANCE TaskPool WITH Tasks <- Futures, Clients <- {}

Init ==
  /\ Pool!Init
  /\ stage = [f \in Futures |-> "queued"]
  /\ ready = {} /\ holder = [f \in Futures |-> Free] /\ sleepers = {}
  /\ wpc = [w \in Waiters |-> "idle"]
  /\ on \in [Waiters -> Futures]

-----------------------------------------------------------------------------
(* The pool's side *)

Submit(f) == Pool!Accept(f) /\ UNCHANGED <<futureState, waiterState>>
SubmitReturns(f) == Pool!Ack(f) /\ UNCHANGED <<futureState, waiterState>>
Close == Pool!Close /\ UNCHANGED <<futureState, waiterState>>

\* deque_destroy frees the wrappers that no worker has taken.
Drop(f) ==
  /\ stage[f] = "queued"
  /\ Pool!Drop({f})
  /\ UNCHANGED <<futureState, waiterState>>

-----------------------------------------------------------------------------
(* future_wrapper_func and SNEPPX_future_set_result, on a worker.          *)

\* fw->inner.func returns.
RunInner(f) ==
  /\ f \in Pool!Pending /\ stage[f] = "queued"
  /\ stage' = [stage EXCEPT ![f] = "ran"]
  /\ UNCHANGED <<poolState, ready, holder, sleepers, waiterState>>

\* Mutant of SetReady: set_result is called before the function.
SetReadyEarly(f) ==
  /\ f \in Pool!Pending /\ stage[f] \in {"queued", "ran"}
  /\ holder[f] = Free
  /\ ready' = ready \cup {f}
  /\ stage' = [stage EXCEPT ![f] = IF @ = "ran" THEN "set" ELSE @]
  /\ UNCHANGED <<poolState, holder, sleepers, waiterState>>

\* Mutant of SetReady: ready is written without the lock.
SetReadyUnlocked(f) ==
  /\ stage[f] = "ran"
  /\ ready' = ready \cup {f}
  /\ stage' = [stage EXCEPT ![f] = "set"]
  /\ UNCHANGED <<poolState, holder, sleepers, waiterState>>

\* result and ready, under fut->lock.
SetReady(f) ==
  /\ stage[f] = "ran" /\ holder[f] = Free
  /\ ready' = ready \cup {f}
  /\ stage' = [stage EXCEPT ![f] = "set"]
  /\ UNCHANGED <<poolState, holder, sleepers, waiterState>>

\* SNEPPX_cond_broadcast after the unlock; the wrapper is freed and returns.
Broadcast(f) ==
  /\ stage[f] = "set"
  /\ stage' = [stage EXCEPT ![f] = "told"]
  /\ sleepers' = {w \in sleepers : on[w] # f}
  /\ Pool!Complete(f)
  /\ UNCHANGED <<ready, holder, waiterState>>

-----------------------------------------------------------------------------
(* SNEPPX_future_wait; SNEPPX_future_get_result is wait and a read.        *)

WaitBegin(w) ==
  /\ wpc[w] \in {"idle", "got"}
  /\ \E f \in acked : on' = [on EXCEPT ![w] = f]
  /\ wpc' = [wpc EXCEPT ![w] = "enter"]
  /\ UNCHANGED <<poolState, futureState>>

\* With the lock: leave if ready, else keep the lock and go to cond_wait.
Test(w) ==
  /\ holder[on[w]] = Free
  /\ IF on[w] \in ready
     THEN /\ wpc' = [wpc EXCEPT ![w] = "got"]
          /\ UNCHANGED holder
     ELSE /\ wpc' = [wpc EXCEPT ![w] = "wait"]
          /\ holder' = [holder EXCEPT ![on[w]] = w]
  /\ UNCHANGED <<poolState, stage, ready, sleepers, on>>

WaitEnter(w) == wpc[w] = "enter" /\ Test(w)

\* SNEPPX_cond_wait releases the lock and blocks, in one step.
WaitSleep(w) ==
  /\ wpc[w] = "wait"
  /\ holder' = [holder EXCEPT ![on[w]] = Free]
  /\ sleepers' = sleepers \cup {w}
  /\ wpc' = [wpc EXCEPT ![w] = "asleep"]
  /\ UNCHANGED <<poolState, stage, ready, on>>

WaitWake(w) == wpc[w] = "asleep" /\ w \notin sleepers /\ Test(w)

\* POSIX lets cond_wait return without a signal.
SpuriousWake(w) ==
  /\ w \in sleepers
  /\ sleepers' = sleepers \ {w}
  /\ UNCHANGED <<poolState, stage, ready, holder, waiterState>>

-----------------------------------------------------------------------------
Wrapper(f) == RunInner(f) \/ SetReady(f) \/ Broadcast(f)
Waiter(w) == WaitBegin(w) \/ WaitEnter(w) \/ WaitSleep(w) \/ WaitWake(w)

Next == \/ \E f \in Futures : Submit(f) \/ SubmitReturns(f) \/ Drop(f) \/ Wrapper(f)
        \/ \E w \in Waiters : Waiter(w) \/ SpuriousWake(w)
        \/ Close

Spec == Init /\ [][Next]_vars

\* The pool runs what it accepted while it is open, a wrapper that has begun
\* goes on, and nobody who keeps asking for a lock is starved of it.
Fairness ==
  /\ \A f \in Futures : /\ WF_vars(~closed /\ RunInner(f))
                        /\ SF_vars(SetReady(f)) /\ WF_vars(Broadcast(f))
  /\ \A w \in Waiters : /\ SF_vars(WaitEnter(w)) /\ WF_vars(WaitSleep(w))
                        /\ SF_vars(WaitWake(w))

FairSpec == Spec /\ Fairness

-----------------------------------------------------------------------------
(* Properties *)

InWait(w) == wpc[w] \in {"enter", "wait", "asleep"}

\* A future says it is ready, to is_ready or by letting a wait return, only
\* after its task's function has returned; the future of a task that destroy
\* dropped never does.
ReadyMeansRun ==
  /\ \A f \in ready : stage[f] \in {"set", "told"} /\ f \notin dropped
  /\ \A w \in Waiters : wpc[w] = "got" => on[w] \in ready

\* Every wait on a submitted future returns, unless the pool is closed before
\* the task has run: no broadcast falls between a waiter's test and its sleep.
FutureWaitReturns ==
  \A w \in Waiters, f \in Futures :
    (InWait(w) /\ on[w] = f) ~> (wpc[w] = "got" \/ (closed /\ stage[f] = "queued"))
=============================================================================
