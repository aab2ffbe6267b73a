------------------------------ MODULE TaskPool ------------------------------
(***************************************************************************)
(* What the thread pool of kernel/thread/threadpool.c promises to the      *)
(* threads that use it (include/neural_core/kernel/                        *)
(* concurrent_workload_dispatch.h): a submitted task runs once, or is      *)
(* dropped because the pool was closed, and wait returns when everything   *)
(* whose submit had returned is complete.  There are no deques, workers,   *)
(* counters or locks here.  ThreadPoolRefines shows that ThreadPool        *)
(* implements this; the modules of parallel_for, parallel_reduce and the   *)
(* futures are built on it.                                                *)
(***************************************************************************)
CONSTANTS Tasks, Clients

VARIABLES
  accepted,  \* tasks some submit has made visible to the workers
  acked,     \* tasks whose submit has returned 0
  complete,  \* tasks whose function has returned
  dropped,   \* tasks that a closed pool threw away
  closed,    \* destroy has begun, or create has failed
  waiters,   \* the clients that are in wait
  promise    \* promise[c]: what c's last wait must see complete to return

poolState == <<accepted, acked, complete, dropped, closed, waiters,
               promise>>

Pending == accepted \ (complete \cup dropped)

Init ==
  /\ accepted = {} /\ acked = {} /\ complete = {} /\ dropped = {}
  /\ closed = FALSE
  /\ waiters = {} /\ promise = [c \in Clients |-> {}]

\* submit hands t over; the task may run from now on.
Accept(t) ==
  /\ ~closed /\ t \notin accepted
  /\ accepted' = accepted \cup {t}
  /\ UNCHANGED <<acked, complete, dropped, closed, waiters, promise>>

\* submit returns 0.
Ack(t) ==
  /\ t \in accepted \ acked
  /\ acked' = acked \cup {t}
  /\ UNCHANGED <<accepted, complete, dropped, closed, waiters, promise>>

\* The function of t returns, on some worker.
Complete(t) ==
  /\ t \in Pending
  /\ complete' = complete \cup {t}
  /\ UNCHANGED <<accepted, acked, dropped, closed, waiters, promise>>

Close ==
  /\ ~closed
  /\ closed' = TRUE
  /\ UNCHANGED <<accepted, acked, complete, dropped, waiters, promise>>

\* A closed pool throws tasks away that have not run.
Drop(S) ==
  /\ closed
  /\ S # {} /\ S \subseteq Pending
  /\ dropped' = dropped \cup S
  /\ UNCHANGED <<accepted, acked, complete, closed, waiters, promise>>

WaitBegin(c) ==
  /\ c \notin waiters
  /\ waiters' = waiters \cup {c}
  /\ promise' = [promise EXCEPT ![c] = acked]
  /\ UNCHANGED <<accepted, acked, complete, dropped, closed>>

WaitEnd(c) ==
  /\ c \in waiters
  /\ promise[c] \subseteq complete
  /\ waiters' = waiters \ {c}
  /\ UNCHANGED <<accepted, acked, complete, dropped, closed, promise>>

Next ==
  \/ \E t \in Tasks : Accept(t) \/ Ack(t) \/ Complete(t)
  \/ Close
  \/ \E S \in SUBSET Tasks : Drop(S)
  \/ \E c \in Clients : WaitBegin(c) \/ WaitEnd(c)

Spec == Init /\ [][Next]_poolState

\* What the pool owes its users while it is open: accepted tasks run, submit
\* returns and wait returns.
Fairness ==
  /\ \A t \in Tasks : /\ WF_poolState(~closed /\ Complete(t))
                      /\ WF_poolState(Ack(t))
  /\ \A c \in Clients : WF_poolState(WaitEnd(c))

FairSpec == Spec /\ Fairness
=============================================================================
