-------------------------- MODULE ThreadPoolRefines --------------------------
(***************************************************************************)
(* ThreadPool implements TaskPool, for one client and tasks that submit no *)
(* other task (with nested submissions wait breaks its promise: see the    *)
(* run pool_nested).                                                       *)
(***************************************************************************)
EXTENDS MCThreadPool

Promise == INSTANCE TaskPool WITH
  accepted <- pushed,
  acked <- counted,
  complete <- finished,
  closed <- (shutdown \/ life \in {"failing", "gone"}),
  waiters <- {c \in Clients : cpc[c] = "scan"},
  promise <- target

\* Every step of the workers, the clients and the owner is a step the abstract
\* pool allows or none at all: tasks run once, are dropped only by a closed
\* pool and never after they ran, and wait keeps its promise.
ImplementsTaskPool == Promise!Spec

\* With a fair scheduler the pool also owes what the abstract pool owes: an
\* accepted task runs while the pool is open, submit returns, wait returns.
ImplementsFairTaskPool == Promise!FairSpec
=============================================================================
