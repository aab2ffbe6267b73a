---------------------------- MODULE MCThreadPool ----------------------------
(* Instances of ThreadPool for TLC. *)
EXTENDS ThreadPool, TLC

CONSTANTS t1, t2, t3

\* No task submits another.
Flat == [t \in Tasks |-> {}]

\* The first task submits the second one.
Nested == [t \in Tasks |-> IF t = t1 THEN {t2} ELSE {}]

Symmetric == Permutations(Tasks)
=============================================================================
