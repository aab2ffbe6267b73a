--------------------------- MODULE FaultTolerance ---------------------------
(***************************************************************************)
(* SNEPPX_FaultTolerance of kernel/distributed/checkpoint.c on rank Self:  *)
(* the heartbeat that judges the peers and the elastic trainer that keeps  *)
(* the topology, together.  The caller checks the health again and again,  *)
(* reports the peers it finds DEAD, and lets ranks join the trainer.       *)
(***************************************************************************)
EXTENDS Heartbeat, Elastic

CONSTANTS
  FT_MAX_RESTARTS   \* max_restarts of the manager

VARIABLES num_alive, alive_ranks, ft_restart_count

ftVars == <<num_alive, alive_ranks, ft_restart_count>>
vars == <<hbVars, et, ftVars>>

\* alive_ranks starts as flags; check_health writes a list of ranks into it.
Init ==
  /\ HbInit /\ ElInit
  /\ num_alive = World /\ alive_ranks = [i \in 1 .. World |-> 1]
  /\ ft_restart_count = 0

\* The list is written over the front of the array.
Overwrite(a, s) == [i \in 1 .. Len(a) |-> IF i <= Len(s) THEN s[i] ELSE a[i]]

\* sneppx_fault_tolerance_check_health
CheckHealth ==
  /\ check_alive
  /\ num_alive' = alive_count
  /\ alive_ranks' = Overwrite(alive_ranks, get_alive_ranks(peer_status'))
  /\ UNCHANGED <<et, ft_restart_count>>

\* sneppx_fault_tolerance_handle_failure(r): refused for a rank that is not
\* below the manager's own world_size, which never grows.
HandleFailure(r) ==
  /\ r \in et[Self].global_ranks \ {Self}
  /\ r < World => peer_status[r] = "DEAD"
  /\ r >= World => r \notin up
  /\ IF r >= World THEN UNCHANGED <<et, ft_restart_count>>
     ELSE LET e == handle_failure(et[Self], r) IN
          IF Handled(et[Self], r)
          THEN /\ et' = [et EXCEPT ![Self] = reconfigure(e)]
               /\ ft_restart_count' = e.restart_count
          ELSE et' = [et EXCEPT ![Self] = e] /\ UNCHANGED ft_restart_count
  /\ UNCHANGED <<hbVars, num_alive, alive_ranks>>

\* A rank starts and the caller lets it join; a rank that was given up for
\* dead may be one that runs.
Join(r) ==
  /\ r \notin et[Self].global_ranks /\ et[Self].version < MaxVersion
  /\ up' = up \cup {r}
  /\ et' = [et EXCEPT ![Self] = reconfigure(join(@, r))]
  /\ UNCHANGED <<peer_status, age, missed_count, net, ftVars>>

Next ==
  \/ HbEnvironment /\ UNCHANGED <<et, ftVars>>
  \/ CheckHealth
  \/ \E r \in 0 .. MaxJoin : HandleFailure(r) \/ Join(r)

Time == Tick /\ UNCHANGED <<et, ftVars>>
Lost(r, s) ==
  LET m == [rank |-> r, status |-> s] IN m \in net /\ Lose(m) /\ UNCHANGED <<et, ftVars>>

\* Time passes, the caller keeps checking and reports what it finds.
Fairness ==
  /\ WF_vars(Time) /\ WF_vars(CheckHealth)
  /\ \A r \in 0 .. MaxJoin : WF_vars(HandleFailure(r))
  /\ \A r \in 0 .. MaxJoin, s \in {"ALIVE", "LEAVE"} : WF_vars(Lost(r, s))

Spec == Init /\ [][Next]_vars /\ Fairness

-----------------------------------------------------------------------------
(* Properties *)

\* After a check the list holds the num_alive ranks that are not silent, in
\* order and without a repetition: the count of check_alive and the list of
\* get_alive_ranks are made by two passes and must agree.
CheckStep ==
  CheckHealth =>
    LET s == SubSeq(alive_ranks', 1, num_alive') IN
    s = SetToSortSeq({i \in 0 .. World - 1 : ~Silent(i)}, LAMBDA a, b : a < b)
ListMatchesCount == [][CheckStep]_vars

\* A rank that has crashed for good is eventually out of the topology, with
\* no call but the repeated checks and the reports of what they find.
CrashRemoved ==
  \A r \in 0 .. MaxJoin : []<>(r \in up \/ r \notin et[Self].global_ranks \/ r = Self)

\* The manager gives up after max_restarts recoveries.
RestartsBounded == ft_restart_count <= FT_MAX_RESTARTS
=============================================================================
