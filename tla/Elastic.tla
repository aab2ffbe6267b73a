------------------------------ MODULE Elastic ------------------------------
(***************************************************************************)
(* kernel/distributed/elastic.c: the topology that each member keeps, and  *)
(* the operations its caller reports joins, leaves and failures with.  The *)
(* array global_ranks is the set of the ranks marked alive; the callbacks  *)
(* are a barrier without effect here and a restore whose version is noted. *)
(***************************************************************************)
EXTENDS Integers, FiniteSets

CONSTANTS
  Members,        \* the ranks whose trainers are modelled
  FirstWorld,     \* world_size at the start
  MaxJoin,        \* the highest rank that may join
  MAX_RESTARTS,   \* SNEPPX_ELASTIC_MAX_RESTARTS
  MaxVersion      \* bound on the topology changes

VARIABLE et    \* et[m]: the SNEPPXElasticTraining of member m

\* SNEPPX_elastic_init.  restored is the version restored last, failed_at the
\* version at the last failure that was handled, 0 when there is none.
Fresh ==
  [world_size |-> FirstWorld, global_ranks |-> 0 .. FirstWorld - 1, version |-> 1,
   restart_count |-> 0, state |-> "OK", restored |-> 0, failed_at |-> 0]

ElInit == et = [m \in Members |-> Fresh]

\* SNEPPX_elastic_join
join(e, r) ==
  [e EXCEPT !.world_size = IF r >= @ THEN r + 1 ELSE @,
            !.global_ranks = @ \cup {r},
            !.version = @ + 1,
            !.state = "RECONFIG",
            !.failed_at = 0]

\* SNEPPX_elastic_leave, called by rank self; refused past world_size.
leave(e, self, r) ==
  IF r >= e.world_size THEN e
  ELSE LET left == e.global_ranks \ {r} IN
       [e EXCEPT !.global_ranks = left,
                 !.version = @ + 1,
                 !.failed_at = 0,
                 !.state = IF Cardinality(left) < e.world_size \div 2 THEN "LEAVING"
                           ELSE IF r = self THEN "FAILED" ELSE "RECONFIG"]

\* Mutant of handle_failure: the version stays.
HandleFailureSameVersion(e, r) ==
  IF r >= e.world_size THEN e
  ELSE [e EXCEPT !.global_ranks = @ \ {r}, !.restart_count = @ + 1, !.state = "RECONFIG"]

\* SNEPPX_elastic_handle_failure: past the limit the rank is gone all the same.
handle_failure(e, r) ==
  IF r >= e.world_size THEN e
  ELSE IF e.restart_count + 1 > MAX_RESTARTS
  THEN [e EXCEPT !.global_ranks = @ \ {r}, !.restart_count = @ + 1]
  ELSE [e EXCEPT !.global_ranks = @ \ {r}, !.restart_count = @ + 1,
                 !.restored = IF e.version - 1 < 1 THEN 1 ELSE e.version - 1,
                 !.failed_at = e.version,
                 !.version = @ + 1,
                 !.state = "RECONFIG"]

\* What handle_failure returns is 0.
Handled(e, r) == r < e.world_size /\ e.restart_count + 1 <= MAX_RESTARTS

\* SNEPPX_elastic_reconfigure
reconfigure(e) ==
  IF e.global_ranks = {} THEN e
  ELSE [e EXCEPT !.restored = e.version, !.state = "OK"]

\* SNEPPX_elastic_get_new_topology: the size and the rank.
NewRank(e, self) ==
  IF self \in e.global_ranks THEN Cardinality({i \in e.global_ranks : i < self}) ELSE self

NewSize(e) == IF e.global_ranks = {} THEN 1 ELSE Cardinality(e.global_ranks)

\* One call at a member, by a caller that reports only others as failed.
Call(m) ==
  /\ et[m].version < MaxVersion
  /\ \E r \in 0 .. MaxJoin :
       \/ et' = [et EXCEPT ![m] = join(@, r)]
       \/ et' = [et EXCEPT ![m] = leave(@, m, r)]
       \/ r # m /\ et[m].restart_count <= MAX_RESTARTS
          /\ et' = [et EXCEPT ![m] = handle_failure(@, r)]
Reconfigure(m) == et' = [et EXCEPT ![m] = reconfigure(@)]

ElNext == \E m \in Members : Call(m) \/ Reconfigure(m)
ElSpec == ElInit /\ [][ElNext]_et

\* Members that agree on who is alive, each of them among the alive, compute
\* the same size and distinct ranks below it, in whatever order they learnt
\* of the joins, leaves and failures (get_new_topology).
TopologyAgrees ==
  \A m, n \in Members :
    et[m].global_ranks = et[n].global_ranks /\ {m, n} \subseteq et[m].global_ranks =>
      /\ NewRank(et[m], m) \in 0 .. NewSize(et[m]) - 1
      /\ m # n => NewRank(et[m], m) # NewRank(et[n], n)

\* A version names one set of live ranks at a member: a call that changes the
\* set advances the version, unless it is refused at the limit of restarts.
VersionStep ==
  \A m \in Members :
    et'[m].global_ranks # et[m].global_ranks =>
      \/ et'[m].version > et[m].version
      \/ et'[m].restart_count > MAX_RESTARTS
VersionNamesTopology == [][VersionStep]_et

\* Versioned rollback: when a failure has been handled and the trainer is
\* reconfigured, the state restored last is not newer than the failure.
RollsBack ==
  \A m \in Members :
    et[m].state = "OK" /\ et[m].failed_at # 0 => et[m].restored <= et[m].failed_at
=============================================================================
