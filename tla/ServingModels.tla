--------------------------- MODULE ServingModels ---------------------------
(***************************************************************************)
(* The model catalogue of net/http/serving_engine.c: registration,         *)
(* promotion, rollback, traffic weights, routing, and the handlers of      *)
(* /v1/deploy and /v1/traffic.  The HTTP server runs every handler in a    *)
(* thread of its own and the engine has no lock, so a deployment is taken  *)
(* step by step; the other calls are single steps.                         *)
(***************************************************************************)
EXTENDS Integers, Sequences, FiniteSets, FiniteSetsExt, SequencesExt

CONSTANTS
  Workers,        \* the threads that handle requests
  Names, Ids,     \* model names and version ids
  MAX_MODELS, MAX_VERSIONS,
  Full,           \* 100 per cent
  Percents,       \* the percentages that requests carry, any integers
  YamlWeights,    \* the weights of the configuration file
  MaxDeploys      \* bound on the deployments

VARIABLES
  models,     \* models[i]: name, versions (id and weight) and active index
  job,        \* job[w]: the deployment that the worker is in
  deploys,
  asked       \* the last request to /v1/traffic that was answered ok

vars == <<models, job, deploys, asked>>

Idle == [pc |-> "idle", name |-> "", id |-> "", promote |-> FALSE, mi |-> 0]
NoRequest == [mi |-> 0, vi |-> 0, percent |-> 0]

Init == models = <<>> /\ job = [w \in Workers |-> Idle] /\ deploys = 0 /\ asked = NoRequest

\* model_index and version_index: the first that matches, 0 if there is none.
model_index(n) == SelectInSeq(models, LAMBDA m : m.name = n)
version_index(m, v) == SelectInSeq(m.versions, LAMBDA x : x.id = v)

\* All the weight on version i.
AllOn(vs, i) == [k \in DOMAIN vs |-> [vs[k] EXCEPT !.weight = IF k = i THEN Full ELSE 0]]

-----------------------------------------------------------------------------
(* handle_deploy: SNEPPX_serving_register_model, then the promotion *)

DeployFind(w, n, v, p) ==
  /\ job[w] = Idle /\ deploys < MaxDeploys /\ deploys' = deploys + 1
  /\ job' = [job EXCEPT ![w] = [pc |-> "enter", name |-> n, id |-> v, promote |-> p,
                                mi |-> model_index(n)]]
  /\ UNCHANGED <<models, asked>>

\* A name that was not found becomes a new model, if there is room.
DeployEnter(w) ==
  /\ job[w].pc = "enter"
  /\ IF job[w].mi # 0
     THEN job' = [job EXCEPT ![w].pc = "check"] /\ UNCHANGED models
     ELSE IF Len(models) >= MAX_MODELS
     THEN job' = [job EXCEPT ![w] = Idle] /\ UNCHANGED models
     ELSE /\ models' = Append(models, [name |-> job[w].name, versions |-> <<>>, active |-> 1])
          /\ job' = [job EXCEPT ![w].pc = "check", ![w].mi = Len(models) + 1]
  /\ UNCHANGED <<deploys, asked>>

Refused(m, v) == Len(m.versions) >= MAX_VERSIONS \/ version_index(m, v) # 0

DeployCheck(w) ==
  /\ job[w].pc = "check"
  /\ job' = [job EXCEPT ![w] = IF Refused(models[job[w].mi], job[w].id) THEN Idle
                               ELSE [@ EXCEPT !.pc = "append"]]
  /\ UNCHANGED <<models, deploys, asked>>

\* The first version of a model takes all the traffic.
DeployAppend(w) ==
  /\ job[w].pc = "append"
  /\ LET first == models[job[w].mi].versions = <<>> IN
     models' = [models EXCEPT
       ![job[w].mi].versions = Append(@, [id |-> job[w].id, weight |-> IF first THEN Full ELSE 0]),
       ![job[w].mi].active = IF first THEN 1 ELSE @]
  /\ job' = [job EXCEPT ![w].pc = "promote"]
  /\ UNCHANGED <<deploys, asked>>

\* SNEPPX_serving_set_active_version on the model of that name.
set_active_version(n, v) ==
  LET mi == model_index(n)
      vi == IF mi = 0 THEN 0 ELSE version_index(models[mi], v)
  IN models' = IF vi = 0 THEN models
               ELSE [models EXCEPT ![mi].active = vi, ![mi].versions = AllOn(@, vi)]

DeployPromote(w) ==
  /\ job[w].pc = "promote"
  /\ IF job[w].promote THEN set_active_version(job[w].name, job[w].id) ELSE UNCHANGED models
  /\ job' = [job EXCEPT ![w] = Idle]
  /\ UNCHANGED <<deploys, asked>>

-----------------------------------------------------------------------------
(* The other operations *)

Promote(n, v) == set_active_version(n, v) /\ UNCHANGED <<job, deploys, asked>>

\* SNEPPX_serving_rollback: the newest version goes.
Rollback(n) ==
  LET mi == model_index(n) IN
  /\ mi # 0 /\ Len(models[mi].versions) >= 2
  /\ LET left == Front(models[mi].versions)
         act == IF models[mi].active > Len(left) THEN 1 ELSE models[mi].active
     IN models' = [models EXCEPT ![mi].versions = AllOn(left, act), ![mi].active = act]
  /\ UNCHANGED <<job, deploys, asked>>

Clamped(p) == IF p < 0 THEN 0 ELSE IF p > Full THEN Full ELSE p

\* json_get_int finds a number only between quotes.
json_get_int(p, quoted) == IF quoted THEN p ELSE -1

\* SNEPPX_serving_set_weight, skipped for a percentage that is missing or negative.
set_weight(ms, mi, v, p) ==
  LET vi == IF mi = 0 THEN 0 ELSE version_index(ms[mi], v) IN
  IF p < 0 \/ vi = 0 THEN ms ELSE [ms EXCEPT ![mi].versions[vi].weight = Clamped(p)]

\* handle_traffic: version a and then version b; 404 if one is not found, but
\* the other is set all the same.
Traffic(n, a, b, pa, pb, quoted) ==
  LET mi == model_index(n)
      ia == json_get_int(pa, quoted)
      ib == json_get_int(pb, quoted)
      Found(v, p) == p >= 0 => mi # 0 /\ version_index(models[mi], v) # 0
      ok == Found(a, ia) /\ Found(b, ib)
      va == IF mi = 0 THEN 0 ELSE version_index(models[mi], a)
  IN /\ models' = set_weight(set_weight(models, mi, a, ia), mi, b, ib)
     /\ asked' = IF ok /\ va # 0 /\ a # b /\ pa \in 0 .. Full
                 THEN [mi |-> mi, vi |-> va, percent |-> pa] ELSE NoRequest
     /\ UNCHANGED <<job, deploys>>

\* The "model.<name>.canary" line of the configuration file.
ReloadWeight(n, x) ==
  LET mi == model_index(n) IN
  /\ mi # 0 /\ models[mi].versions # <<>> /\ x >= 0
  /\ models' = [models EXCEPT ![mi].versions[models[mi].active].weight = x]
  /\ UNCHANGED <<job, deploys, asked>>

Sum(vs, k) == FoldSeq(LAMBDA x, acc : x.weight + acc, 0, SubSeq(vs, 1, k))

\* Mutant of route: the remainder is used as it comes, from 0.
RouteFromZero(m, h) ==
  LET vs == m.versions
      total == Sum(vs, Len(vs))
      hit == {i \in 1 .. Len(vs) : h % total <= Sum(vs, i)}
  IN IF total <= 0 \/ hit = {} THEN m.active ELSE Min(hit)

\* SNEPPX_serving_route: the version that a request with hash h gets.
route(m, h) ==
  LET vs == m.versions
      total == Sum(vs, Len(vs))
      hit == {i \in 1 .. Len(vs) : (h % total) + 1 <= Sum(vs, i)}
  IN IF total <= 0 \/ hit = {} THEN m.active ELSE Min(hit)

Next ==
  \/ \E w \in Workers : DeployEnter(w) \/ DeployCheck(w) \/ DeployAppend(w) \/ DeployPromote(w)
  \/ \E w \in Workers, n \in Names, v \in Ids, p \in BOOLEAN : DeployFind(w, n, v, p)
  \/ \E n \in Names : Rollback(n) \/ \E v \in Ids : Promote(n, v)
  \/ \E n \in Names, a, b \in Ids, pa, pb \in Percents, q \in BOOLEAN : Traffic(n, a, b, pa, pb, q)
  \/ \E n \in Names, x \in YamlWeights : ReloadWeight(n, x)

Spec == Init /\ [][Next]_vars

-----------------------------------------------------------------------------
(* Properties *)

Serving == {i \in DOMAIN models : models[i].versions # <<>>}

\* The active index names a version, whatever rollbacks dropped versions.
ActiveValid == \A i \in Serving : models[i].active \in DOMAIN models[i].versions

\* A deployment that is refused with 409 keeps ids unique: no model has two
\* versions of one id, and no name two models.
DeployedOnce ==
  /\ \A i \in DOMAIN models : \A j, k \in DOMAIN models[i].versions :
       models[i].versions[j].id = models[i].versions[k].id => j = k
  /\ \A i, j \in DOMAIN models : models[i].name = models[j].name => i = j

\* Routing is weighted: of any run of as many hashes as there are shares,
\* every version gets exactly its weight.
WeightedShare ==
  \A i \in Serving :
    LET vs == models[i].versions
        total == Sum(vs, Len(vs))
    IN total > 0 => \A k \in DOMAIN vs :
         Cardinality({h \in 0 .. total - 1 : route(models[i], h) = k}) = vs[k].weight

\* A traffic share is at most all of it.
ShareInRange ==
  \A i \in DOMAIN models : \A k \in DOMAIN models[i].versions :
    models[i].versions[k].weight \in 0 .. Full

\* A rollback gives the full traffic back to the version that was active.
RollbackToActive ==
  [][\A n \in Names : Rollback(n) =>
       LET mi == model_index(n)
           was == models[mi].versions[models[mi].active].id
           now == models'[mi].versions[models'[mi].active]
       IN now.id = was /\ now.weight = Full]_vars

\* A traffic request that is answered ok has set the share it asked for.
TrafficApplied ==
  [][asked'.vi # 0 /\ asked' # asked =>
       models'[asked'.mi].versions[asked'.vi].weight = asked'.percent]_vars
=============================================================================
