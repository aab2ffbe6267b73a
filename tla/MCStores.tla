------------------------------ MODULE MCStores ------------------------------
(***************************************************************************)
(* The components that keep state between calls, on small instances, side  *)
(* by side: A/B updates, the serving engine's models, the memory pool, the *)
(* two checkpoint managers, the audit log, the containers, the cognitive   *)
(* stores, the data pipeline, the paged cache, admission, the hub and its  *)
(* local registry, continuous batching and the trainers' bookkeeping. They *)
(* share no state.  A behaviour is a behaviour of one of them, chosen at   *)
(* the start; the others stay in an initial state.                         *)
(***************************************************************************)
EXTENDS ABUpdate

CONSTANT NoValue   \* NULL, and no value

\* Two keys share each home slot of the hash table at every capacity up to 8.
PairHash == [k \in {"a", "b", "c", "d"} |->
  CASE k = "a" -> 0 [] k = "b" -> 8 [] k = "c" -> 2 [] k = "d" -> 10]

VARIABLES
  on,   \* the component of this behaviour
  models, servingJob, deploys, asked,
  pool, head, link, tls, held, chunks, mapped, granted, destroys, memTh,
  async_save, current_step, coordLast, mpc, coordWriter, coordFiles, listed, loaded, saves,
  crashes, given,
  trainPc, trainStep, work, metric, save, trainWriter, trainFiles, bests, list, starts, trainLast,
  second, stamps, prev_hash, old, auditCurrent, auditTh, restarts, failures, written,
  tree, redblackMap, looped, crashed,
  ht, dictMap,
  concepts, edges, graphAccess_counter, meant, graphRecency,
  skills, skillAccess_counter, learnt, skillRecency,
  buffers, num_samples, current_pos, indices, block, epoch, whole, zeroed, stale, loads, shuffles,
  free, refcounts, slots, live, table, op, who, need, kvGot, writes, leaked,
  now, doorTokens, last_refill, requests, connections, total, scores, events, syn_timestamps,
  blocked_ips, open, admitted, banned, calls,
  card, stored, hubPc, hubJob, hubLocal, hash, present, gone,
  strategy, ms, nextId, sub, id, pending, running, completed, lpc, batch, batchingStep,
  batchingTokens, yielded, dropped, cancels, started, finished, cancelled,
  peers, val, store, syncPc, todo, later, next, snap, failed, wire, broken, round,
  peer_status, age, missed_count, net, up, faultEt, num_alive, alive_ranks, ft_restart_count,
  elasticEt,
  registryLocal, server, registryGot, stock

update == vars
serving == <<models, servingJob, deploys, asked>>
mem == <<pool, head, link, tls, held, chunks, mapped, granted, destroys, memTh>>
coord == <<async_save, current_step, coordLast, mpc, coordWriter, coordFiles, listed, loaded, saves,
           crashes, given>>
train == <<trainPc, trainStep, work, metric, save, trainWriter, trainFiles, bests, list, starts,
           trainLast>>
audit == <<second, stamps, prev_hash, old, auditCurrent, auditTh, restarts, failures, written>>
redblack == <<tree, redblackMap, looped, crashed>>
dict == <<ht, dictMap>>
graph == <<concepts, edges, graphAccess_counter, meant, graphRecency>>
skill == <<skills, skillAccess_counter, learnt, skillRecency>>
data == <<buffers, num_samples, current_pos, indices, block, epoch, whole, zeroed, stale, loads,
          shuffles>>
kv == <<free, refcounts, slots, live, table, op, who, need, kvGot, writes, leaked>>
door == <<now, doorTokens, last_refill, requests, connections, total, scores, events, syn_timestamps,
          blocked_ips, open, admitted, banned, calls>>
hub == <<card, stored, hubPc, hubJob, hubLocal, hash, present, gone>>
batching == <<strategy, ms, nextId, sub, id, pending, running, completed, lpc, batch, batchingStep,
              batchingTokens, yielded, dropped, cancels, started, finished, cancelled>>
sync == <<peers, val, store, syncPc, todo, later, next, snap, failed, wire, broken, round>>
fault == <<peer_status, age, missed_count, net, up, faultEt, num_alive, alive_ranks, ft_restart_count>>
elastic == <<elasticEt>>
registry == <<registryLocal, server, registryGot, stock>>

Serving == INSTANCE ServingModels WITH
  Workers <- {"w"}, Names <- {"m"}, Ids <- {"a", "b", "c"}, MAX_MODELS <- 1, MAX_VERSIONS <- 2,
  Full <- 4, Percents <- {-1, 3}, YamlWeights <- {2}, MaxDeploys <- 3, job <- servingJob

Mem == INSTANCE MemPool WITH
  Threads <- {"t"}, BLOCKS <- 2, MaxChunks <- 2, TLS_MAX <- 1, MaxDestroys <- 1, Flushes <- TRUE,
  th <- memTh

MemTwo == INSTANCE MemPool WITH
  Threads <- {"t", "u"}, BLOCKS <- 2, MaxChunks <- 1, TLS_MAX <- 2, MaxDestroys <- 0,
  Flushes <- FALSE, th <- memTh

Coord == INSTANCE CheckpointCoord WITH
  Steps <- 0 .. 3, keep_last <- 2, AsyncModes <- {FALSE}, MaxSaves <- 4, MaxCrashes <- 0,
  None <- NoValue, last <- coordLast, writer <- coordWriter, files <- coordFiles

CoordAsync == INSTANCE CheckpointCoord WITH
  Steps <- 0 .. 3, keep_last <- 2, AsyncModes <- BOOLEAN, MaxSaves <- 3, MaxCrashes <- 1,
  None <- NoValue, last <- coordLast, writer <- coordWriter, files <- coordFiles

Train == INSTANCE CheckpointManager WITH
  keep_last <- 2, keep_best <- 2, Metrics <- {2, 5, 12}, MaxSteps <- 4, MaxStarts <- 1,
  Crashes <- FALSE, None <- NoValue, pc <- trainPc, step <- trainStep, writer <- trainWriter,
  files <- trainFiles, last <- trainLast

TrainAgain == INSTANCE CheckpointManager WITH
  keep_last <- 1, keep_best <- 1, Metrics <- {2, 5}, MaxSteps <- 3, MaxStarts <- 2,
  Crashes <- FALSE, None <- NoValue, pc <- trainPc, step <- trainStep, writer <- trainWriter,
  files <- trainFiles, last <- trainLast

Audit == INSTANCE AuditLogger WITH
  Callers <- {"c"}, MaxEvents <- 6, FileSize <- 2, max_files <- 3, MaxRestarts <- 0,
  MaxFailures <- 0, SameSecond <- FALSE, current <- auditCurrent, th <- auditTh

AuditFaults == INSTANCE AuditLogger WITH
  Callers <- {"c", "d"}, MaxEvents <- 4, FileSize <- 1, max_files <- 2, MaxRestarts <- 1,
  MaxFailures <- 1, SameSecond <- TRUE, current <- auditCurrent, th <- auditTh

Tree == INSTANCE RBTree WITH
  Keys <- 1 .. 8, Values <- {1}, Deletes <- "spared", map <- redblackMap

TreeValues == INSTANCE RBTree WITH
  Keys <- 1 .. 4, Values <- {1, 2}, Deletes <- "spared", map <- redblackMap

Table == INSTANCE HashTable WITH
  Keys <- {"a", "b", "c", "d"}, Values <- {"x", "y"}, Hash <- PairHash, InitialCapacity <- 4,
  ResizeTo <- {5, 8}, MaxCapacity <- 8, None <- NoValue, map <- dictMap

Graph == INSTANCE SemanticGraph WITH
  Keys <- {"a", "b", "c"}, NULL <- NoValue, MaxConcepts <- 2, MaxEdges <- 1, CopiesFail <- TRUE,
  MaxAccess <- 5, access_counter <- graphAccess_counter, recency <- graphRecency

GraphThree == INSTANCE SemanticGraph WITH
  Keys <- {"a", "b", "c", "d"}, NULL <- NoValue, MaxConcepts <- 3, MaxEdges <- 1,
  CopiesFail <- FALSE, MaxAccess <- 5, access_counter <- graphAccess_counter,
  recency <- graphRecency

Skill == INSTANCE SkillCache WITH
  States <- {"s", "t", "u"}, Skills <- {"k", "l"}, NULL <- NoValue, MaxSkills <- 2,
  Threshold <- 2, CopiesFail <- TRUE, MaxAccess <- 5, access_counter <- skillAccess_counter,
  recency <- skillRecency

Data == INSTANCE DataPipeline WITH
  batch_size <- 2, Sizes <- 1 .. 4, MaxLoads <- 2, MaxShuffles <- 2

Kv == INSTANCE PagedKV WITH
  NumBlocks <- 2, BlockSize <- 2, Tables <- {"s", "t", "u"}, Layers <- {0}, MaxPos <- 2,
  MaxStore <- 2, Values <- {"v"}, Zero <- "zero", None <- NoValue, got <- kvGot

Door == INSTANCE Admission WITH
  Ips <- {"i", "j"}, Capacity <- 2, Rate <- 1, MaxRequests <- 2, Window <- 2, MaxPerIp <- 3,
  MaxTotal <- 4, BanThreshold <- 7, Decay <- 2, SynThreshold <- 2, SynWindow <- 1, BanTime <- 2,
  Calls <- {"release", "ban", "unban", "cleanup", "available"}, MaxTime <- 3, MaxCalls <- 4,
  tokens <- doorTokens

DoorUnasked == INSTANCE Admission WITH
  Ips <- {"i", "j"}, Capacity <- 2, Rate <- 1, MaxRequests <- 3, Window <- 2, MaxPerIp <- 4,
  MaxTotal <- 6, BanThreshold <- 12, Decay <- 2, SynThreshold <- 2, SynWindow <- 1, BanTime <- 2,
  Calls <- {"release", "ban", "cleanup"}, MaxTime <- 3, MaxCalls <- 4, tokens <- doorTokens

Hub == INSTANCE HubServer WITH
  Versions <- {"v", "w"}, Files <- {"f", "g"}, Contents <- {"c", "d"}, NULL <- NoValue,
  Requests <- {1, 2}, MaxInFlight <- 1, pc <- hubPc, job <- hubJob, local <- hubLocal

Batching == INSTANCE ContinuousBatching WITH
  Submitters <- {"s"}, Requests <- 1 .. 3, MaxNewTokens <- <<2, 1, 1>>, Priority <- <<0, 0, 1>>,
  max_batch_size <- 2, MaxSteps <- 4, YieldEvery <- 2, MaxMs <- 1, MaxCancels <- 1,
  None <- NoValue, step <- batchingStep, tokens <- batchingTokens

Sync == INSTANCE ParamSync WITH
  N <- 3, Params <- 1, MaxRounds <- 2, MaxBreaks <- 0, pc <- syncPc

Fault == INSTANCE FaultTolerance WITH
  World <- 3, Self <- 1, Timeout <- 1, MaxNet <- 1, MaxRank <- 2, Members <- {1},
  FirstWorld <- 3, MaxJoin <- 2, MAX_RESTARTS <- 2, MaxVersion <- 2, FT_MAX_RESTARTS <- 3,
  et <- faultEt

Trainer == INSTANCE Elastic WITH
  Members <- {0, 1}, FirstWorld <- 2, MaxJoin <- 2, MAX_RESTARTS <- 1, MaxVersion <- 3,
  et <- elasticEt

Registry == INSTANCE LocalRegistry WITH
  Versions <- {<<1, 0, 0>>, <<1, 0, 9>>, <<1, 2, 0>>, <<9, 0, 1>>}, NULL <- NoValue,
  local <- registryLocal, got <- registryGot

Components ==
  {"update", "serving", "mem", "mem two", "coord", "coord async", "train", "train again",
   "audit", "audit faults", "redblack", "redblack values", "dict", "graph", "graph of three",
   "skill", "data", "kv", "door", "door unasked", "hub", "batching", "sync", "fault", "elastic",
   "registry"}

\* A component that is not the one of the behaviour has one initial state.
StInit ==
  /\ on \in Components
  /\ Init
  /\ Serving!Init
  /\ IF on = "mem two" THEN MemTwo!Init ELSE Mem!Init
  /\ IF on = "coord async" THEN CoordAsync!Init ELSE Coord!Init /\ (on # "coord async" => ~async_save)
  /\ IF on = "train again" THEN TrainAgain!Init ELSE Train!Init
  /\ IF on = "audit faults" THEN AuditFaults!Init ELSE Audit!Init
  /\ IF on = "redblack values" THEN TreeValues!Init ELSE Tree!Init
  /\ Table!Init
  /\ IF on = "graph of three" THEN GraphThree!Init ELSE Graph!Init
  /\ Skill!Init
  /\ Data!Init
  /\ Kv!Init
  /\ IF on = "door unasked" THEN DoorUnasked!Init ELSE Door!Init
  /\ Hub!Init
  /\ Batching!Init /\ (on # "batching" => strategy = "fcfs")
  /\ Sync!Init /\ (on # "sync" => peers = <<<<2, 3>>, <<1, 3>>, <<1, 2>>>>)
  /\ Fault!Init
  /\ Trainer!ElInit
  /\ Registry!Init /\ (on # "registry" => server = {})

Rest(group) ==
  /\ UNCHANGED on
  /\ IF group = "update" THEN TRUE ELSE UNCHANGED update
  /\ IF group = "serving" THEN TRUE ELSE UNCHANGED serving
  /\ IF group = "mem" THEN TRUE ELSE UNCHANGED mem
  /\ IF group = "coord" THEN TRUE ELSE UNCHANGED coord
  /\ IF group = "train" THEN TRUE ELSE UNCHANGED train
  /\ IF group = "audit" THEN TRUE ELSE UNCHANGED audit
  /\ IF group = "redblack" THEN TRUE ELSE UNCHANGED redblack
  /\ IF group = "dict" THEN TRUE ELSE UNCHANGED dict
  /\ IF group = "graph" THEN TRUE ELSE UNCHANGED graph
  /\ IF group = "skill" THEN TRUE ELSE UNCHANGED skill
  /\ IF group = "data" THEN TRUE ELSE UNCHANGED data
  /\ IF group = "kv" THEN TRUE ELSE UNCHANGED kv
  /\ IF group = "door" THEN TRUE ELSE UNCHANGED door
  /\ IF group = "hub" THEN TRUE ELSE UNCHANGED hub
  /\ IF group = "batching" THEN TRUE ELSE UNCHANGED batching
  /\ IF group = "sync" THEN TRUE ELSE UNCHANGED sync
  /\ IF group = "fault" THEN TRUE ELSE UNCHANGED fault
  /\ IF group = "elastic" THEN TRUE ELSE UNCHANGED elastic
  /\ IF group = "registry" THEN TRUE ELSE UNCHANGED registry

StNext ==
  \/ on = "update" /\ Next /\ Rest("update")
  \/ on = "serving" /\ Serving!Next /\ Rest("serving")
  \/ on = "mem" /\ Mem!Next /\ Rest("mem")
  \/ on = "mem two" /\ MemTwo!Next /\ Rest("mem")
  \/ on = "coord" /\ Coord!Next /\ Rest("coord")
  \/ on = "coord async" /\ CoordAsync!Next /\ Rest("coord")
  \/ on = "train" /\ Train!Next /\ Rest("train")
  \/ on = "train again" /\ TrainAgain!Next /\ Rest("train")
  \/ on = "audit" /\ Audit!Next /\ Rest("audit")
  \/ on = "audit faults" /\ AuditFaults!Next /\ Rest("audit")
  \/ on = "redblack" /\ Tree!Next /\ Rest("redblack")
  \/ on = "redblack values" /\ TreeValues!Next /\ Rest("redblack")
  \/ on = "dict" /\ Table!Next /\ Rest("dict")
  \/ on = "graph" /\ Graph!Next /\ Rest("graph")
  \/ on = "graph of three" /\ GraphThree!Next /\ Rest("graph")
  \/ on = "skill" /\ Skill!Next /\ Rest("skill")
  \/ on = "data" /\ Data!Next /\ Rest("data")
  \/ on = "kv" /\ Kv!Next /\ Rest("kv")
  \/ on = "door" /\ Door!Next /\ Rest("door")
  \/ on = "door unasked" /\ DoorUnasked!Next /\ Rest("door")
  \/ on = "hub" /\ Hub!Next /\ Rest("hub")
  \/ on = "batching" /\ Batching!Next /\ Rest("batching")
  \/ on = "sync" /\ Sync!Next /\ Rest("sync")
  \/ on = "fault" /\ Fault!Next /\ Rest("fault")
  \/ on = "elastic" /\ Trainer!ElNext /\ Rest("elastic")
  \/ on = "registry" /\ Registry!Next /\ Rest("registry")

StSpec ==
  StInit /\ [][StNext]_<<on, update, serving, mem, coord, train, audit, redblack, dict, graph, skill, data, kv, door, hub, batching, sync, fault, elastic, registry>>

-----------------------------------------------------------------------------
(* Properties *)

\* The active index of a model names a version, no model has two versions of
\* one id and no name two models, and of any run of as many hashes as there are
\* shares routing gives every version exactly its weight, whatever was
\* deployed, weighted and rolled back by one handler at a time.
RoutingSound ==
  on = "serving" => Serving!ActiveValid /\ Serving!DeployedOnce /\ Serving!WeightedShare

\* A block of the memory pool has one owner (a caller, a cache, a push in
\* progress or the stack) and none is lost: by one thread with overflows,
\* flushes and destroy, which also records every chunk, and by two as long as
\* no cache is given back while a pop is under way.  The count of a block of the
\* paged cache is the number of tables that hold it, and the free list holds
\* each block without a reference once.
BlocksAccounted ==
  /\ on = "mem" => Mem!OneOwner /\ Mem!NoBlockLost /\ Mem!ChunksRecorded
  /\ on = "mem two" => MemTwo!OneOwner /\ MemTwo!NoBlockLost
  /\ on = "kv" => Kv!RefsExact

\* A load that returns gives a state that was saved for the step it reports, in
\* whatever state a crash or a save under way has left the directory.  A
\* coordinator that saves synchronously keeps, at rest, the checkpoint saved
\* last and at most keep_last.
SavedIsLoaded ==
  /\ on = "coord async" => CoordAsync!LoadIntact
  /\ on = "coord" => Coord!KeepBounded /\ Coord!NewestKept

\* Once the trainer's save has returned and its writer has ended, load_latest
\* would restore what that save was given, and at most keep_best best files are
\* there.  The lowest metric has its file, whole, also after restarts between
\* two saves.  From the first save on there is a checkpoint that can be loaded,
\* also while the newest file is half written.
BestAndLatestKept ==
  /\ [](on = "train" => Train!LatestIsNewest /\ Train!BestBounded /\ Train!BestSurvives)
  /\ [](on = "train again" => TrainAgain!BestSurvives)
  /\ [][on = "train" => Train!StaysWhole]_train

\* An audit log that one caller wrote and nobody altered verifies, across
\* rotations, until retention removes its first file, and holds every write
\* that returned, in order.  With failing writes and restarts, two entries with
\* one predecessor come from processes that both began with the zero hash, and
\* besides the open file at most max_files are kept, and one more for each
\* process that ended without a rotation.
LogSound ==
  /\ on = "audit" => Audit!ChainVerifies /\ Audit!NoneLost
  /\ on = "audit faults" => AuditFaults!NoFork /\ AuditFaults!Retained

\* The red-black tree and the hash table are the maps that their calls made.
\* foreach of the tree visits the keys in order, size counts them, search,
\* successor and predecessor find them; inserts, and deletes that spare the
\* black leaves, leave it balanced and never enter the loop of delete_fixup with
\* a node.  A lookup in the table gives the value last inserted, through
\* tombstones, clear and resize, and count is what foreach visits.
ContainersAreMaps ==
  /\ on = "redblack" =>
       Tree!OrderedMap /\ Tree!Neighbours /\ Tree!Balanced /\ Tree!LoopUnreached
  /\ on = "redblack values" => TreeValues!OrderedMap
  /\ on = "dict" => Table!LookupAgrees /\ Table!CountExact

\* Slots are reused for other keys, yet a valid edge of the semantic graph
\* joins the concepts it was made for, and what learn last returned 0 for is
\* what recall finds, in exactly one skill, until it is evicted, whatever
\* copies fail in between.
SlotsKeepMeaning ==
  /\ on \in {"graph", "graph of three"} => Graph!EdgesMeanKeys
  /\ on = "skill" => Skill!RecallsLearnt

\* A full graph gives up the concept stored or scored longest ago, and learn no
\* skill but the one learnt or recalled longest ago.
LeastRecentGoes ==
  /\ [][(on \in {"graph", "graph of three"}) => Graph!EvictsStep]_graph
  /\ [][on = "skill" => Skill!EvictsStep]_skill

\* Within an epoch no sample is served twice, and an epoch that ends by itself
\* has served every sample, whatever was loaded, shuffled or out of memory.
EpochExact == on = "data" => Data!EpochExact

\* Sharing, copy on write, recycling and a MemoryError in the middle of an
\* operation are invisible: the paged cache implements SequenceStore, one
\* private, zeroed array per table and layer.
ImplementsSequenceStore ==
  Kv!Private!Init /\ [][on = "kv" => Kv!Private!Next]_(Kv!Private!contents)

\* No address gets more than max_requests through in any stretch of time as
\* long as the window, the total of connections is the sum of the addresses'
\* counts through refusals, releases, bans and clean-ups, and as long as nobody
\* asks for the tokens available the bucket lets through, in every interval, at
\* most what it holds and what flows in.
LimitsHold ==
  /\ on = "door" => Door!WindowBounded /\ Door!TotalIsSum
  /\ on = "door unasked" =>
       DoorUnasked!WindowBounded /\ DoorUnasked!TotalIsSum /\ DoorUnasked!BucketBounded

\* With one upload at a time, a file whose upload has returned is on the card
\* of its version until that is deleted or uploaded anew, with the hash of what
\* the storage has.  With numbers of one digit, the version that the local
\* registry gives as the latest is the newest of those it chose from.
CardsExact ==
  /\ on = "hub" => Hub!NoFileLost /\ Hub!CardExact
  /\ on = "registry" => Registry!LatestIsNewest

\* A request that cancel took out of the running set produces no result, even
\* if the loop had it in its batch; when the loop has ended, every request that
\* it started and nobody cancelled is complete; and a request starts only when
\* none stays behind that was appended earlier (fcfs) or has a higher priority.
BatchingSound ==
  /\ [](on = "batching" => Batching!CancelledSilent /\ Batching!StartedCompletes)
  /\ [][on = "batching" => Batching!StartsStep]_batching

\* Whatever two nodes hold or are about to receive for a parameter under the
\* same version and node_id is the same data, and the stored stamp never goes
\* back, in whatever order the peers' messages are taken.
StampsOrdered ==
  /\ [](on = "sync" => Sync!StampUnique)
  /\ [][on = "sync" => Sync!StampStep]_sync

\* A peer is thought SUSPECT or DEAD only while nothing has been heard from it
\* for longer than the timeout, and check_health lists exactly the ranks it
\* counts.  Members that agree on who is alive compute the same size and
\* distinct ranks below it, and a call that changes who is alive advances the
\* version, unless it is refused at the limit of restarts.
MembershipSound ==
  /\ [](on = "fault" => Fault!SuspectedOnlySilent)
  /\ [][on = "fault" => Fault!CheckStep]_fault
  /\ [](on = "elastic" => Trainer!TopologyAgrees)
  /\ [][on = "elastic" => Trainer!VersionStep]_elastic
=============================================================================
