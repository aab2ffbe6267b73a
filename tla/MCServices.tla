----------------------------- MODULE MCServices -----------------------------
(***************************************************************************)
(* The components that must make progress, on small instances, side by     *)
(* side: the ring, the synchronisation of parameters, the fault-tolerance  *)
(* manager, the HTTP server, the batches of the serving engine, the remote *)
(* audit log and the data loader.  They share no state.  A behaviour is a  *)
(* behaviour of one of them, chosen at the start; the others stay in an    *)
(* initial state.                                                          *)
(***************************************************************************)
EXTENDS RingAllReduce

VARIABLES
  on,   \* the component of this behaviour
  peers, val, store, syncPc, todo, later, next, snap, failed, syncWire, broken, round,
  peer_status, faultAge, missed_count, net, up, et, num_alive, alive_ranks, ft_restart_count,
  main, httpRunning, listening, stop, freed, conn, touched,
  pending_keys, pending_count, serveAge, max_batch_size, submitted, drained, serveOut, file,
  config_mtime, reload,
  prev_hash, auditLock, buffer, auditRunning, th, batch, fl, received, events, failures, links,
  loadN, loadBatch_size, drop_last, num_workers, pos, wpc, queue, buffers, loadPc, wi, loadOut

ring == vars
sync == <<peers, val, store, syncPc, todo, later, next, snap, failed, syncWire, broken, round>>
fault == <<peer_status, faultAge, missed_count, net, up, et, num_alive, alive_ranks, ft_restart_count>>
http == <<main, httpRunning, listening, stop, freed, conn, touched>>
serve == <<pending_keys, pending_count, serveAge, max_batch_size, submitted, drained, serveOut, file,
           config_mtime, reload>>
audit == <<prev_hash, auditLock, buffer, auditRunning, th, batch, fl, received, events, failures, links>>
load == <<loadN, loadBatch_size, drop_last, num_workers, pos, wpc, queue, buffers, loadPc, wi, loadOut>>

Sync == INSTANCE ParamSync WITH
  N <- 2, Params <- 2, MaxRounds <- 3, MaxBreaks <- 1, pc <- syncPc, wire <- syncWire

Fault == INSTANCE FaultTolerance WITH
  World <- 2, Self <- 1, Timeout <- 1, MaxNet <- 1, MaxRank <- 1, Members <- {1},
  FirstWorld <- 2, MaxJoin <- 1, MAX_RESTARTS <- 2, MaxVersion <- 3, FT_MAX_RESTARTS <- 3,
  age <- faultAge

Http == INSTANCE HttpServer WITH
  Conns <- {"c"}, HeaderLens <- {2, 5}, BodyLens <- {0, 2}, BufSize <- 6, HeaderLimit <- 3,
  NumMiddleware <- 2, num_threads <- 1, StopEarly <- FALSE, running <- httpRunning

Serve == INSTANCE ServingBatch WITH
  Slots <- 3, Timeout <- 2, InitialBatch <- 3, BatchSizes <- {1, 2}, Limits <- {1, 2},
  MaxSubmits <- 3, MaxEdits <- 1, age <- serveAge, out <- serveOut

Audit == INSTANCE RemoteAudit WITH
  Callers <- {"c"}, batch_size <- 5, MaxEvents <- 4, MaxFailures <- 2, lock <- auditLock,
  running <- auditRunning

Load == INSTANCE PrefetchLoader WITH
  Sizes <- {0, 1, 4, 5}, BatchSizes <- {2}, WorkerCounts <- 0 .. 3, prefetch <- 2, Raising <- {},
  n <- loadN, batch_size <- loadBatch_size, pc <- loadPc, out <- loadOut

Components ==
  {"ring", "sync", "fault", "http", "serve", "audit", "load"}

\* A component that is not the one of the behaviour has one initial state.
SvInit ==
  /\ on \in Components
  /\ Init /\ (on # "ring" => n = 0)
  /\ Sync!Init
  /\ Fault!Init
  /\ Http!Init
  /\ Serve!Init
  /\ Audit!Init
  /\ Load!Init /\ (on # "load" => loadN = 0 /\ num_workers = 1 /\ ~drop_last)

Rest(group) ==
  /\ UNCHANGED on
  /\ IF group = "ring" THEN TRUE ELSE UNCHANGED ring
  /\ IF group = "sync" THEN TRUE ELSE UNCHANGED sync
  /\ IF group = "fault" THEN TRUE ELSE UNCHANGED fault
  /\ IF group = "http" THEN TRUE ELSE UNCHANGED http
  /\ IF group = "serve" THEN TRUE ELSE UNCHANGED serve
  /\ IF group = "audit" THEN TRUE ELSE UNCHANGED audit
  /\ IF group = "load" THEN TRUE ELSE UNCHANGED load

SvNext ==
  \/ on = "ring" /\ Next /\ Rest("ring")
  \/ on = "sync" /\ Sync!Next /\ Rest("sync")
  \/ on = "fault" /\ Fault!Next /\ Rest("fault")
  \/ on = "http" /\ Http!Next /\ Rest("http")
  \/ on = "serve" /\ Serve!Next /\ Rest("serve")
  \/ on = "audit" /\ Audit!Next /\ Rest("audit")
  \/ on = "load" /\ Load!Next /\ Rest("load")

\* The fairness of each component's own specification, in its behaviours.
SvFairness ==
  /\ \A r \in Ranks : WF_ring(on = "ring" /\ Ring(r))
  /\ \A m \in 1 .. 2 : WF_sync(on = "sync" /\ Sync!Step(m))
  /\ WF_fault(on = "fault" /\ Fault!Time) /\ WF_fault(on = "fault" /\ Fault!CheckHealth)
  /\ \A r \in 0 .. 1 :
       /\ WF_fault(on = "fault" /\ Fault!HandleFailure(r))
       /\ \A s \in {"ALIVE", "LEAVE"} : WF_fault(on = "fault" /\ Fault!Lost(r, s))
  /\ WF_http(on = "http" /\ Http!StartRunning) /\ WF_http(on = "http" /\ Http!AcceptEnds)
  /\ WF_http(on = "http" /\ Http!StopClose)
  /\ WF_http(on = "http" /\ Http!Worker("c")) /\ WF_http(on = "http" /\ Http!Accept("c"))
  /\ WF_serve(on = "serve" /\ Serve!Tick)
  /\ \A max \in {1, 2} : WF_serve(on = "serve" /\ Serve!Drain(max))
  /\ WF_audit(on = "audit" /\ Audit!SetPrev("c")) /\ WF_audit(on = "audit" /\ Audit!Enqueue("c"))
  /\ WF_audit(on = "audit" /\ Audit!Take(Audit!Worker))
  /\ \A f \in Audit!Flushers :
       /\ WF_audit(on = "audit" /\ (Audit!Post(f) \/ Audit!PostFails(f)))
       /\ WF_audit(on = "audit" /\ Audit!Requeue(f))
  /\ WF_load(on = "load" /\ Load!Caller)
  /\ \A w \in 1 .. 3 : WF_load(on = "load" /\ w \in Load!Workers /\ Load!Worker(w))

SvSpec ==
  SvInit /\ [][SvNext]_<<on, ring, sync, fault, http, serve, audit, load>> /\ SvFairness

-----------------------------------------------------------------------------
(* Properties *)

\* An HTTP request is handled with its whole body, however it was cut into
\* packets, unless its header never ended, and no handler runs after a
\* middleware has refused it.
RequestsWhole == Http!BodyWhole /\ Http!ShortCircuit

\* What goes in comes out, complete and in order.  Drains hand out the keys
\* submitted to the serving engine, across resizes of the batch, while no more
\* are pending than there are slots.  The remote log loses and reorders no
\* event when posts fail.  The loader's round-robin merge undoes the strided
\* split whatever its workers' speeds, and yields every sample but for a short
\* batch that drop_last drops.
DeliveredInOrder ==
  /\ Serve!KeysInOrder
  /\ Audit!NoEventLost /\ Audit!InOrder
  /\ Load!InOrder /\ Load!AllYielded

\* Calls that wait for somebody return: a rank's call unless a rank panics,
\* sync_params also when a connection breaks in the middle of it, start of the
\* HTTP server after a stop that did not come before the store of running, a
\* write of the remote log as long as none fills a batch, and an iteration of
\* the loader if the dataset raises no exception.
CallsReturn ==
  /\ on = "ring" => Terminates
  /\ Sync!SyncReturns
  /\ Http!StopReturns
  /\ Audit!WritesReturn
  /\ on = "load" => Load!IterationEnds

\* Accepted work gets done: an HTTP request that has arrived and fits into the
\* buffer is answered, a submitted key gets into a batch, full or timed out, an
\* event in the buffer of an open remote log reaches the server, and every
\* worker of the loader puts its sentinel.
WorkCompletes ==
  /\ Http!Answered
  /\ Serve!EventuallyDrained
  /\ Audit!Delivered
  /\ on = "load" /\ num_workers > 0 => Load!SentinelComes

\* A rank that has crashed for good is in the end out of the topology, with
\* no call but the repeated checks and the reports of what they find, if its
\* rank is one of the first world_size.
CrashRemoved == Fault!CrashRemoved
=============================================================================
