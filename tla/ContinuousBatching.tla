------------------------- MODULE ContinuousBatching -------------------------
(***************************************************************************)
(* ContinuousBatchScheduler and continuous_generate_loop of                *)
(* bindings/python/SneppX_ALG/interface_bindings/continuous_batching.py.   *)
(* Threads submit and cancel requests while one thread runs the generation *)
(* loop.  The methods of the scheduler are atomic under its lock, except   *)
(* that submit makes the id before it takes the lock.  A request's id is   *)
(* the pair of its millisecond and its number; tokens are only counted.    *)
(***************************************************************************)
EXTENDS Integers, Sequences, FiniteSets, SequencesExt

CONSTANTS
  Submitters,       \* threads that submit
  Requests,         \* the requests they may submit
  MaxNewTokens,     \* max_new_tokens of a request: a function on Requests
  Priority,         \* priority of a request: a function on Requests
  max_batch_size,
  MaxSteps,         \* max_steps
  YieldEvery,       \* results are yielded on every such step (10 in the code)
  MaxMs,            \* bound on the milliseconds that pass
  MaxCancels,       \* bound on the calls of cancel
  None

VARIABLES
  strategy,   \* config.schedule_strategy
  ms,         \* the clock
  nextId,     \* _next_id
  sub,        \* sub[s]: the thread's place in submit and its locals
  id,         \* id[r]: the id given to r, <<>> before
  pending,    \* _pending
  running,    \* _running: a set of requests with distinct ids
  completed,  \* _completed: the requests of the results
  lpc,        \* the loop: get, token, results, finish, done
  batch,      \* its batch, with the requests still to get a token
  step,
  tokens,     \* generated_tokens of each request
  yielded,    \* the requests whose results the loop has yielded
  dropped,    \* history: results taken from the scheduler and not yielded
  cancels,    \* the calls of cancel
  started, finished, cancelled   \* histories

clock == <<strategy, ms>>
clientVars == <<nextId, sub, id>>
queues == <<pending, running, completed>>
loopVars == <<lpc, batch, step, tokens, yielded, dropped>>
history == <<cancels, started, finished, cancelled>>
vars == <<clock, clientVars, queues, loopVars, history>>

Idle == [pc |-> "idle", r |-> None, k |-> 0]

Init ==
  /\ strategy \in {"fcfs", "priority"} /\ ms = 0
  /\ nextId = 0 /\ sub = [s \in Submitters |-> Idle] /\ id = [r \in Requests |-> <<>>]
  /\ pending = <<>> /\ running = {} /\ completed = <<>>
  /\ lpc = "get" /\ batch = <<>> /\ step = 0
  /\ tokens = [r \in Requests |-> 0] /\ yielded = {} /\ dropped = {}
  /\ cancels = 0 /\ started = {} /\ finished = {} /\ cancelled = {}

Tick == ms < MaxMs /\ ms' = ms + 1
        /\ UNCHANGED <<strategy, clientVars, queues, loopVars, history>>

-----------------------------------------------------------------------------
(* submit *)

\* The id is formed from the clock and _next_id ...
SubmitId(s, r) ==
  /\ sub[s].pc = "idle" /\ id[r] = <<>>
  /\ id' = [id EXCEPT ![r] = <<ms, nextId>>]
  /\ sub' = [sub EXCEPT ![s] = [pc |-> "load", r |-> r, k |-> 0]]
  /\ UNCHANGED <<clock, nextId, queues, loopVars, history>>

\* ... which is then advanced in two steps, ...
SubmitLoad(s) ==
  /\ sub[s].pc = "load"
  /\ sub' = [sub EXCEPT ![s].pc = "store", ![s].k = nextId]
  /\ UNCHANGED <<clock, nextId, id, queues, loopVars, history>>

SubmitStore(s) ==
  /\ sub[s].pc = "store"
  /\ nextId' = sub[s].k + 1
  /\ sub' = [sub EXCEPT ![s].pc = "append"]
  /\ UNCHANGED <<clock, id, queues, loopVars, history>>

\* ... and the request is appended under the lock.
SubmitAppend(s) ==
  /\ sub[s].pc = "append"
  /\ pending' = Append(pending, sub[s].r)
  /\ sub' = [sub EXCEPT ![s] = Idle]
  /\ UNCHANGED <<clock, nextId, id, running, completed, loopVars, history>>

-----------------------------------------------------------------------------
(* The scheduler under its lock *)

Sorted(q) ==
  LET before(i, j) == Priority[q[i]] > Priority[q[j]] \/ (Priority[q[i]] = Priority[q[j]] /\ i < j)
      order == SortSeq([i \in 1 .. Len(q) |-> i], before)
  IN [i \in 1 .. Len(q) |-> q[order[i]]]

slots_left == max_batch_size - Cardinality(running)

\* The order in which get_batch takes requests.
Queue == IF strategy = "fcfs" THEN pending ELSE Sorted(pending)

\* _running[req.id] = req, in turn: an entry with the same id is replaced.
Entered(S, q) ==
  {r \in S : \A i \in 1 .. Len(q) : id[q[i]] # id[r]}
    \cup {q[i] : i \in {k \in 1 .. Len(q) : \A j \in k + 1 .. Len(q) : id[q[j]] # id[q[k]]}}

\* get_batch
GetBatch ==
  /\ lpc = "get" /\ step < MaxSteps
  /\ LET n == IF slots_left > 0 THEN slots_left ELSE 0
         take == SubSeq(Queue, 1, IF n < Len(pending) THEN n ELSE Len(pending))
         active == SetToSeq(running) \o take
     IN /\ pending' = IF n > 0 THEN SubSeq(Queue, Len(take) + 1, Len(pending)) ELSE pending
        /\ running' = Entered(running, take)
        /\ started' = started \cup ToSet(take)
        /\ batch' = active
        /\ IF active = <<>> THEN step' = step + 1 /\ UNCHANGED lpc
                            ELSE lpc' = "token" /\ UNCHANGED step
  /\ UNCHANGED <<clock, clientVars, completed, tokens, yielded, dropped,
                 cancels, finished, cancelled>>

\* Mutant of complete: a request that is no longer running is completed too.
CompleteAnyway(r) ==
  /\ completed' = Append(completed, r)
  /\ finished' = finished \cup {r}
  /\ running' = running \ {r}

\* complete(id[r], ...): the running request with that id, if there is one.
complete(r) ==
  IF \E q \in running : id[q] = id[r]
  THEN LET q == CHOOSE x \in running : id[x] = id[r] IN
       /\ completed' = Append(completed, q)
       /\ finished' = finished \cup {q}
       /\ running' = running \ {q}
  ELSE UNCHANGED <<completed, finished, running>>

\* cancel: a pending request is not looked for.
Cancel(r) ==
  /\ id[r] # <<>> /\ cancels < MaxCancels
  /\ cancels' = cancels + 1
  /\ LET hit == {q \in running : id[q] = id[r]} IN
       /\ running' = running \ hit
       /\ cancelled' = cancelled \cup hit
  /\ UNCHANGED <<clock, clientVars, pending, completed, loopVars, started, finished>>

-----------------------------------------------------------------------------
(* continuous_generate_loop *)

\* One request of the batch gets its token, and is completed with its last.
Token ==
  /\ lpc = "token" /\ batch # <<>>
  /\ LET r == Head(batch) IN
       /\ tokens' = [tokens EXCEPT ![r] = @ + 1]
       /\ IF tokens[r] + 1 >= MaxNewTokens[r]
          THEN complete(r) ELSE UNCHANGED <<completed, finished, running>>
  /\ batch' = Tail(batch)
  /\ UNCHANGED <<clock, clientVars, pending, lpc, step, yielded, dropped,
                 cancels, started, cancelled>>

\* get_results, and a yield on every tenth step only.
Results ==
  /\ lpc = "token" /\ batch = <<>>
  /\ completed' = <<>>
  /\ IF step % YieldEvery = 0
     THEN yielded' = yielded \cup ToSet(completed) /\ UNCHANGED dropped
     ELSE dropped' = dropped \cup ToSet(completed) /\ UNCHANGED yielded
  /\ lpc' = "get" /\ step' = step + 1
  /\ UNCHANGED <<clock, clientVars, pending, running, batch, tokens, history>>

\* The loop is over: what still runs is completed one by one, ...
Finish ==
  /\ lpc = "get" /\ step = MaxSteps
  /\ lpc' = "finish" /\ batch' = SetToSeq(running)
  /\ UNCHANGED <<clock, clientVars, queues, step, tokens, yielded, dropped, history>>

Remaining ==
  /\ lpc = "finish" /\ batch # <<>>
  /\ complete(Head(batch))
  /\ batch' = Tail(batch)
  /\ UNCHANGED <<clock, clientVars, pending, lpc, step, tokens, yielded, dropped,
                 cancels, started, cancelled>>

\* ... and the last results are yielded.
LastYield ==
  /\ lpc = "finish" /\ batch = <<>>
  /\ yielded' = yielded \cup ToSet(completed) /\ completed' = <<>>
  /\ lpc' = "done"
  /\ UNCHANGED <<clock, clientVars, pending, running, batch, step, tokens, dropped, history>>

Next ==
  \/ Tick
  \/ \E s \in Submitters : SubmitLoad(s) \/ SubmitStore(s) \/ SubmitAppend(s)
  \/ \E s \in Submitters, r \in Requests : SubmitId(s, r)
  \/ \E r \in Requests : Cancel(r)
  \/ GetBatch \/ Token \/ Results \/ Finish \/ Remaining \/ LastYield

Spec == Init /\ [][Next]_vars

-----------------------------------------------------------------------------
(* Properties *)

\* A request that cancel took out of the running set produces no result, even
\* if the loop had it in its batch and generates its last token afterwards.
CancelledSilent == cancelled \cap finished = {}

\* Until completion: when the loop has ended, every request that it started
\* has been completed, unless it was cancelled.
StartedCompletes == lpc = "done" => started \subseteq finished \cup cancelled

\* No overtaking: when a request starts, no request stays behind that was
\* appended earlier (fcfs), or that has a higher priority.
StartsStep ==
  \A r \in started' \ started, i \in 1 .. Len(pending) :
    pending[i] \in ToSet(pending') =>
      IF strategy = "fcfs" THEN \E j \in 1 .. i - 1 : pending[j] = r
                           ELSE Priority[pending[i]] <= Priority[r]
NoOvertaking == [][StartsStep]_vars

\* Every result leaves the loop: a completed request is yielded in the end.
ResultsYielded == lpc = "done" => finished \subseteq yielded
=============================================================================
