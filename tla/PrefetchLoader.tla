--------------------------- MODULE PrefetchLoader ---------------------------
(***************************************************************************)
(* One iteration of the DataLoader of data_loader.py: in the caller's      *)
(* thread without workers, or with prefetch threads whose bounded queues   *)
(* the caller merges in turn.  The indices, shuffled or from a sampler,    *)
(* are numbered in the order that _indices gives them, and a batch is the  *)
(* sequence of its indices; collating and pinning keep what is in it.      *)
(***************************************************************************)
EXTENDS Integers, Sequences, SequencesExt, FiniteSetsExt

CONSTANTS
  Sizes,        \* the dataset sizes tried
  BatchSizes,   \* the values of batch_size
  WorkerCounts, \* the values of num_workers
  prefetch,     \* the bound of a worker's queue
  Raising       \* the indices whose access raises in a worker

VARIABLES
  n, batch_size, drop_last, num_workers,  \* the loader's parameters
  pos,      \* pos[w]: how many indices worker w has taken
  wpc,      \* wpc[w]: "loop", "put", "end" (sentinel put) or "raised"
  queue,    \* queue[w]: batches, and <<>> for the sentinel None
  buffers,  \* buffers[w]: the next batch of worker w, <<>> for None
  pc, wi,   \* the caller: "prime", "scan", "refill", "single", "done"; a worker
  out       \* the batches yielded

params == <<n, batch_size, drop_last, num_workers>>
vars == <<params, pos, wpc, queue, buffers, pc, wi, out>>

Workers == 1 .. num_workers
Sentinel == <<>>

Init ==
  /\ n \in Sizes /\ batch_size \in BatchSizes /\ drop_last \in BOOLEAN
  /\ num_workers \in WorkerCounts
  /\ pos = [w \in Workers |-> 0] /\ wpc = [w \in Workers |-> "loop"]
  /\ queue = [w \in Workers |-> <<>>] /\ buffers = [w \in Workers |-> Sentinel]
  /\ pc = IF num_workers > 0 THEN "prime" ELSE "single"
  /\ wi = 1 /\ out = <<>>

-----------------------------------------------------------------------------
(* _PrefetchWorker._run *)

\* indices[p :: num_workers] for the worker w = p + 1.
Chunk(w) == [k \in 1 .. (n - w + num_workers) \div num_workers |->
               (w - 1) + (k - 1) * num_workers]

Fetch(w) ==
  /\ wpc[w] = "loop" /\ pos[w] < Len(Chunk(w))
  /\ pos' = [pos EXCEPT ![w] = @ + 1]
  /\ wpc' = [wpc EXCEPT ![w] =
               IF Chunk(w)[pos[w] + 1] \in Raising THEN "raised" ELSE "put"]
  /\ UNCHANGED <<params, queue, buffers, pc, wi, out>>

Put(w) ==
  /\ wpc[w] = "put" /\ Len(queue[w]) < prefetch
  /\ queue' = [queue EXCEPT ![w] = Append(@, <<Chunk(w)[pos[w]]>>)]
  /\ wpc' = [wpc EXCEPT ![w] = "loop"]
  /\ UNCHANGED <<params, pos, buffers, pc, wi, out>>

PutSentinel(w) ==
  /\ wpc[w] = "loop" /\ pos[w] = Len(Chunk(w)) /\ Len(queue[w]) < prefetch
  /\ queue' = [queue EXCEPT ![w] = Append(@, Sentinel)]
  /\ wpc' = [wpc EXCEPT ![w] = "end"]
  /\ UNCHANGED <<params, pos, buffers, pc, wi, out>>

-----------------------------------------------------------------------------
(* _iter_workers *)

\* Each worker's first batch is waited for, in turn.
Prime ==
  /\ pc = "prime" /\ queue[wi] # <<>>
  /\ buffers' = [buffers EXCEPT ![wi] = Head(queue[wi])]
  /\ queue' = [queue EXCEPT ![wi] = Tail(@)]
  /\ IF wi < num_workers THEN wi' = wi + 1 /\ pc' = pc ELSE wi' = 1 /\ pc' = "scan"
  /\ UNCHANGED <<params, pos, wpc, out>>

\* The condition of the outer loop, evaluated before the first worker's turn.
LoopEnds == \A w \in Workers : buffers[w] = Sentinel

Turn(w) == IF w < num_workers THEN w + 1 ELSE 1

Yield ==
  /\ pc = "scan" /\ ~(wi = 1 /\ LoopEnds) /\ buffers[wi] # Sentinel
  /\ out' = Append(out, buffers[wi]) /\ pc' = "refill"
  /\ UNCHANGED <<params, pos, wpc, queue, buffers, wi>>

Skip ==
  /\ pc = "scan" /\ ~(wi = 1 /\ LoopEnds) /\ buffers[wi] = Sentinel
  /\ wi' = Turn(wi)
  /\ UNCHANGED <<params, pos, wpc, queue, buffers, pc, out>>

\* The caller came back for more.
Refill ==
  /\ pc = "refill" /\ queue[wi] # <<>>
  /\ buffers' = [buffers EXCEPT ![wi] = Head(queue[wi])]
  /\ queue' = [queue EXCEPT ![wi] = Tail(@)]
  /\ wi' = Turn(wi) /\ pc' = "scan"
  /\ UNCHANGED <<params, pos, wpc, out>>

\* The workers are told to stop; each has put its sentinel by then.
Finish ==
  /\ pc = "scan" /\ wi = 1 /\ LoopEnds /\ pc' = "done"
  /\ UNCHANGED <<params, pos, wpc, queue, buffers, wi, out>>

-----------------------------------------------------------------------------
(* _iter_single, and __len__ *)

\* One round of the loop; wi - 1 is the index at which the batch starts.
Single ==
  LET b == SetToSortSeq((wi - 1) .. Min({wi + batch_size - 2, n - 1}), <)
  IN /\ pc = "single" /\ wi <= n /\ wi' = wi + batch_size
     /\ out' = IF drop_last /\ Len(b) < batch_size THEN out ELSE Append(out, b)
     /\ UNCHANGED <<params, pos, wpc, queue, buffers, pc>>

SingleEnds ==
  /\ pc = "single" /\ wi > n /\ pc' = "done"
  /\ UNCHANGED <<params, pos, wpc, queue, buffers, wi, out>>

len == IF drop_last THEN n \div batch_size ELSE (n + batch_size - 1) \div batch_size

Caller == Prime \/ Yield \/ Skip \/ Refill \/ Finish \/ Single \/ SingleEnds
Worker(w) == Fetch(w) \/ Put(w) \/ PutSentinel(w)

Next == Caller \/ \E w \in Workers : Worker(w)

\* Threads run; the caller goes on to the end of the iteration.
FairSpec ==
  /\ Init /\ [][Next]_vars /\ WF_vars(Caller)
  /\ \A w \in 1 .. Max(WorkerCounts \cup {0}) : WF_vars(w \in Workers /\ Worker(w))

-----------------------------------------------------------------------------
(* Properties *)

\* However the workers' speeds differ, the caller gets the samples in the
\* order of the indices: the round-robin merge undoes the strided split.
InOrder == LET s == FlattenSeq(out) IN \A k \in 1 .. Len(s) : s[k] = k - 1

\* An iteration that ends has yielded every sample, but for a last short batch
\* that drop_last drops in the caller's own loop.
AllYielded ==
  pc = "done" =>
    Len(FlattenSeq(out)) = IF num_workers = 0 /\ drop_last
                           THEN n - (n % batch_size) ELSE n

\* The iteration ends: the caller never waits for a worker that has ended.
IterationEnds == <>(pc = "done")

\* Every worker puts its sentinel in the end.
SentinelComes == <>(\A w \in Workers : wpc[w] = "end")

\* An iteration yields as many batches as len(loader) says.
LenAgrees == pc = "done" => Len(out) = len
=============================================================================
