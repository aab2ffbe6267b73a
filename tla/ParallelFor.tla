----------------------------- MODULE ParallelFor -----------------------------
(***************************************************************************)
(* SNEPPX_parallel_for of kernel/thread/threadpool.c: one call, on top of  *)
(* the pool that TaskPool specifies.  The pool stays open during the call  *)
(* and runs only the call's chunks.                                        *)
(***************************************************************************)
EXTENDS Chunking, FiniteSets

CONSTANTS
  Calls,       \* the (start, end) pairs of the calls
  PoolSizes,   \* the possible values of pool->num_threads
  Caller

ASSUME CallAssumption ==
  /\ Calls \subseteq Sizes \X Sizes
  /\ PoolSizes \subseteq Nat \ {0}

VARIABLES
  accepted, acked, complete, dropped, closed, waiters, promise, \* the pool
  start, end, nthreads, \* the arguments
  chunk_size,
  s,         \* the loop variable
  pc,        \* control state of the caller
  processed  \* the chunks func has been called with, on whatever thread

poolState == <<accepted, acked, complete, dropped, closed, waiters, promise>>
args == <<start, end, nthreads>>
vars == <<poolState, args, chunk_size, s, pc, processed>>

Chunks == [k : Nat, lo : Sizes, hi : Sizes]
Pool == INSTANCE TaskPool WITH Tasks <- Chunks, Clients <- {Caller}

\* The chunk of this turn of the loop; k tells apart two chunks of one range.
Chunk == [k |-> Cardinality(accepted \cup processed),
          lo |-> s, hi |-> ChunkEnd(s, chunk_size, end)]

Init ==
  /\ Pool!Init
  /\ \E c \in Calls : start = c[1] /\ end = c[2]
  /\ nthreads \in PoolSizes
  /\ chunk_size = 0 /\ s = 0 /\ pc = "call" /\ processed = {}

range == RangeOf(start, end)

\* Nothing to do, or func(start, end, arg) on the caller.
CallInline ==
  /\ pc = "call"
  /\ range = 0 \/ RunsInline(nthreads, range)
  /\ processed' = IF range = 0 THEN {} ELSE {[k |-> 0, lo |-> start, hi |-> end]}
  /\ pc' = "returned"
  /\ UNCHANGED <<poolState, args, chunk_size, s>>

CallParallel ==
  /\ pc = "call"
  /\ range # 0 /\ ~RunsInline(nthreads, range)
  /\ chunk_size' = ChunkSize(range, nthreads)
  /\ s' = start
  /\ pc' = "loop"
  /\ UNCHANGED <<poolState, args, processed>>

\* The chunk goes to the pool: submit makes it visible to the workers, ...
SubmitChunk ==
  /\ pc = "loop" /\ s < end
  /\ Pool!Accept(Chunk)
  /\ pc' = "submit"
  /\ UNCHANGED <<args, chunk_size, s, processed>>

\* ... returns 0, and the loop goes on.
SubmitReturns ==
  /\ pc = "submit"
  /\ \E c \in accepted \ acked : Pool!Ack(c)
  /\ s' = NextStart(s, chunk_size)
  /\ pc' = "loop"
  /\ UNCHANGED <<args, chunk_size, processed>>

\* malloc of the task or submit fails: func(s, e, arg) on the caller.
ChunkInline ==
  /\ pc = "loop" /\ s < end
  /\ processed' = processed \cup {Chunk}
  /\ s' = NextStart(s, chunk_size)
  /\ UNCHANGED <<poolState, args, chunk_size, pc>>

\* for_task_func, on a worker.
for_task_func(c) ==
  /\ Pool!Complete(c)
  /\ processed' = processed \cup {c}
  /\ UNCHANGED <<args, chunk_size, s, pc>>

WaitBegin ==
  /\ pc = "loop" /\ s >= end
  /\ Pool!WaitBegin(Caller)
  /\ pc' = "wait"
  /\ UNCHANGED <<args, chunk_size, s, processed>>

\* Mutant of Return: the call does not wait for its chunks.
ReturnAtOnce ==
  /\ pc = "wait"
  /\ waiters' = {}
  /\ pc' = "returned"
  /\ UNCHANGED <<accepted, acked, complete, dropped, closed, promise, args,
                 chunk_size, s, processed>>

Return ==
  /\ pc = "wait"
  /\ Pool!WaitEnd(Caller)
  /\ pc' = "returned"
  /\ UNCHANGED <<args, chunk_size, s, processed>>

Next == \/ CallInline \/ CallParallel \/ SubmitChunk \/ SubmitReturns
        \/ ChunkInline \/ WaitBegin \/ Return
        \/ \E c \in accepted : for_task_func(c)

Spec == Init /\ [][Next]_vars

-----------------------------------------------------------------------------
(* Properties, for calls whose index arithmetic does not overflow.         *)

\* When parallel_for returns, func has been called on every index of
\* start .. end-1 exactly once, wherever each chunk ran.
ForCovers ==
  pc = "returned" => start > end \/ Tiles(processed, start, end)

\* func never runs on an index twice, nor at the same time on two threads.
ChunksDisjoint ==
  \A c, d \in accepted \cup processed : c # d => c.hi <= d.lo \/ d.hi <= c.lo
=============================================================================
