--------------------------- MODULE ParallelReduce ---------------------------
(***************************************************************************)
(* SNEPPX_parallel_reduce of kernel/thread/threadpool.c: one call, on top  *)
(* of the pool that TaskPool specifies.  A value of the reduced type is    *)
(* the sequence of pieces it was reduced and combined from, so neither     *)
(* commutativity nor a neutral element of combine_func is assumed.         *)
(***************************************************************************)
EXTENDS Chunking, FiniteSets, SequencesExt

CONSTANTS
  Calls,       \* the (start, end) pairs of the calls
  PoolSizes,   \* the possible values of pool->num_threads
  Caller

ASSUME CallAssumption ==
  /\ Calls \subseteq Sizes \X Sizes
  /\ PoolSizes \subseteq Nat \ {0}

VARIABLES
  accepted, acked, complete, dropped, closed, waiters, promise, \* the pool
  start, end, init, nthreads, \* the arguments
  chunk_size, max_chunks,
  s,                \* the loop variable
  chunks_submitted,
  heap,             \* the partials buffer: none, live or freed
  partials,         \* its elements
  result,
  failed,           \* history: an allocation or a submit has failed
  pc                \* control state of the caller

poolState == <<accepted, acked, complete, dropped, closed, waiters, promise>>
args == <<start, end, init, nthreads>>
loop == <<chunk_size, max_chunks, s, chunks_submitted>>
memory == <<heap, partials, result>>
vars == <<poolState, args, loop, memory, failed, pc>>

\* The tasks: which slot of partials a chunk is reduced into, and the chunk.
Chunks == [slot : Nat, lo : Sizes, hi : Sizes]
Pool == INSTANCE TaskPool WITH Tasks <- Chunks, Clients <- {Caller}

Zero == <<>>
Piece(lo, hi) == [of |-> "range", lo |-> lo, hi |-> hi]
InitPiece == [of |-> "init", lo |-> 0, hi |-> 0]

\* reduce_func(lo, hi, arg, value)
Reduced(value, lo, hi) == Append(value, Piece(lo, hi))

range == RangeOf(start, end)
InitValue == IF init THEN <<InitPiece>> ELSE Zero

Init ==
  /\ Pool!Init
  /\ \E c \in Calls : start = c[1] /\ end = c[2]
  /\ init \in BOOLEAN /\ nthreads \in PoolSizes
  /\ chunk_size = 0 /\ max_chunks = 0 /\ s = 0 /\ chunks_submitted = 0
  /\ heap = "none" /\ partials = <<>> /\ result = Zero
  /\ failed = FALSE /\ pc = "call"

-----------------------------------------------------------------------------
\* An empty range gives init; a short one is reduced into a zeroed result.
CallInline ==
  /\ pc = "call"
  /\ range = 0 \/ RunsInline(nthreads, range)
  /\ result' = IF range = 0 THEN InitValue ELSE Reduced(Zero, start, end)
  /\ pc' = "returned"
  /\ UNCHANGED <<poolState, args, loop, heap, partials, failed>>

\* num_chunks = (range + chunk_size - 1) / chunk_size
NumChunks(chunk) == ((range + chunk - 1) % SizeT) \div chunk

\* partials is allocated: max_chunks zeroed elements.
CallParallel ==
  /\ pc = "call"
  /\ range # 0 /\ ~RunsInline(nthreads, range)
  /\ LET chunk == ChunkSize(range, nthreads)
         num == NumChunks(chunk)
         max == IF num < nthreads THEN num ELSE nthreads
     IN /\ chunk_size' = chunk /\ max_chunks' = max
        /\ partials' = [i \in 0 .. max - 1 |-> Zero]
  /\ heap' = "live"
  /\ result' = InitValue
  /\ s' = start
  /\ pc' = "loop"
  /\ UNCHANGED <<poolState, args, chunks_submitted, failed>>

\* calloc fails: the caller reduces the whole range, on top of init.
CallocFails ==
  /\ pc = "call"
  /\ range # 0 /\ ~RunsInline(nthreads, range)
  /\ result' = Reduced(InitValue, start, end)
  /\ failed' = TRUE
  /\ pc' = "returned"
  /\ UNCHANGED <<poolState, args, loop, heap, partials>>

Chunk == [slot |-> chunks_submitted, lo |-> s, hi |-> ChunkEnd(s, chunk_size, end)]

\* chunks_submitted++ and s += chunk_size
Advance ==
  /\ chunks_submitted' = chunks_submitted + 1
  /\ s' = NextStart(s, chunk_size)
  /\ UNCHANGED <<chunk_size, max_chunks>>

\* The chunk goes to the pool: submit makes it visible to the workers, ...
SubmitChunk ==
  /\ pc = "loop" /\ s < end
  /\ Pool!Accept(Chunk)
  /\ pc' = "submit"
  /\ UNCHANGED <<args, loop, memory, failed>>

\* ... returns 0, and the loop goes on.
SubmitReturns ==
  /\ pc = "submit"
  /\ \E c \in accepted \ acked : Pool!Ack(c)
  /\ Advance
  /\ pc' = "loop"
  /\ UNCHANGED <<args, memory, failed>>

\* submit fails; its result is ignored and the slot stays zero.
SubmitFails ==
  /\ pc = "loop" /\ s < end
  /\ Advance
  /\ failed' = TRUE
  /\ UNCHANGED <<poolState, args, memory, pc>>

\* malloc of a task fails: this chunk is reduced into result, partials is
\* freed and the call returns, whatever the tasks already submitted do.
MallocFails ==
  /\ pc = "loop" /\ s < end
  /\ result' = Reduced(result, s, ChunkEnd(s, chunk_size, end))
  /\ heap' = "freed"
  /\ failed' = TRUE
  /\ pc' = "returned"
  /\ UNCHANGED <<poolState, args, loop, partials>>

\* reduce_task_func, on a worker.  What a write to a freed buffer does is not
\* modelled.
reduce_task_func(c) ==
  /\ Pool!Complete(c)
  /\ partials' = IF heap = "live"
                 THEN [partials EXCEPT ![c.slot] = Reduced(Zero, c.lo, c.hi)]
                 ELSE partials
  /\ UNCHANGED <<args, loop, heap, result, failed, pc>>

WaitBegin ==
  /\ pc = "loop" /\ s >= end
  /\ Pool!WaitBegin(Caller)
  /\ pc' = "wait"
  /\ UNCHANGED <<args, loop, memory, failed>>

\* Mutant of Combined: the loop over the other partials starts at 0.
CombinedTwice == partials[0] \o FlattenSeq([i \in 1 .. chunks_submitted |-> partials[i - 1]])

\* result = partials[0], then combine_func with each of the others in turn.
Combined == FlattenSeq([i \in 1 .. chunks_submitted |-> partials[i - 1]])

\* wait returns; the partials are combined into result and freed.
Return ==
  /\ pc = "wait"
  /\ Pool!WaitEnd(Caller)
  /\ result' = IF chunks_submitted > 0 THEN Combined ELSE result
  /\ heap' = "freed"
  /\ pc' = "returned"
  /\ UNCHANGED <<args, loop, partials, failed>>

Next == \/ CallInline \/ CallParallel \/ CallocFails \/ SubmitChunk
        \/ SubmitReturns \/ SubmitFails \/ MallocFails \/ WaitBegin \/ Return
        \/ \E c \in accepted : reduce_task_func(c)

Spec == Init /\ [][Next]_vars

-----------------------------------------------------------------------------
(* Properties, for calls whose index arithmetic does not overflow.         *)

\* Unless memory ran out, the result of a call on a range that is not empty
\* combines every index of the range once, in the order of the indices,
\* whatever order the workers reduced the chunks in.
ReduceInOrder ==
  (pc = "returned" /\ ~failed /\ start < end) =>
    /\ Len(result) > 0
    /\ result[1].lo = start /\ result[Len(result)].hi = end
    /\ \A i \in 1 .. Len(result) : result[i].of = "range"
    /\ \A i \in 1 .. Len(result) - 1 : result[i].hi = result[i + 1].lo

\* The slots the loop hands out lie inside the partials buffer.
SlotsInBounds == \A c \in accepted : c.slot < max_chunks

\* A task reduces into a partial result buffer that its caller still owns.
PartialsAlive == heap = "freed" => Pool!Pending = {}
=============================================================================
