-------------------------- MODULE ParallelForProofs --------------------------
(***************************************************************************)
(* SNEPPX_parallel_for calls func once on every index, for every width of  *)
(* size_t, threshold, pool size and range whose index arithmetic does not  *)
(* overflow, and wherever and in whatever order the chunks run.  A call    *)
(* with start > end is allowed and has nothing to cover.                   *)
(***************************************************************************)
EXTENDS ParallelFor, TLAPS

\* The calls the theorems are about.
CallsFit ==
  \A c \in Calls : c[1] > c[2] \/ \A n \in PoolSizes : NoOverflow(c[1], c[2], n)

\* The chunks handed out so far, and the index they reach to.
Work == accepted \cup processed
Upto == IF pc = "submit" THEN s + chunk_size ELSE s
InLoop == pc \in {"loop", "submit", "wait"}

Types ==
  /\ start \in Sizes /\ end \in Sizes /\ nthreads \in PoolSizes
  /\ chunk_size \in Nat /\ s \in Nat
  /\ pc \in {"call", "loop", "submit", "wait", "returned"}
  /\ start > end \/ NoOverflow(start, end, nthreads)

\* What the caller knows of the pool: it acknowledges one chunk at a time, and
\* its wait is for all of them.
PoolInv ==
  /\ dropped = {} /\ acked \subseteq accepted /\ complete \subseteq processed
  /\ promise \in [{Caller} -> SUBSET accepted]
  /\ pc \in {"call", "loop", "wait"} => acked = accepted
  /\ pc = "submit" => \E x : accepted = acked \cup {x}
  /\ pc = "wait" => promise[Caller] = accepted
  /\ pc = "returned" => accepted \subseteq complete

\* The loop's arithmetic: it advances, and cannot wrap.
LoopInv ==
  /\ pc = "call" => Work = {}
  /\ InLoop /\ start <= end =>
       chunk_size > 0 /\ end + chunk_size <= SizeT /\ start <= s
  /\ InLoop /\ start > end => Work = {} /\ s >= end
  /\ pc = "submit" => s < end
  /\ pc = "wait" => s >= end

\* The chunks handed out lie in the range and behind the loop variable, ...
Bounded ==
  start <= end =>
    \A c \in Work : /\ c.lo \in Int /\ c.hi \in Int
                    /\ start <= c.lo /\ c.lo < c.hi /\ c.hi <= end
                    /\ InLoop => c.hi <= Upto

\* ... and leave no gap there.
Covered ==
  /\ InLoop => \A i \in start .. end - 1 :
                 i < Upto => \E c \in Work : c.lo <= i /\ i < c.hi
  /\ pc = "returned" => \A i \in start .. end - 1 :
                 \E c \in processed : c.lo <= i /\ i < c.hi

ForInv == Types /\ PoolInv /\ LoopInv /\ Bounded /\ Covered /\ ChunksDisjoint

\* size_t arithmetic below the modulus is that of the natural numbers.
LEMMA ModSmall == \A a, m \in Nat : a < m => a % m = a
OBVIOUS

\* Rounding up gives no empty chunk.
LEMMA DivPositive == \A a, b \in Nat : b > 0 /\ a >= b => a \div b > 0 /\ a \div b \in Nat
OBVIOUS

\* A quotient is a number, also for the wrapped range of start > end.
LEMMA DivNat == \A a, b \in Nat : b > 0 => a \div b \in Nat
OBVIOUS

\* What the loop computes in a call that fits.
LEMMA Arithmetic ==
  ASSUME Types, start <= end
  PROVE  /\ range = end - start
         /\ range > 0 => /\ ChunkSize(range, nthreads) \in Nat
                         /\ ChunkSize(range, nthreads) > 0
                         /\ end + ChunkSize(range, nthreads) <= SizeT
<1> USE SizeAssumption, CallAssumption DEF Types, Sizes
<1>1. range = end - start
  BY ModSmall DEF range, RangeOf
<1>2. ASSUME range > 0
      PROVE  ChunkSize(range, nthreads) \in Nat /\ ChunkSize(range, nthreads) > 0
  <2>1. /\ nthreads \in Nat /\ nthreads > 0 /\ range \in Nat
        /\ range + nthreads - 1 < SizeT
    BY <1>1, <1>2 DEF NoOverflow
  <2>2. (range + nthreads - 1) % SizeT = range + nthreads - 1
    BY <2>1, ModSmall
  <2> QED BY <2>1, <2>2, <1>2, DivPositive DEF ChunkSize
<1>3. end + ChunkSize(range, nthreads) <= SizeT
  BY <1>1 DEF NoOverflow
<1> QED BY <1>1, <1>2, <1>3

\* The chunk of a turn of the loop, and where the next one starts.
LEMMA Turn ==
  ASSUME Types, LoopInv, pc \in {"loop", "submit"}, s < end
  PROVE  /\ start <= end /\ start <= s /\ chunk_size > 0
         /\ NextStart(s, chunk_size) = s + chunk_size
         /\ Chunk.lo = s /\ Chunk.hi \in Int /\ s < Chunk.hi /\ Chunk.hi <= end
         /\ Chunk.hi <= s + chunk_size
         /\ Chunk.hi = end \/ Chunk.hi = s + chunk_size
<1> USE SizeAssumption DEF Types, Sizes, LoopInv, InLoop
<1>1. start <= end /\ start <= s /\ chunk_size > 0 /\ s + chunk_size < SizeT
  OBVIOUS
<1>2. (s + chunk_size) % SizeT = s + chunk_size
  BY <1>1, ModSmall
<1> QED BY <1>1, <1>2 DEF NextStart, Chunk, ChunkEnd

\* The whole range on the caller, or nothing.
LEMMA InlineKeeps == ASSUME ForInv, CallInline PROVE ForInv'
<1> USE DEF ForInv, Types, PoolInv, LoopInv, Sizes
<1>1. accepted = {} /\ accepted' = {} /\ processed = {} /\ InLoop' = FALSE
  BY DEF CallInline, Work, InLoop, poolState
<1>2. Types' /\ PoolInv' /\ LoopInv'
  BY <1>1 DEF CallInline, poolState, args, InLoop
<1>3. start <= end => range = end - start
  BY Arithmetic
<1>4. Bounded' /\ Covered'
  <2>1. CASE range = 0
    <3>1. Work' = {} /\ pc' = "returned" /\ UNCHANGED args
      BY <2>1, <1>1 DEF CallInline, Work
    <3>2. start .. end - 1 = {}
      BY <2>1, <1>3
    <3> QED BY <3>1, <3>2, <1>1 DEF Bounded, Covered, args
  <2>2. CASE range # 0
    <3> DEFINE c == [k |-> 0, lo |-> start, hi |-> end]
    <3>1. /\ Work' = {c} /\ processed' = {c} /\ pc' = "returned" /\ UNCHANGED args
      BY <2>2, <1>1 DEF CallInline, Work
    <3>2. c.lo = start /\ c.hi = end
      OBVIOUS
    <3>3. start <= end => start < end
      BY <2>2, <1>3
    <3> HIDE DEF c
    <3> QED BY <3>1, <3>2, <3>3, <1>1 DEF Bounded, Covered, args
  <2> QED BY <2>1, <2>2
<1>5. ChunksDisjoint'
  <2>1. \A c, d \in accepted' \cup processed' : c = d
    BY <1>1, Zenon DEF CallInline
  <2> QED BY <2>1 DEF ChunksDisjoint
<1> QED BY <1>2, <1>4, <1>5

\* The loop begins with nothing handed out.
LEMMA ParallelKeeps == ASSUME ForInv, CallParallel PROVE ForInv'
<1> USE SizeAssumption, CallAssumption DEF ForInv, Types, Sizes
<1>1. Work = {} /\ Work' = {} /\ accepted' = {} /\ processed' = {}
  BY DEF CallParallel, LoopInv, Work, poolState
<1>2. ChunkSize(range, nthreads) \in Nat
  <2>1. CASE start <= end
    <3>1. range = end - start /\ range > 0
      BY <2>1, Arithmetic DEF CallParallel
    <3> QED BY <3>1, <2>1, Arithmetic
  <2>2. CASE start > end
    <3>1. range \in Nat
      BY DEF range, RangeOf
    <3>2. (range + nthreads - 1) % SizeT \in Nat
      BY <3>1
    <3> QED BY <3>2, DivNat DEF ChunkSize
  <2> QED BY <2>1, <2>2
<1>3. Types'
  BY <1>2 DEF CallParallel, args
<1>4. PoolInv'
  BY DEF CallParallel, PoolInv, poolState
<1>5. LoopInv'
  <2>1. start <= end => chunk_size' > 0 /\ end + chunk_size' <= SizeT
    BY Arithmetic DEF CallParallel
  <2> QED BY <1>1, <2>1 DEF CallParallel, LoopInv, args, InLoop
<1>6. Bounded' /\ Covered' /\ ChunksDisjoint'
  BY <1>1 DEF CallParallel, Bounded, Covered, ChunksDisjoint, Upto, args
<1> QED BY <1>3, <1>4, <1>5, <1>6

\* Handing out the next chunk, to the pool or to the caller itself, keeps the
\* chunks apart and without a gap: it begins where the others end.
LEMMA NewChunk ==
  ASSUME ForInv, pc = "loop", s < end,
         Work' = Work \cup {Chunk}, Upto' = s + chunk_size,
         InLoop', pc' # "returned", UNCHANGED args
  PROVE  Bounded' /\ Covered' /\ ChunksDisjoint'
<1> USE DEF ForInv, Types, Sizes, args
<1>1. /\ start <= end /\ start <= s /\ chunk_size > 0
      /\ Chunk.lo = s /\ Chunk.hi \in Int /\ s < Chunk.hi /\ Chunk.hi <= end
      /\ Chunk.hi <= s + chunk_size
      /\ Chunk.hi = end \/ Chunk.hi = s + chunk_size
  BY Turn
<1>2. InLoop /\ Upto = s
  BY DEF InLoop, Upto
<1> HIDE DEF Chunk
<1>3. \A c \in Work : /\ c.lo \in Int /\ c.hi \in Int /\ start <= c.lo
                      /\ c.lo < c.hi /\ c.hi <= end /\ c.hi <= s
  BY <1>1, <1>2 DEF Bounded
<1>4. Bounded'
  <2> SUFFICES ASSUME NEW c \in Work'
               PROVE  /\ c.lo \in Int /\ c.hi \in Int /\ start <= c.lo
                      /\ c.lo < c.hi /\ c.hi <= end /\ c.hi <= s + chunk_size
    BY DEF Bounded
  <2>1. CASE c \in Work
    BY <2>1, <1>1, <1>3
  <2>2. CASE c = Chunk
    BY <2>2, <1>1
  <2> QED BY <2>1, <2>2
<1>5. Covered'
  <2> SUFFICES ASSUME NEW i \in start .. end - 1, i < s + chunk_size
               PROVE  \E c \in Work' : c.lo <= i /\ i < c.hi
    BY DEF Covered
  <2>1. CASE i < s
    BY <2>1, <1>2 DEF Covered
  <2>2. CASE i >= s
    BY <2>2, <1>1
  <2> QED BY <2>1, <2>2
<1>6. ChunksDisjoint'
  <2> SUFFICES ASSUME NEW c \in Work', NEW d \in Work', c # d
               PROVE  c.hi <= d.lo \/ d.hi <= c.lo
    BY DEF ChunksDisjoint, Work
  <2>1. CASE c \in Work /\ d \in Work
    BY <2>1 DEF ChunksDisjoint, Work
  <2>2. CASE c = Chunk /\ d \in Work
    BY <2>2, <1>1, <1>3
  <2>3. CASE d = Chunk /\ c \in Work
    BY <2>3, <1>1, <1>3
  <2> QED BY <2>1, <2>2, <2>3
<1> QED BY <1>4, <1>5, <1>6

\* A chunk is handed to the pool.
LEMMA SubmitKeeps == ASSUME ForInv, SubmitChunk PROVE ForInv'
<1> USE DEF ForInv
<1>1. /\ pc = "loop" /\ s < end /\ pc' = "submit" /\ UNCHANGED args
      /\ Work' = Work \cup {Chunk} /\ Upto' = s + chunk_size /\ InLoop'
  BY DEF SubmitChunk, Pool!Accept, Work, Upto, InLoop
<1>2. Bounded' /\ Covered' /\ ChunksDisjoint'
  BY <1>1, NewChunk
<1>3. Types'
  BY DEF SubmitChunk, args, Types
<1>4. PoolInv'
  <2> HIDE DEF Chunk
  <2> QED BY DEF SubmitChunk, Pool!Accept, PoolInv
<1>5. LoopInv'
  BY Turn, <1>1 DEF SubmitChunk, LoopInv, args, InLoop, Types, Sizes
<1> QED BY <1>2, <1>3, <1>4, <1>5

\* A chunk that could not be submitted runs on the caller.
LEMMA ChunkInlineKeeps == ASSUME ForInv, ChunkInline PROVE ForInv'
<1> USE DEF ForInv
<1>1. NextStart(s, chunk_size) = s + chunk_size /\ start <= end /\ start <= s
  BY Turn DEF ChunkInline
<1>2. /\ pc = "loop" /\ s < end /\ pc' = "loop" /\ UNCHANGED args
      /\ Work' = Work \cup {Chunk} /\ Upto' = s + chunk_size /\ InLoop'
  BY <1>1 DEF ChunkInline, Work, Upto, InLoop, poolState
<1>3. Bounded' /\ Covered' /\ ChunksDisjoint'
  BY <1>2, NewChunk
<1>4. Types'
  BY <1>1 DEF ChunkInline, args, Types
<1>5. PoolInv'
  BY DEF ChunkInline, PoolInv, poolState
<1>6. LoopInv'
  BY <1>1, <1>2 DEF ChunkInline, LoopInv, args, InLoop, Types, Sizes
<1> QED BY <1>3, <1>4, <1>5, <1>6

\* The loop variable moves to the end of the chunk that was submitted.
LEMMA SubmitReturnsKeeps == ASSUME ForInv, SubmitReturns PROVE ForInv'
<1> USE DEF ForInv
<1>1. NextStart(s, chunk_size) = s + chunk_size /\ start <= end /\ start <= s
  BY Turn DEF SubmitReturns, LoopInv
<1>2. /\ Work' = Work /\ Upto' = Upto /\ InLoop /\ InLoop' /\ pc' = "loop"
      /\ UNCHANGED <<args, accepted, processed>>
  BY <1>1 DEF SubmitReturns, Pool!Ack, Work, Upto, InLoop
<1>3. Types'
  BY <1>1 DEF SubmitReturns, args, Types
<1>4. PoolInv'
  BY DEF SubmitReturns, Pool!Ack, PoolInv
<1>5. LoopInv'
  BY <1>1, <1>2 DEF SubmitReturns, LoopInv, args, Types, Sizes
<1>6. Bounded' /\ Covered' /\ ChunksDisjoint'
  BY <1>2 DEF Bounded, Covered, ChunksDisjoint, args
<1> QED BY <1>3, <1>4, <1>5, <1>6

\* A worker runs a chunk that was handed out before.
LEMMA TaskKeeps == ASSUME ForInv, NEW c \in accepted, for_task_func(c) PROVE ForInv'
<1> USE DEF ForInv
<1>1. Work' = Work /\ Upto' = Upto /\ InLoop' = InLoop /\ pc # "returned"
  BY DEF for_task_func, Pool!Complete, Pool!Pending, Work, Upto, InLoop, PoolInv
<1>2. Types'
  BY DEF for_task_func, args, Types
<1>3. PoolInv'
  BY <1>1 DEF for_task_func, Pool!Complete, PoolInv
<1>4. LoopInv'
  BY <1>1 DEF for_task_func, LoopInv, args
<1>5. Bounded' /\ Covered' /\ ChunksDisjoint'
  BY <1>1 DEF for_task_func, Bounded, Covered, ChunksDisjoint, Work, args
<1> QED BY <1>2, <1>3, <1>4, <1>5

\* The wait is for every chunk, as each submit has returned.
LEMMA WaitKeeps == ASSUME ForInv, WaitBegin PROVE ForInv'
<1> USE DEF ForInv
<1>1. /\ Work' = Work /\ Upto' = Upto /\ InLoop /\ InLoop'
      /\ UNCHANGED <<args, accepted, processed>>
  BY DEF WaitBegin, Pool!WaitBegin, Work, Upto, InLoop
<1>2. Types'
  BY DEF WaitBegin, args, Types
<1>3. PoolInv'
  BY DEF WaitBegin, Pool!WaitBegin, PoolInv
<1>4. LoopInv'
  BY <1>1 DEF WaitBegin, LoopInv, args
<1>5. Bounded' /\ Covered' /\ ChunksDisjoint'
  BY <1>1 DEF WaitBegin, Bounded, Covered, ChunksDisjoint, args
<1> QED BY <1>2, <1>3, <1>4, <1>5

\* The pool's promise makes every chunk processed, and the loop has passed end.
LEMMA ReturnKeeps == ASSUME ForInv, Return PROVE ForInv'
<1> USE DEF ForInv
<1>1. accepted \subseteq complete /\ Work = processed
  BY DEF Return, Pool!WaitEnd, PoolInv, Work
<1>2. Work' = Work /\ processed' = processed /\ InLoop /\ ~InLoop' /\ UNCHANGED args
  BY DEF Return, Pool!WaitEnd, Work, InLoop
<1>3. Types'
  BY DEF Return, args, Types
<1>4. PoolInv'
  BY <1>1 DEF Return, Pool!WaitEnd, PoolInv
<1>5. LoopInv'
  BY <1>2 DEF Return, LoopInv
<1>6. Covered'
  <2>1. Upto = s /\ s >= end
    BY DEF Return, Upto, LoopInv
  <2> QED BY <1>1, <1>2, <2>1 DEF Covered, args, Types, Sizes
<1>7. Bounded' /\ ChunksDisjoint'
  BY <1>2 DEF Bounded, ChunksDisjoint, Work, args
<1> QED BY <1>3, <1>4, <1>5, <1>6, <1>7

\* The invariant, from which both theorems follow.
LEMMA ForInvAlways == ASSUME CallsFit PROVE Spec => []ForInv
<1>1. Init => ForInv
  <2> SUFFICES ASSUME Init PROVE ForInv
    OBVIOUS
  <2>1. Types
    BY CallAssumption DEF Init, Types, CallsFit
  <2>2. PoolInv /\ LoopInv /\ Bounded /\ Covered /\ ChunksDisjoint
    BY DEF Init, Pool!Init, PoolInv, LoopInv, Bounded, Covered, ChunksDisjoint,
           Work, InLoop
  <2> QED BY <2>1, <2>2 DEF ForInv
<1>2. ForInv /\ [Next]_vars => ForInv'
  <2> SUFFICES ASSUME ForInv, [Next]_vars PROVE ForInv'
    OBVIOUS
  <2>1. CASE Next
    BY <2>1, InlineKeeps, ParallelKeeps, SubmitKeeps, SubmitReturnsKeeps,
       ChunkInlineKeeps, WaitKeeps, ReturnKeeps, TaskKeeps DEF Next
  <2>2. CASE UNCHANGED vars
    BY <2>2 DEF vars, poolState, args, ForInv, Types, PoolInv, LoopInv, Bounded,
                Covered, ChunksDisjoint, Work, Upto, InLoop
  <2> QED BY <2>1, <2>2
<1> QED BY <1>1, <1>2, PTL DEF Spec

\* When SNEPPX_parallel_for returns, func has been called on every index of
\* start .. end-1 exactly once.
THEOREM ForCoversAlways == ASSUME CallsFit PROVE Spec => []ForCovers
<1>1. ForInv => ForCovers
  <2> SUFFICES ASSUME ForInv, pc = "returned", start <= end
               PROVE  Tiles(processed, start, end)
    BY DEF ForInv, Types, Sizes, ForCovers
  <2> QED BY DEF ForInv, Bounded, Covered, ChunksDisjoint, Work, Tiles
<1> QED BY <1>1, ForInvAlways, PTL

\* func never runs on an index twice, nor on two threads at a time.
THEOREM ChunksDisjointAlways == ASSUME CallsFit PROVE Spec => []ChunksDisjoint
<1>1. ForInv => ChunksDisjoint
  BY DEF ForInv
<1> QED BY <1>1, ForInvAlways, PTL
=============================================================================
