------------------------------ MODULE Chunking ------------------------------
(***************************************************************************)
(* How SNEPPX_parallel_for and SNEPPX_parallel_reduce of                   *)
(* kernel/thread/threadpool.c cut a range into chunks.  size_t arithmetic  *)
(* is modulo SizeT.                                                        *)
(***************************************************************************)
EXTENDS Integers

CONSTANTS
  SizeT,     \* 2^w, w the width of size_t
  MinRange   \* ranges shorter than this run on the caller (64 in the code)

ASSUME SizeAssumption == SizeT \in Nat \ {0} /\ MinRange \in Nat

Sizes == 0 .. SizeT - 1

\* end - start
RangeOf(lo, hi) == (hi - lo) % SizeT

\* nthreads <= 1 || range < 64
RunsInline(n, range) == n <= 1 \/ range < MinRange

\* Mutant of ChunkSize: the division rounds down.
ChunkSizeFloor(range, n) == range \div n

\* (range + nthreads - 1) / nthreads
ChunkSize(range, n) == ((range + n - 1) % SizeT) \div n

\* e = s + chunk_size; if (e > end) e = end
ChunkEnd(s, chunk, hi) ==
  LET e == (s + chunk) % SizeT IN IF e > hi THEN hi ELSE e

\* Mutant of NextStart: chunks are taken to be closed intervals.
NextStartClosed(s, chunk) == (s + chunk - 1) % SizeT

\* s += chunk_size
NextStart(s, chunk) == (s + chunk) % SizeT

\* Neither range + n nor the loop variable one past the last chunk overflows.
NoOverflow(lo, hi, n) ==
  /\ lo <= hi
  /\ (hi - lo) + n <= SizeT
  /\ hi + ChunkSize(hi - lo, n) <= SizeT

\* The chunks S, records with lo and hi, cover each index of lo .. hi-1 once
\* and no other index.
Tiles(S, lo, hi) ==
  /\ \A i \in lo .. hi - 1 : \E c \in S : c.lo <= i /\ i < c.hi
  /\ \A c \in S : c.lo < c.hi => lo <= c.lo /\ c.hi <= hi
  /\ \A c, d \in S : c # d => c.hi <= d.lo \/ d.hi <= c.lo
=============================================================================
