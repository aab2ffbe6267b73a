-------------------------- MODULE MCParallelReduce --------------------------
(***************************************************************************)
(* Instances of ParallelReduce for TLC.  size_t has 4 bits and the threshold of *)
(* 64 is scaled down to 4, so that a pool of 4 threads meets ranges that   *)
(* give fewer chunks than threads, as a range of 64 does on 12 threads.    *)
(***************************************************************************)
EXTENDS ParallelReduce

\* Every pair of arguments whose index arithmetic does not overflow, and the
\* pairs with start > end for which range + nthreads - 1 does not wrap: where
\* it does, chunk_size is 0 and the code divides by it.
SmallCalls ==
  {c \in Sizes \X Sizes : \A n \in PoolSizes :
     IF c[1] > c[2] THEN RangeOf(c[1], c[2]) + n <= SizeT
                    ELSE NoOverflow(c[1], c[2], n)}
=============================================================================
