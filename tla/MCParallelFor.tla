--------------------------- MODULE MCParallelFor ----------------------------
(***************************************************************************)
(* Instances of ParallelFor for TLC.  size_t has 4 bits and the threshold of *)
(* 64 is scaled down to 4, so that a pool of 4 threads meets ranges that   *)
(* give fewer chunks than threads, as a range of 64 does on 12 threads.    *)
(***************************************************************************)
EXTENDS ParallelFor

\* Every pair of arguments whose index arithmetic does not overflow, and
\* every pair with start > end.
SmallCalls ==
  {c \in Sizes \X Sizes :
     c[1] > c[2] \/ \A n \in PoolSizes : NoOverflow(c[1], c[2], n)}
=============================================================================
