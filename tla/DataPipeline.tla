--------------------------- MODULE DataPipeline ---------------------------
(***************************************************************************)
(* The batches of kernel/data/data_pipeline.c: a data set is loaded,       *)
(* loaded again, shuffled and read batch by batch, with allocations that   *)
(* may fail.  A sample is its number; the text of the file is abstracted   *)
(* to the number of samples in it.                                         *)
(***************************************************************************)
EXTENDS Integers, Sequences, Functions, FiniteSetsExt

CONSTANTS
  batch_size,
  Sizes,          \* numbers of samples that a file may hold
  MaxLoads, MaxShuffles      \* bounds on the calls

VARIABLES
  buffers,        \* "null", "live" or "freed": data_buffer and label_buffer
  num_samples,
  current_pos,
  indices,        \* shuffle_indices, <<>> when it is NULL
  block,          \* the samples that the block of shuffle_indices was allocated for
  epoch,          \* history: the samples served since the epoch began
  whole,          \* history: every epoch that ended by itself served every sample once
  zeroed,         \* history: what the last free of shuffle_indices zeroed beyond its block
  stale,          \* history: a batch was read from freed buffers
  loads, shuffles

vars == <<buffers, num_samples, current_pos, indices, block, epoch, whole, zeroed, stale, loads, shuffles>>

Init ==
  /\ buffers = "null" /\ num_samples = 0 /\ current_pos = 0 /\ indices = <<>> /\ block = 0
  /\ epoch = <<>> /\ whole = TRUE /\ zeroed = 0 /\ stale = FALSE /\ loads = 0 /\ shuffles = 0

\* The old indices are freed with the new number of samples as their size;
\* without memory for new ones they are NULL.
Load(n) ==
  /\ loads < MaxLoads /\ loads' = loads + 1
  /\ buffers' = "live" /\ num_samples' = n /\ current_pos' = 0
  /\ zeroed' = IF block > 0 /\ n > block THEN n - block ELSE 0
  /\ \/ indices' = [i \in 1 .. n |-> i - 1] /\ block' = n
     \/ indices' = <<>> /\ block' = 0
  /\ epoch' = <<>>
  /\ UNCHANGED <<whole, stale, shuffles>>

\* No memory for one of the buffers: the other one is freed and both pointers
\* stay as they are.  (A file that cannot be read, or holds no sample with two
\* columns, changes nothing.)
LoadNoMemory ==
  /\ loads < MaxLoads /\ loads' = loads + 1 /\ buffers' \in {"null", "freed"}
  /\ UNCHANGED <<num_samples, current_pos, indices, block, epoch, whole, zeroed, stale, shuffles>>

-----------------------------------------------------------------------------
(* SNEPPX_data_pipeline_get_batch *)

Actual == Min({batch_size, num_samples - current_pos})

Sample(i) == IF indices = <<>> THEN i - 1 ELSE indices[i]

\* The batch of the samples from position from on, whose epoch began with seen.
Serve(from, n, seen) ==
  /\ current_pos' = from + n
  /\ epoch' = seen \o [i \in 1 .. n |-> Sample(from + i)]
  /\ stale' = (stale \/ buffers = "freed")

EpochWhole == Len(epoch) = num_samples /\ Range(epoch) = 0 .. num_samples - 1

GetBatch ==
  /\ buffers # "null" /\ num_samples > 0
  /\ IF Actual = 0
     THEN Serve(0, Min({batch_size, num_samples}), <<>>) /\ whole' = (whole /\ EpochWhole)
     ELSE Serve(current_pos, Actual, epoch) /\ UNCHANGED whole
  /\ UNCHANGED <<buffers, num_samples, indices, block, zeroed, loads, shuffles>>

\* Without memory for the batch only the wrap remains.
GetBatchNoMemory ==
  /\ buffers # "null" /\ num_samples > 0
  /\ IF Actual = 0 THEN current_pos' = 0 /\ epoch' = <<>> /\ whole' = (whole /\ EpochWhole)
     ELSE UNCHANGED <<current_pos, epoch, whole>>
  /\ UNCHANGED <<buffers, num_samples, indices, block, zeroed, stale, loads, shuffles>>

\* Mutant of Swapped: the second store uses the value that was overwritten.
SwappedOnto(f, i, j) == [f EXCEPT ![i] = f[j]]

Swapped(f, i, j) == [f EXCEPT ![i] = f[j], ![j] = f[i]]

\* The loop from the last index to the second, with any rand().
Shuffle ==
  /\ shuffles < MaxShuffles /\ shuffles' = shuffles + 1 /\ indices # <<>> /\ num_samples >= 2
  /\ \E r \in [2 .. num_samples -> 1 .. num_samples] :
       /\ \A i \in DOMAIN r : r[i] <= i
       /\ LET f[i \in 1 .. num_samples] ==
                IF i = num_samples THEN Swapped(indices, i, r[i])
                ELSE IF i = 1 THEN f[2] ELSE Swapped(f[i + 1], i, r[i])
          IN indices' = f[1]
  /\ current_pos' = 0 /\ epoch' = <<>>
  /\ UNCHANGED <<buffers, num_samples, block, whole, zeroed, stale, loads>>

Next == (\E n \in Sizes : Load(n)) \/ LoadNoMemory \/ GetBatch \/ GetBatchNoMemory \/ Shuffle

Spec == Init /\ [][Next]_vars

-----------------------------------------------------------------------------
(* Properties *)

\* Within an epoch no sample is served twice, and an epoch that ends by itself
\* has served every sample of the data set, whatever was loaded and shuffled
\* before and whichever allocation failed.
EpochExact == whole /\ IsInjective(epoch) /\ Range(epoch) \subseteq 0 .. num_samples - 1

\* A batch is read from buffers that are still allocated.
BatchLive == ~stale

\* Freeing the indices overwrites their own block only.
ZeroesOwnBlock == zeroed = 0
=============================================================================
