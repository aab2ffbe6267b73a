--------------------------- MODULE RingAllReduce ---------------------------
(***************************************************************************)
(* ring_all_reduce_impl of net/distributed/src/lib.rs: every rank sends a  *)
(* chunk to its successor and receives one from its predecessor, in a      *)
(* scatter-reduce phase and then an all-gather phase.  The ranks run at    *)
(* their own pace over one first-in first-out stream per link.  An element *)
(* is the bag of the contributions added into it, so a sum that misses one *)
(* or counts one twice shows; the final scaling by 1/world_size is left    *)
(* out.  Compression is off.  Spec has the collective alone on its         *)
(* streams; SharedSpec adds the heartbeat tasks, which use the same ones.  *)
(***************************************************************************)
EXTENDS Integers, Sequences

CONSTANTS
  world_size,
  MaxN,         \* most elements of the buffer
  MaxBeats      \* bound on the heartbeats sent

ASSUME RingAssumption ==
  world_size \in Nat \ {0, 1} /\ MaxN \in Nat /\ MaxBeats \in Nat

Ranks == 0 .. world_size - 1

VARIABLES
  n,        \* the length of the buffer, the same on every rank
  data,     \* data[r][i]: the bag of <<rank, element>> contributions
  phase,    \* scatter, gather, done, panicked or failed
  step,     \* the loop's counter
  sent,     \* whether this step's chunk has been sent
  wire,     \* wire[r]: the stream from rank r to its successor
  lock,     \* lock[r]: who holds rank r's stream from its predecessor
  beats,    \* heartbeats sent so far
  stray     \* history: a step has taken something else than a chunk

vars == <<n, data, phase, step, sent, wire, lock, beats, stray>>

Elems == 0 .. n - 1
succ(r) == (r + 1) % world_size
pred(r) == (r + world_size - 1) % world_size
Least(a, b) == IF a < b THEN a ELSE b

send_chunk_idx(r) == (r + world_size - step[r]) % world_size

chunk_size == (n + world_size - 1) \div world_size

\* Mutant of recv_chunk_idx: one chunk too far.
RecvIdxOff(r) == (r + world_size - step[r]) % world_size

recv_chunk_idx(r) == (r + world_size - step[r] - 1) % world_size

Own(r, i) == [c \in Ranks \X Elems |-> IF c = <<r, i>> THEN 1 ELSE 0]
Plus(a, b) == [c \in Ranks \X Elems |-> a[c] + b[c]]

Init ==
  /\ n \in 0 .. MaxN
  /\ data = [r \in Ranks |-> [i \in Elems |-> Own(r, i)]]
  /\ phase = [r \in Ranks |-> "scatter"]
  /\ step = [r \in Ranks |-> 0]
  /\ sent = [r \in Ranks |-> FALSE]
  /\ wire = [r \in Ranks |-> <<>>]
  /\ lock = [r \in Ranks |-> "free"]
  /\ beats = 0 /\ stray = FALSE

-----------------------------------------------------------------------------
(* The collective *)

Active(r) == phase[r] \in {"scatter", "gather"}
SendStart(r) == send_chunk_idx(r) * chunk_size

SendEnd(r) == Least(SendStart(r) + chunk_size, n)

Send(r) ==
  /\ Active(r) /\ ~sent[r] /\ SendStart(r) <= SendEnd(r)
  /\ LET chunk == [j \in 1 .. SendEnd(r) - SendStart(r) |-> data[r][SendStart(r) + j - 1]]
     IN wire' = [wire EXCEPT ![r] =
          Append(@, [kind |-> "chunk", chunk_id |-> send_chunk_idx(r), data |-> chunk])]
  /\ sent' = [sent EXCEPT ![r] = TRUE]
  /\ UNCHANGED <<n, data, phase, step, lock, beats, stray>>

\* data[send_start..send_end] with send_start past the end of the buffer.
Panic(r) ==
  /\ Active(r) /\ ~sent[r] /\ SendStart(r) > SendEnd(r)
  /\ phase' = [phase EXCEPT ![r] = "panicked"]
  /\ UNCHANGED <<n, data, step, sent, wire, lock, beats, stray>>

\* A panic in an extern "C" function ends the process and closes its streams:
\* a neighbour's send may fail, its receive fails once the stream is drained.
\* The neighbour returns the error and keeps its own streams open.
StreamError(r) ==
  /\ \/ Active(r) /\ ~sent[r] /\ phase[succ(r)] = "panicked"
     \/ lock[r] = "ring" /\ wire[pred(r)] = <<>> /\ phase[pred(r)] = "panicked"
  /\ phase' = [phase EXCEPT ![r] = "failed"]
  /\ lock' = [lock EXCEPT ![r] = "free"]
  /\ UNCHANGED <<n, data, step, sent, wire, beats, stray>>

Lock(r) ==
  /\ Active(r) /\ sent[r] /\ lock[r] = "free"
  /\ lock' = [lock EXCEPT ![r] = "ring"]
  /\ UNCHANGED <<n, data, phase, step, sent, wire, beats, stray>>

\* Mutant of Merge: scatter-reduce stores where it should add.
MergeStores(r, recv_data) ==
  LET start == Least(recv_chunk_idx(r) * chunk_size, n)
      end == Least(start + Len(recv_data), n)
  IN [i \in Elems |->
       IF i \in start .. end - 1 THEN recv_data[i - start + 1] ELSE data[r][i]]

\* The element that a received value goes to, added or stored.
Merge(r, recv_data) ==
  LET start == Least(recv_chunk_idx(r) * chunk_size, n)
      end == Least(start + Len(recv_data), n)
  IN [i \in Elems |->
       IF i \notin start .. end - 1 THEN data[r][i]
       ELSE IF phase[r] = "scatter" THEN Plus(data[r][i], recv_data[i - start + 1])
       ELSE recv_data[i - start + 1]]

\* The next message is taken whatever it is; only a chunk is merged.
Receive(r) ==
  /\ lock[r] = "ring" /\ wire[pred(r)] # <<>>
  /\ LET m == Head(wire[pred(r)]) IN
       /\ data' = [data EXCEPT ![r] = IF m.kind = "chunk" THEN Merge(r, m.data) ELSE @]
       /\ stray' = (stray \/ m.kind # "chunk")
  /\ wire' = [wire EXCEPT ![pred(r)] = Tail(@)]
  /\ lock' = [lock EXCEPT ![r] = "free"]
  /\ sent' = [sent EXCEPT ![r] = FALSE]
  /\ LET last == step[r] = world_size - 2 IN
       /\ step' = [step EXCEPT ![r] = IF last THEN 0 ELSE @ + 1]
       /\ phase' = [phase EXCEPT ![r] =
            IF ~last THEN @ ELSE IF @ = "scatter" THEN "gather" ELSE "done"]
  /\ UNCHANGED <<n, beats>>

-----------------------------------------------------------------------------
(* The tasks that use the same streams *)

\* heartbeat_loop sends on the stream to the successor.
Heartbeat(r) ==
  /\ beats < MaxBeats
  /\ wire' = [wire EXCEPT ![r] = Append(@, [kind |-> "heartbeat"])]
  /\ beats' = beats + 1
  /\ UNCHANGED <<n, data, phase, step, sent, lock, stray>>

\* heartbeat_listener takes the stream and waits for a message on it ...
Listen(r) ==
  /\ lock[r] = "free"
  /\ lock' = [lock EXCEPT ![r] = "listener"]
  /\ UNCHANGED <<n, data, phase, step, sent, wire, beats, stray>>

\* ... and drops the one that arrives, a chunk too (an acknowledgement goes the
\* other way, on a stream that no rank of the ring reads from).
Heard(r) ==
  /\ lock[r] = "listener" /\ wire[pred(r)] # <<>>
  /\ wire' = [wire EXCEPT ![pred(r)] = Tail(@)]
  /\ lock' = [lock EXCEPT ![r] = "free"]
  /\ UNCHANGED <<n, data, phase, step, sent, beats, stray>>

Finished == \A r \in Ranks : ~Active(r)

\* Every rank has returned.
Returned == Finished /\ UNCHANGED vars

Ring(r) == Send(r) \/ Panic(r) \/ StreamError(r) \/ Lock(r) \/ Receive(r)

Next == (\E r \in Ranks : Ring(r)) \/ Returned

Spec == Init /\ [][Next]_vars /\ \A r \in Ranks : WF_vars(Ring(r))

SharedNext == Next \/ \E r \in Ranks : Heartbeat(r) \/ Listen(r) \/ Heard(r)
SharedSpec == Init /\ [][SharedNext]_vars

-----------------------------------------------------------------------------
(* Properties *)

ElemsOf(c) == {i \in Elems : i \div chunk_size = c}
Complete(r, i) == data[r][i] = [c \in Ranks \X Elems |-> IF c[2] = i THEN 1 ELSE 0]

\* The receiver ignores chunk_id, yet the chunk it takes next is always the
\* one it is about to merge: elements never land in another chunk's place.
InStep ==
  \A r \in Ranks : lock[r] = "ring" /\ wire[pred(r)] # <<>> =>
    /\ Head(wire[pred(r)]).kind = "chunk"
    /\ Head(wire[pred(r)]).chunk_id = recv_chunk_idx(r)

\* A rank that leaves the scatter-reduce phase holds, in the chunk after its
\* own, every rank's contribution exactly once.
ScatterReduced ==
  \A r \in Ranks : phase[r] = "gather" /\ step[r] = 0 =>
    \A i \in ElemsOf(succ(r)) : Complete(r, i)

\* The slice bounds fail only for a buffer too short to reach the last chunk.
PanicsOnlyShort ==
  \A r \in Ranks : phase[r] = "panicked" => n < (world_size - 1) * chunk_size

\* No rank waits for ever for a chunk that its predecessor never sends, as
\* long as no rank panics.
Terminates ==
  <>(Finished \/ \E r \in Ranks : phase[r] = "panicked")

\* All-reduce: when all ranks have returned, each holds the sum of all.
AllReduced ==
  (\A r \in Ranks : phase[r] = "done") => \A r \in Ranks, i \in Elems : Complete(r, i)

\* A step receives the chunk that the predecessor sent it.
ReceivesChunk == ~stray
=============================================================================
