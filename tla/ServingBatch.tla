---------------------------- MODULE ServingBatch ----------------------------
(***************************************************************************)
(* Dynamic batching in net/http/serving_engine.c and the hot reload of the *)
(* batch size.  Requests are numbered in the order of their submission;    *)
(* time is the age of the pending batch.  The configuration file is edited *)
(* by somebody else: an edit has the modification time of its second.      *)
(***************************************************************************)
EXTENDS Integers, Sequences

CONSTANTS
  Slots,            \* keys that pending_keys holds, 64 in the code
  Timeout,          \* batch_timeout_ms
  InitialBatch,     \* max_batch_size of the engine
  BatchSizes,       \* what the file and the program set max_batch_size to
  Limits,           \* the sizes of the caller's arrays
  MaxSubmits, MaxEdits

VARIABLES
  pending_keys,     \* the keys, from slot 1
  pending_count,
  age,              \* milliseconds since pending_first_ms, up to Timeout
  max_batch_size,
  submitted,
  drained,          \* the keys handed out, in order
  out,              \* size of the last batch, -1 when none was ready
  file,             \* the configuration file
  config_mtime,
  reload            \* the edit last loaded and what the last reload returned

vars == <<pending_keys, pending_count, age, max_batch_size, submitted, drained, out, file,
          config_mtime, reload>>
batch == <<pending_keys, pending_count, age, submitted, drained, out>>
config == <<file, config_mtime, reload>>

Blank == 0     \* a slot never written
Junk == -1     \* what lies behind the last slot

Init ==
  /\ pending_keys = [i \in 1 .. Slots |-> Blank] /\ pending_count = 0 /\ age = 0
  /\ max_batch_size = InitialBatch /\ submitted = 0 /\ drained = <<>> /\ out = -1
  /\ file = [edit |-> 0, size |-> InitialBatch, readable |-> TRUE]
  /\ config_mtime = -1 /\ reload = [edit |-> -1, ret |-> 1]

-----------------------------------------------------------------------------
(* Batching *)

\* SNEPPX_serving_batch_submit: the count grows even when no slot is left.
Submit ==
  /\ submitted < MaxSubmits
  /\ submitted' = submitted + 1
  /\ pending_keys' = IF pending_count < Slots
                     THEN [pending_keys EXCEPT ![pending_count + 1] = submitted']
                     ELSE pending_keys
  /\ pending_count' = pending_count + 1
  /\ age' = IF pending_count = 0 THEN 0 ELSE age
  /\ UNCHANGED <<max_batch_size, drained, out, config>>

Key(i) == IF i <= Slots THEN pending_keys[i] ELSE Junk

\* Mutant of Ready: only a full batch is ready.
ReadyFull == pending_count >= max_batch_size

Ready == pending_count >= max_batch_size \/ (pending_count > 0 /\ age >= Timeout)

\* The memmove of what is left to the front.
Rotated(n) == [i \in 1 .. Slots |-> IF i <= pending_count - n THEN Key(i + n) ELSE pending_keys[i]]

\* SNEPPX_serving_batch_drain into an array of that size.
Drain(max) ==
  LET n == IF pending_count > max THEN max ELSE pending_count IN
  /\ IF Ready
     THEN /\ drained' = drained \o [i \in 1 .. n |-> Key(i)]
          /\ pending_keys' = Rotated(n) /\ pending_count' = pending_count - n
          /\ age' = IF pending_count' = 0 THEN 0 ELSE age
          /\ out' = n
     ELSE out' = -1 /\ UNCHANGED <<drained, pending_keys, pending_count, age>>
  /\ UNCHANGED <<submitted, max_batch_size, config>>

Tick ==
  /\ pending_count > 0 /\ age < Timeout /\ age' = age + 1
  /\ UNCHANGED <<pending_keys, pending_count, submitted, drained, out, max_batch_size, config>>

-----------------------------------------------------------------------------
(* Configuration *)

\* SNEPPX_serving_engine_configure: only a positive size counts.
Configure(b) ==
  /\ max_batch_size' = IF b > 0 THEN b ELSE max_batch_size
  /\ UNCHANGED <<batch, config>>

\* The file gets a new content, perhaps one that cannot be opened yet, or
\* becomes readable again.
EditFile(b, r) ==
  /\ \/ file.edit < MaxEdits /\ file' = [edit |-> file.edit + 1, size |-> b, readable |-> r]
     \/ ~file.readable /\ r /\ file' = [file EXCEPT !.readable = TRUE]
  /\ UNCHANGED <<batch, max_batch_size, config_mtime, reload>>

\* SNEPPX_serving_config_reload.  Every edit here has a second of its own, so
\* its number is its modification time.  The time is noted before the open.
Reload ==
  /\ config_mtime' = file.edit
  /\ IF file.edit = config_mtime
     THEN reload' = [reload EXCEPT !.ret = 0] /\ UNCHANGED max_batch_size
     ELSE IF ~file.readable
     THEN reload' = [reload EXCEPT !.ret = -1] /\ UNCHANGED max_batch_size
     ELSE reload' = [edit |-> file.edit, ret |-> 1] /\ max_batch_size' = file.size
  /\ UNCHANGED <<batch, file>>

Next ==
  \/ Submit \/ Tick \/ Reload
  \/ \E max \in Limits : Drain(max)
  \/ \E b \in BatchSizes : Configure(b) \/ \E r \in BOOLEAN : EditFile(b, r)

\* The serving loop drains again and again, and time passes.
Fairness == WF_vars(Tick) /\ \A max \in Limits : WF_vars(Drain(max))
Spec == Init /\ [][Next]_vars /\ Fairness

-----------------------------------------------------------------------------
(* Properties *)

\* Draining hands out exactly what was submitted, in order: the keys already
\* drained, followed by the pending ones, are 1, 2, 3, ...
KeysInOrder ==
  drained \o [i \in 1 .. pending_count |-> Key(i)] = [i \in 1 .. submitted |-> i]

\* A batch that is reported ready is not empty.
ReadyNotEmpty == out # 0

\* Every request that was submitted gets into a batch, full or timed out.
EventuallyDrained == \A k \in 1 .. MaxSubmits : submitted >= k ~> Len(drained) >= k

\* A reload that says "unchanged" is right: the engine has the file's values.
UnchangedIsLoaded == reload.ret = 0 => reload.edit = file.edit \/ file.edit # config_mtime
=============================================================================
