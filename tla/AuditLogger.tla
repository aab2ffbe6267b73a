---------------------------- MODULE AuditLogger ----------------------------
(***************************************************************************)
(* audit_logger.py: AuditLogger with a FileAuditBackend.  Callers log      *)
(* events concurrently; the backend chains, writes and rotates under its   *)
(* lock.  An event is its number in the order of the log calls and stands  *)
(* for its hash (SHA-256 taken as free of collisions); 0 is the zero hash. *)
(***************************************************************************)
EXTENDS Integers, Sequences, SequencesExt, FiniteSetsExt

CONSTANTS
  Callers,
  MaxEvents,        \* bound on the events
  FileSize,         \* events that fill a file (max_file_size)
  max_files,
  MaxRestarts,      \* processes started again on the same directory
  MaxFailures,      \* writes that raise, e.g. on a full disk
  SameSecond        \* whether two rotations may fall into one second

VARIABLES
  second,       \* the clock in seconds, which names the files
  stamps,       \* history: the time stamps given so far, one per event
  prev_hash,    \* _prev_hash of the backend
  old,          \* the compressed files, the last modified one last
  current,      \* the file that is open
  th,           \* th[c]: the event that caller c is logging, 0 if none
  restarts, failures,
  written       \* history: the events whose write returned, in order

vars == <<second, stamps, prev_hash, old, current, th, restarts, failures, written>>

File(s) == [name |-> s, entries |-> <<>>]

Init ==
  /\ second = 0 /\ stamps = 0 /\ prev_hash = 0 /\ old = <<>> /\ current = File(0)
  /\ th = [c \in Callers |-> 0] /\ restarts = 0 /\ failures = 0 /\ written = <<>>

Tick ==
  /\ second <= current.name /\ second' = second + 1
  /\ UNCHANGED <<stamps, prev_hash, old, current, th, restarts, failures, written>>

\* log: the time stamp is taken first and the event is made.
Stamp(c) ==
  /\ th[c] = 0 /\ stamps < MaxEvents
  /\ stamps' = stamps + 1 /\ th' = [th EXCEPT ![c] = stamps + 1]
  /\ UNCHANGED <<second, prev_hash, old, current, restarts, failures, written>>

\* A filter drops the event.
Drop(c) ==
  /\ th[c] # 0 /\ th' = [th EXCEPT ![c] = 0]
  /\ UNCHANGED <<second, stamps, prev_hash, old, current, restarts, failures, written>>

-----------------------------------------------------------------------------
(* FileAuditBackend.write, under its lock *)

\* _rotate: the oldest files are removed while there are more than max_files.
Kept(fs) == SubSeq(fs, Max({1, Len(fs) - max_files + 1}), Len(fs))

\* The file is copied to a .gz of the same name, over one that is there.
Compressed(f) == Append(SelectSeq(old, LAMBDA g : g.name # f.name), f)

Entry(n) == [n |-> n, prev |-> prev_hash]

\* Mutant of Chained: the hash of the last event is not kept.
ChainedNot(n) == prev_hash

Chained(n) == n

Write(c) ==
  LET n == th[c]
      f == [current EXCEPT !.entries = Append(@, Entry(n))] IN
  /\ n # 0 /\ th' = [th EXCEPT ![c] = 0]
  /\ prev_hash' = Chained(n) /\ written' = Append(written, n)
  /\ IF Len(f.entries) >= FileSize
     THEN (SameSecond \/ second > f.name) /\ old' = Kept(Compressed(f)) /\ current' = File(second)
     ELSE current' = f /\ UNCHANGED old
  /\ UNCHANGED <<second, stamps, restarts, failures>>

\* The write to the file raises after the hash was chained; log swallows it.
WriteFails(c) ==
  /\ th[c] # 0 /\ failures < MaxFailures /\ failures' = failures + 1
  /\ prev_hash' = Chained(th[c]) /\ th' = [th EXCEPT ![c] = 0]
  /\ UNCHANGED <<second, stamps, old, current, restarts, written>>

\* A process ends and another one opens a file in the same directory, in a
\* later second; the file that was open stays as it is.
Restart ==
  /\ restarts < MaxRestarts /\ restarts' = restarts + 1 /\ second > current.name
  /\ \A c \in Callers : th[c] = 0
  /\ old' = Append(old, current) /\ current' = File(second) /\ prev_hash' = 0
  /\ UNCHANGED <<second, stamps, th, failures, written>>

Next == Tick \/ Restart \/ \E c \in Callers : Stamp(c) \/ Drop(c) \/ Write(c) \/ WriteFails(c)

Spec == Init /\ [][Next]_vars

-----------------------------------------------------------------------------
(* AuditLogger.verify_chain *)

Entries == FlattenSeq([i \in DOMAIN old |-> old[i].entries]) \o current.entries

\* The entries are sorted by time stamp and each must name its predecessor.
verify_chain(es) ==
  LET s == SortSeq(es, LAMBDA x, y : x.n < y.n) IN
  \A i \in DOMAIN s : s[i].prev = IF i = 1 THEN 0 ELSE s[i - 1].n

-----------------------------------------------------------------------------
(* Properties *)

\* What was logged and never altered verifies, after any number of rotations.
ChainVerifies == verify_chain(Entries)

\* A write that returned is found in the files, in the order of the writes.
NoneLost == [i \in DOMAIN Entries |-> Entries[i].n] = written

\* The chain never forks: two entries with one predecessor come from
\* processes that both began with the zero hash.
NoFork ==
  LET es == Entries IN
  \A i, j \in DOMAIN es : i # j /\ es[i].prev = es[j].prev => es[i].prev = 0 /\ restarts > 0

\* Retention: besides the open file at most max_files files are kept, and one
\* more for each process that ended without a rotation.
Retained == Len(old) <= max_files + restarts
=============================================================================
