---------------------------- MODULE RemoteAudit ----------------------------
(***************************************************************************)
(* RemoteAPIAuditBackend of audit_logger.py: callers append events to a    *)
(* buffer, a worker thread posts them in batches, a batch that fails is    *)
(* put back.  _lock is a threading.Lock, which its holder cannot take      *)
(* again.  Events are numbered in the order of the calls.                  *)
(***************************************************************************)
EXTENDS Integers, Sequences, SequencesExt, FiniteSetsExt

CONSTANTS
  Callers,
  batch_size,
  MaxEvents,        \* bound on the events
  MaxFailures       \* bound on the posts that raise

Worker == "worker"
Closer == "closer"
Flushers == {Worker, Closer}
Free == "free"

VARIABLES
  prev_hash,      \* _prev_hash
  lock,           \* the holder of _lock, or Free
  buffer,         \* _buffer
  running,        \* _running
  th,             \* th[c]: where caller c is, and the hash it chained to
  batch,          \* batch[f]: the batch that flusher f is posting
  fl,             \* fl[f]: where flusher f is
  received,       \* what the server has received
  events, failures,
  links           \* history: the predecessor each event was chained to

vars == <<prev_hash, lock, buffer, running, th, batch, fl, received, events, failures, links>>

Init ==
  /\ prev_hash = 0 /\ lock = Free /\ buffer = <<>> /\ running = TRUE
  /\ th = [c \in Callers |-> [pc |-> "idle", n |-> 0, prev |-> 0]]
  /\ batch = [f \in Flushers |-> <<>>] /\ fl = [f \in Flushers |-> "idle"]
  /\ received = <<>> /\ events = 0 /\ failures = 0 /\ links = <<>>

-----------------------------------------------------------------------------
(* write *)

\* The previous hash is read without the lock,
ReadPrev(c) ==
  /\ running /\ th[c].pc = "idle" /\ events < MaxEvents /\ events' = events + 1
  /\ th' = [th EXCEPT ![c] = [pc |-> "read", n |-> events + 1, prev |-> prev_hash]]
  /\ UNCHANGED <<prev_hash, lock, buffer, running, batch, fl, received, failures, links>>

\* and replaced once the hash of the event is computed.
SetPrev(c) ==
  /\ th[c].pc = "read" /\ prev_hash' = th[c].n /\ links' = Append(links, th[c].prev)
  /\ th' = [th EXCEPT ![c].pc = "acquire"]
  /\ UNCHANGED <<lock, buffer, running, batch, fl, received, events, failures>>

Full == Len(buffer) + 1 >= batch_size

\* With a full batch write calls _flush_batch, which takes the lock, inside
\* its own use of the lock: the caller waits for itself and has no next step.
Enqueue(c) ==
  /\ th[c].pc = "acquire" /\ lock = Free
  /\ buffer' = Append(buffer, th[c].n)
  /\ IF Full THEN lock' = c /\ th' = [th EXCEPT ![c].pc = "flush"]
     ELSE UNCHANGED lock /\ th' = [th EXCEPT ![c].pc = "idle"]
  /\ UNCHANGED <<prev_hash, running, batch, fl, received, events, failures, links>>

-----------------------------------------------------------------------------
(* _flush_worker, _flush_batch and close *)

Rest == SubSeq(buffer, batch_size + 1, Len(buffer))

Take(f) ==
  /\ lock = Free /\ fl[f] = "idle" /\ buffer # <<>>
  /\ f = Closer => ~running
  /\ batch' = [batch EXCEPT ![f] = SubSeq(buffer, 1, Min({batch_size, Len(buffer)}))]
  /\ buffer' = Rest /\ fl' = [fl EXCEPT ![f] = "post"]
  /\ UNCHANGED <<prev_hash, lock, running, th, received, events, failures, links>>

After(f) == IF f = Worker /\ running THEN "idle" ELSE "done"

Post(f) ==
  /\ fl[f] = "post" /\ received' = received \o batch[f]
  /\ batch' = [batch EXCEPT ![f] = <<>>] /\ fl' = [fl EXCEPT ![f] = After(f)]
  /\ UNCHANGED <<prev_hash, lock, buffer, running, th, events, failures, links>>

\* urlopen raises: the server may have received the batch all the same.
PostFails(f) ==
  /\ fl[f] = "post" /\ failures < MaxFailures /\ failures' = failures + 1
  /\ received' \in {received, received \o batch[f]}
  /\ fl' = [fl EXCEPT ![f] = "requeue"]
  /\ UNCHANGED <<prev_hash, lock, buffer, running, th, batch, events, links>>

\* Mutant of Requeued: the batch goes to the end of the buffer.
RequeuedLast(b) == buffer \o b

Requeued(b) == b \o buffer

Requeue(f) ==
  /\ fl[f] = "requeue" /\ lock = Free /\ buffer' = Requeued(batch[f])
  /\ batch' = [batch EXCEPT ![f] = <<>>] /\ fl' = [fl EXCEPT ![f] = After(f)]
  /\ UNCHANGED <<prev_hash, lock, running, th, received, events, failures, links>>

\* close: _running is cleared; then one more batch is flushed (Take(Closer)).
\* The worker, when it wakes up, flushes one more as well and ends.
Close ==
  /\ running /\ running' = FALSE /\ \A c \in Callers : th[c].pc = "idle"
  /\ UNCHANGED <<prev_hash, lock, buffer, th, batch, fl, received, events, failures, links>>

Caller(c) == ReadPrev(c) \/ SetPrev(c) \/ Enqueue(c)
Flusher(f) == Take(f) \/ Post(f) \/ PostFails(f) \/ Requeue(f)

Next == Close \/ (\E c \in Callers : Caller(c)) \/ (\E f \in Flushers : Flusher(f))

\* Threads go on, and the worker wakes up again and again.
Spec ==
  /\ Init /\ [][Next]_vars
  /\ \A c \in Callers : WF_vars(SetPrev(c)) /\ WF_vars(Enqueue(c))
  /\ WF_vars(Take(Worker)) /\ \A f \in Flushers : WF_vars(Post(f) \/ PostFails(f)) /\ WF_vars(Requeue(f))

-----------------------------------------------------------------------------
(* Properties *)

Buffered == {n \in 1 .. events : \A c \in Callers : ~(th[c].n = n /\ th[c].pc \in {"read", "acquire"})}

\* An event that entered the buffer is there, in a batch that is posted, or
\* with the server.
NoEventLost == Buffered = ToSet(buffer) \cup ToSet(received) \cup UNION {ToSet(batch[f]) : f \in Flushers}

\* Logging never waits for the server: every write returns.
WritesReturn == \A c \in Callers : th[c].pc # "idle" ~> th[c].pc = "idle"

\* While the backend is open, every event reaches the server.
Delivered == \A n \in 1 .. MaxEvents : (n \in ToSet(buffer)) ~> (n \in ToSet(received) \/ ~running)

\* What the server receives first is in the order of the buffer, before close.
InOrder ==
  running => \A i, j \in DOMAIN received :
    i < j /\ (\A k \in 1 .. j - 1 : received[k] # received[j]) => received[i] < received[j]

\* Each event names the one before it.
LinksChained == \A i, j \in DOMAIN links : i # j => links[i] # links[j]

\* An event is received once.
ReceivedOnce == \A i, j \in DOMAIN received : i # j => received[i] # received[j]
=============================================================================
