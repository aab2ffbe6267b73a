------------------------------ MODULE MemPool ------------------------------
(***************************************************************************)
(* One size class of the pool allocator in kernel/memory/allocator.c: the  *)
(* Treiber stack of free blocks, the cache of every thread, and chunks     *)
(* that are mapped when the stack is empty.  Every access to the head of   *)
(* the stack, to the link in a block and to the list of chunks is a step;  *)
(* a thread's own cache is private.  Block 0 is NULL.                      *)
(***************************************************************************)
EXTENDS Integers, Sequences, FiniteSets

CONSTANTS
  Threads,
  BLOCKS,         \* blocks_per_chunk
  MaxChunks,      \* chunks that the system grants in all
  TLS_MAX,        \* SNEPPX_TLS_CACHE_MAX, 32 in the code
  MaxDestroys,    \* bound on SNEPPX_mem_pool_destroy
  Flushes         \* whether a thread ever calls SNEPPX_tls_cache_destroy

VARIABLES
  pool,       \* "no", "running" while it is initialised, "yes"
  head,       \* the top of the stack
  link,       \* link[b]: the first word of block b
  tls,        \* tls[t]: the cache of thread t
  held,       \* held[t]: blocks given to the caller
  chunks,     \* the chunks on g_chunk_list
  mapped,     \* the chunks that are mapped
  granted, destroys,
  th          \* th[t]: what thread t is doing

vars == <<pool, head, link, tls, held, chunks, mapped, granted, destroys, th>>

Blocks == 1 .. BLOCKS * MaxChunks
ChunkOf(b) == 1 + ((b - 1) \div BLOCKS)
BlocksOf(c) == [i \in 1 .. BLOCKS |-> (c - 1) * BLOCKS + i]

\* ready: SNEPPX_mem_pool_init has returned; old, nxt: what was loaded; todo:
\* blocks to push, then the thread goes on at after; null: an allocation of
\* the thread has failed though memory was there.
Thread0 == [pc |-> "idle", ready |-> FALSE, old |-> 0, nxt |-> 0, todo |-> <<>>,
            after |-> "idle", grown |-> FALSE, list |-> {}, null |-> FALSE]

Init ==
  /\ pool = "no" /\ head = 0 /\ link = [b \in Blocks |-> 0]
  /\ tls = [t \in Threads |-> <<>>] /\ held = [t \in Threads |-> {}]
  /\ chunks = {} /\ mapped = {} /\ granted = 0 /\ destroys = 0
  /\ th = [t \in Threads |-> Thread0]

At(t, pc) == th[t].pc = pc
Keep(t, r) == th' = [th EXCEPT ![t] = r]
Owned(t, b) == held' = [held EXCEPT ![t] = @ \cup {b}]

-----------------------------------------------------------------------------
(* SNEPPX_mem_pool_init and SNEPPX_mem_pool_destroy *)

InitFirst(t) ==
  /\ At(t, "idle") /\ ~th[t].ready
  /\ IF pool = "no" THEN pool' = "running" /\ Keep(t, [th[t] EXCEPT !.pc = "init"])
     ELSE UNCHANGED pool /\ Keep(t, [th[t] EXCEPT !.ready = TRUE])
  /\ UNCHANGED <<head, link, tls, held, chunks, mapped, granted, destroys>>

InitBody(t) ==
  /\ At(t, "init") /\ pool' = "yes" /\ head' = 0 /\ chunks' = {}
  /\ Keep(t, [th[t] EXCEPT !.pc = "idle", !.ready = TRUE])
  /\ UNCHANGED <<link, tls, held, mapped, granted, destroys>>

\* No thread is in the pool and no block is in use; the caches of other
\* threads stay as they are.
Destroy(t) ==
  /\ destroys < MaxDestroys /\ destroys' = destroys + 1
  /\ pool = "yes" /\ \A u \in Threads : At(u, "idle") /\ held[u] = {}
  /\ mapped' = mapped \ chunks /\ chunks' = {} /\ head' = 0 /\ pool' = "no"
  /\ tls' = [tls EXCEPT ![t] = <<>>]
  /\ th' = [u \in Threads |-> [th[u] EXCEPT !.ready = FALSE]]
  /\ UNCHANGED <<link, held, granted>>

-----------------------------------------------------------------------------
(* SNEPPX_pool_alloc *)

AllocCached(t) ==
  /\ At(t, "idle") /\ th[t].ready /\ tls[t] # <<>>
  /\ LET b == Head(tls[t]) IN Owned(t, b) /\ link' = [link EXCEPT ![b] = 0]
  /\ tls' = [tls EXCEPT ![t] = Tail(@)]
  /\ UNCHANGED <<pool, head, chunks, mapped, granted, destroys, th>>

\* lf_pop has loaded the head: it reads the link next, or the pool grows.
Loaded(t, r) ==
  Keep(t, [r EXCEPT !.old = head,
                    !.pc = IF head # 0 THEN "next" ELSE IF r.grown THEN "idle" ELSE "grow"])

PopLoad(t) ==
  /\ \/ At(t, "idle") /\ th[t].ready /\ tls[t] = <<>> /\ Loaded(t, [th[t] EXCEPT !.grown = FALSE])
     \/ At(t, "again") /\ Loaded(t, th[t])
  /\ UNCHANGED <<pool, head, link, tls, held, chunks, mapped, granted, destroys>>

PopNext(t) ==
  /\ At(t, "next") /\ Keep(t, [th[t] EXCEPT !.pc = "cas", !.nxt = link[th[t].old]])
  /\ UNCHANGED <<pool, head, link, tls, held, chunks, mapped, granted, destroys>>

\* Mutant of Swaps: the head is stored whatever it has become.
SwapsAlways(t) == TRUE

Swaps(t) == head = th[t].old

PopCas(t) ==
  /\ At(t, "cas")
  /\ IF Swaps(t)
     THEN /\ head' = th[t].nxt /\ Owned(t, th[t].old) /\ link' = [link EXCEPT ![th[t].old] = 0]
          /\ Keep(t, [th[t] EXCEPT !.pc = "idle"])
     ELSE Loaded(t, th[t]) /\ UNCHANGED <<head, held, link>>
  /\ UNCHANGED <<pool, tls, chunks, mapped, granted, destroys>>

\* The block size is set by the first initialisation and stays.
Sized == pool = "yes" \/ destroys > 0

\* pool_grow: a chunk is mapped, unless the system refuses it or the pool has
\* no block size yet; then g_chunk_list is read,
Grow(t) ==
  /\ At(t, "grow")
  /\ \/ /\ Sized /\ granted < MaxChunks
        /\ granted' = granted + 1 /\ mapped' = mapped \cup {granted + 1}
        /\ Keep(t, [th[t] EXCEPT !.pc = "record", !.list = chunks, !.todo = BlocksOf(granted + 1)])
     \/ /\ Keep(t, [th[t] EXCEPT !.pc = "idle", !.null = ~Sized])
        /\ UNCHANGED <<granted, mapped>>
  /\ UNCHANGED <<pool, head, link, tls, held, chunks, destroys>>

Recorded(t) == th[t].list \cup {ChunkOf(Head(th[t].todo))}

\* and written; the blocks are pushed one after the other.
Record(t) ==
  /\ At(t, "record") /\ chunks' = Recorded(t)
  /\ Keep(t, [th[t] EXCEPT !.pc = "push", !.after = "again", !.grown = TRUE])
  /\ UNCHANGED <<pool, head, link, tls, held, mapped, granted, destroys>>

-----------------------------------------------------------------------------
(* SNEPPX_pool_free, SNEPPX_tls_cache_destroy and lf_push *)

Free(t, b) ==
  /\ At(t, "idle") /\ b \in held[t] /\ held' = [held EXCEPT ![t] = @ \ {b}]
  /\ IF Len(tls[t]) < TLS_MAX
     THEN /\ link' = [link EXCEPT ![b] = IF tls[t] = <<>> THEN 0 ELSE Head(tls[t])]
          /\ tls' = [tls EXCEPT ![t] = <<b>> \o @] /\ UNCHANGED th
     ELSE /\ Keep(t, [th[t] EXCEPT !.pc = "push", !.todo = <<b>>, !.after = "idle"])
          /\ UNCHANGED <<link, tls>>
  /\ UNCHANGED <<pool, head, chunks, mapped, granted, destroys>>

Flush(t) ==
  /\ Flushes /\ At(t, "idle") /\ tls[t] # <<>> /\ tls' = [tls EXCEPT ![t] = <<>>]
  /\ Keep(t, [th[t] EXCEPT !.pc = "push", !.todo = tls[t], !.after = "idle"])
  /\ UNCHANGED <<pool, head, link, held, chunks, mapped, granted, destroys>>

PushLoad(t) ==
  /\ At(t, "push") /\ link' = [link EXCEPT ![Head(th[t].todo)] = head]
  /\ Keep(t, [th[t] EXCEPT !.pc = "pcas", !.old = head])
  /\ UNCHANGED <<pool, head, tls, held, chunks, mapped, granted, destroys>>

PushCas(t) ==
  /\ At(t, "pcas")
  /\ IF Swaps(t)
     THEN /\ head' = Head(th[t].todo)
          /\ Keep(t, [th[t] EXCEPT !.todo = Tail(@),
                                   !.pc = IF Len(th[t].todo) > 1 THEN "push" ELSE th[t].after])
     ELSE Keep(t, [th[t] EXCEPT !.pc = "push"]) /\ UNCHANGED head
  /\ UNCHANGED <<pool, link, tls, held, chunks, mapped, granted, destroys>>

Next == \E t \in Threads :
  \/ InitFirst(t) \/ InitBody(t) \/ Destroy(t)
  \/ AllocCached(t) \/ PopLoad(t) \/ PopNext(t) \/ PopCas(t) \/ Grow(t) \/ Record(t)
  \/ Flush(t) \/ PushLoad(t) \/ PushCas(t) \/ \E b \in Blocks : Free(t, b)

Spec == Init /\ [][Next]_vars

-----------------------------------------------------------------------------
(* Properties *)

OnStack ==
  LET at[n \in 0 .. BLOCKS * MaxChunks] ==
        IF n = 0 THEN head ELSE IF at[n - 1] = 0 THEN 0 ELSE link[at[n - 1]]
  IN {at[n] : n \in DOMAIN at} \ {0}
Cached(t) == {tls[t][i] : i \in DOMAIN tls[t]}
Pushing(t) == {th[t].todo[i] : i \in DOMAIN th[t].todo}
Private(t) == held[t] \cup Cached(t) \cup Pushing(t)

\* A block has one owner: a caller, a cache, a push in progress or the stack.
OneOwner ==
  /\ \A t \in Threads : Private(t) \cap OnStack = {}
  /\ \A t, u \in Threads : t # u => Private(t) \cap Private(u) = {}
  /\ \A t \in Threads : held[t] \cap Cached(t) = {}

\* No block of a mapped chunk is lost, also when pushes and pops race.
NoBlockLost ==
  {b \in Blocks : ChunkOf(b) \in mapped} \subseteq OnStack \cup UNION {Private(t) : t \in Threads}

\* Every mapped chunk is recorded for the clean-up once its thread is done.
ChunksRecorded == (\A t \in Threads : At(t, "idle")) => mapped \subseteq chunks

\* A block given to a caller is mapped.
NoDangling == \A t \in Threads : \A b \in held[t] : ChunkOf(b) \in mapped

\* A thread whose call of init returned can allocate.
InitThenAlloc == \A t \in Threads : ~th[t].null
=============================================================================
