------------------------------ MODULE PagedKV ------------------------------
(***************************************************************************)
(* KVBlockPool, BlockTable and PagedKVCache of                             *)
(* bindings/python/SneppX_ALG/interface_bindings/paged_attention.py: a     *)
(* pool of reference-counted blocks, block tables that share blocks after  *)
(* a fork, and copy on write.  The code is sequential: an operation that   *)
(* takes several blocks or writes several slots is several steps here, and *)
(* no other operation begins before it has returned or raised.  A slot's   *)
(* key and value are one value.                                            *)
(***************************************************************************)
EXTENDS Integers, Sequences, FiniteSets, SequencesExt

CONSTANTS
  NumBlocks, BlockSize,
  Tables,     \* the block tables that may be made
  Layers,     \* the values of the layer argument
  MaxPos,     \* positions are 0 .. MaxPos
  MaxStore,   \* most positions of one store
  Values, Zero,
  None        \* no table

VARIABLES
  free,       \* pool._free, a stack
  refcounts,  \* pool._refcounts
  slots,      \* pool.keys and pool.values: slots[b][i]
  live,       \* the tables that allocate or fork has returned
  table,      \* table[t]: block_ids
  op,         \* the operation under way: idle, allocate or use
  who,        \* its table
  need,       \* the number of blocks it wants the table to have
  got,        \* allocate: the blocks taken so far
  writes,     \* store: what is still to be written
  leaked      \* history: blocks taken by an allocate that raised

poolVars == <<free, refcounts, slots>>
opVars == <<op, who, need, got, writes>>
vars == <<poolVars, live, table, opVars, leaked>>

Blocks == 0 .. NumBlocks - 1
Positions == 0 .. MaxPos
BlockOf(p) == (p \div BlockSize) + 1
SlotOf(p) == p % BlockSize
EmptyBlock == [i \in 0 .. BlockSize - 1 |-> Zero]
Entries(t) == {table[t][i] : i \in 1 .. Len(table[t])}

Init ==
  /\ free = [i \in 1 .. NumBlocks |-> i - 1]
  /\ refcounts = [b \in Blocks |-> 0]
  /\ slots = [b \in Blocks |-> EmptyBlock]
  /\ live = {} /\ table = [t \in Tables |-> <<>>]
  /\ op = "idle" /\ who = None /\ need = 0 /\ got = <<>> /\ writes = <<>>
  /\ leaked = {}

-----------------------------------------------------------------------------
(* KVBlockPool *)

\* The block that allocate takes off the free list, with one reference.
Top == free[Len(free)]
pool_allocate ==
  /\ free # <<>>
  /\ free' = SubSeq(free, 1, Len(free) - 1)
  /\ refcounts' = [refcounts EXCEPT ![Top] = 1]

\* Mutant of unref: the block is not cleared.
UnrefDirty(ids) ==
  LET gone == {b \in ToSet(ids) : refcounts[b] <= 1} IN
  /\ refcounts' = [b \in Blocks |-> IF b \in gone THEN 0
                                    ELSE IF b \in ToSet(ids) THEN refcounts[b] - 1
                                    ELSE refcounts[b]]
  /\ free' = free \o SelectSeq(ids, LAMBDA b : b \in gone)
  /\ UNCHANGED slots

\* unref of every block of ids; those without a reference are cleared and freed.
unref(ids) ==
  LET gone == {b \in ToSet(ids) : refcounts[b] <= 1} IN
  /\ refcounts' = [b \in Blocks |-> IF b \in gone THEN 0
                                    ELSE IF b \in ToSet(ids) THEN refcounts[b] - 1
                                    ELSE refcounts[b]]
  /\ slots' = [b \in Blocks |-> IF b \in gone THEN EmptyBlock ELSE slots[b]]
  /\ free' = free \o SelectSeq(ids, LAMBDA b : b \in gone)

is_shared(b) == refcounts[b] > 1

-----------------------------------------------------------------------------
(* PagedKVCache.allocate: blocks one by one, then the table. *)

Done == op' = "idle" /\ who' = None /\ need' = 0 /\ got' = <<>> /\ writes' = <<>>

AllocateBegin(t, n) ==
  /\ op = "idle" /\ t \notin live
  /\ op' = "allocate" /\ who' = t /\ need' = n
  /\ UNCHANGED <<poolVars, live, table, got, writes, leaked>>

AllocateBlock ==
  /\ op = "allocate" /\ Len(got) < need
  /\ pool_allocate
  /\ got' = Append(got, Top)
  /\ UNCHANGED <<slots, live, table, op, who, need, writes, leaked>>

\* MemoryError: no table has the blocks that were taken already.
AllocateRaises ==
  /\ op = "allocate" /\ Len(got) < need /\ free = <<>>
  /\ leaked' = leaked \cup ToSet(got)
  /\ Done
  /\ UNCHANGED <<poolVars, live, table>>

AllocateReturns ==
  /\ op = "allocate" /\ Len(got) = need
  /\ live' = live \cup {who}
  /\ table' = [table EXCEPT ![who] = got]
  /\ Done
  /\ UNCHANGED <<poolVars, leaked>>

-----------------------------------------------------------------------------
(* free and fork *)

\* The table object stays with its user, who may store into it again.
FreeTable(t) ==
  /\ op = "idle" /\ t \in live
  /\ unref(table[t])
  /\ table' = [table EXCEPT ![t] = <<>>]
  /\ UNCHANGED <<live, opVars, leaked>>

Fork(t, child) ==
  /\ op = "idle" /\ t \in live /\ child \notin live
  /\ table' = [table EXCEPT ![child] = table[t]]
  /\ refcounts' = [b \in Blocks |-> IF b \in Entries(t) THEN refcounts[b] + 1
                                                      ELSE refcounts[b]]
  /\ live' = live \cup {child}
  /\ UNCHANGED <<free, slots, opVars, leaked>>

-----------------------------------------------------------------------------
(* store and get_kv: _ensure_capacity, then one _write_slot per position.  *)

BlocksFor(seq_len) == (seq_len + BlockSize - 1) \div BlockSize
MaxOf(ps) == CHOOSE m \in ps : \A p \in ps : p <= m

\* store(t, layer, positions, ...); without positions max_pos is 0.
StoreBegin(t) ==
  /\ op = "idle" /\ t \in live
  /\ \E l \in Layers, n \in 0 .. MaxStore :
       \E ps \in [1 .. n -> Positions], vs \in [1 .. n -> Values] :
         /\ need' = BlocksFor(MaxOf({0} \cup {ps[i] : i \in 1 .. n}) + 1)
         /\ writes' = [i \in 1 .. n |-> [layer |-> l, pos |-> ps[i], val |-> vs[i]]]
  /\ op' = "use" /\ who' = t
  /\ UNCHANGED <<poolVars, live, table, got, leaked>>

\* get_kv makes room like store does; what it then reads is read in place.
GetBegin(t, seq_len) ==
  /\ op = "idle" /\ t \in live
  /\ op' = "use" /\ who' = t /\ need' = BlocksFor(seq_len)
  /\ UNCHANGED <<poolVars, live, table, got, writes, leaked>>

\* One turn of _ensure_capacity.
ensure_capacity ==
  /\ op = "use" /\ Len(table[who]) < need
  /\ pool_allocate
  /\ table' = [table EXCEPT ![who] = Append(@, Top)]
  /\ UNCHANGED <<slots, live, opVars, leaked>>

\* _write_slot into a block that the table has for itself.
WriteOwn ==
  /\ op = "use" /\ Len(table[who]) >= need /\ writes # <<>>
  /\ LET w == Head(writes)
         b == table[who][BlockOf(w.pos)]
     IN /\ ~is_shared(b)
        /\ slots' = [slots EXCEPT ![b][SlotOf(w.pos)] = w.val]
  /\ writes' = Tail(writes)
  /\ UNCHANGED <<free, refcounts, live, table, op, who, need, got, leaked>>

\* _write_slot into a shared block: copy_block, unref of the old one (which
\* others still hold), and the table's entry is replaced.
WriteCopied ==
  /\ op = "use" /\ Len(table[who]) >= need /\ writes # <<>>
  /\ LET w == Head(writes)
         i == BlockOf(w.pos)
         b == table[who][i]
     IN /\ is_shared(b)
        /\ free # <<>>
        /\ free' = SubSeq(free, 1, Len(free) - 1)
        /\ refcounts' = [refcounts EXCEPT ![Top] = 1, ![b] = @ - 1]
        /\ slots' = [slots EXCEPT ![Top] = [slots[b] EXCEPT ![SlotOf(w.pos)] = w.val]]
        /\ table' = [table EXCEPT ![who][i] = Top]
  /\ writes' = Tail(writes)
  /\ UNCHANGED <<live, op, who, need, got, leaked>>

\* MemoryError in _ensure_capacity or in copy_block: what was appended or
\* written before stays.
UseRaises ==
  /\ op = "use" /\ free = <<>>
  /\ \/ Len(table[who]) < need
     \/ /\ Len(table[who]) >= need /\ writes # <<>>
        /\ is_shared(table[who][BlockOf(Head(writes).pos)])
  /\ Done
  /\ UNCHANGED <<poolVars, live, table, leaked>>

UseReturns ==
  /\ op = "use" /\ Len(table[who]) >= need /\ writes = <<>>
  /\ Done
  /\ UNCHANGED <<poolVars, live, table, leaked>>

Next ==
  \/ \E t \in Tables, n \in 0 .. NumBlocks : AllocateBegin(t, n)
  \/ AllocateBlock \/ AllocateRaises \/ AllocateReturns
  \/ \E t \in Tables : FreeTable(t) \/ StoreBegin(t)
  \/ \E t, child \in Tables : Fork(t, child)
  \/ \E t \in Tables, n \in 0 .. MaxPos + 1 : GetBegin(t, n)
  \/ ensure_capacity \/ WriteOwn \/ WriteCopied \/ UseRaises \/ UseReturns

Spec == Init /\ [][Next]_vars

-----------------------------------------------------------------------------
(* Properties *)

Holders(b) == {t \in live : b \in Entries(t)}
InFlight == ToSet(got) \cup leaked

\* The count of a block is exactly the number of tables that hold it (one for
\* a block that an allocate has in hand or has leaked), and the free list holds
\* each block without a reference once and no other.
RefsExact ==
  /\ \A b \in Blocks : refcounts[b] = Cardinality(Holders(b))
                                       + IF b \in InFlight THEN 1 ELSE 0
  /\ ToSet(free) = {b \in Blocks : refcounts[b] = 0}
  /\ IsInjective(free)

\* Blocks are recycled: between operations each block is free or in a table.
Recycled ==
  op = "idle" => \A b \in Blocks : b \in ToSet(free) \/ Holders(b) # {}

\* What get_kv gathers for position p of table t.
Gathered(t, p) ==
  IF BlockOf(p) <= Len(table[t]) THEN slots[table[t][BlockOf(p)]][SlotOf(p)]
                                 ELSE Zero

Private == INSTANCE SequenceStore WITH
  Sequences <- Tables,
  stored <- [t \in Tables |-> [l \in Layers |-> [p \in Positions |-> Gathered(t, p)]]]

\* Sharing, copy on write, recycling and a MemoryError in the middle of an
\* operation are invisible: the cache behaves like one private, zeroed array
\* per table and layer.
ImplementsSequenceStore == Private!Spec
=============================================================================
