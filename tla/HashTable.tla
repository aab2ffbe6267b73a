----------------------------- MODULE HashTable ------------------------------
(* The open-addressing hash table of lib/internal/hashtable.c: quadratic     *)
(* probing, tombstones, and growth at a load of three quarters.  Slots are   *)
(* numbered from 0; the hash function is a constant of the model.            *)
EXTENDS Integers, FiniteSets, Functions

CONSTANTS
  Keys, Values,
  Hash,              \* hash_fn: a function from keys to naturals
  InitialCapacity,
  ResizeTo,          \* capacities the caller passes to SNEPPX_ht_resize
  MaxCapacity,       \* bound of the model: no growth beyond it
  None               \* NULL

VARIABLES
  ht,         \* capacity, count and the slots
  map         \* what a map would hold: key -> value

vars == <<ht, map>>

Empty == [key |-> None, value |-> None, occupied |-> FALSE, deleted |-> FALSE]

Table(capacity) ==
  [capacity |-> capacity, count |-> 0, buckets |-> [i \in 0 .. capacity - 1 |-> Empty]]

\* SNEPPX_ht_create
Init == ht = Table(InitialCapacity) /\ map = <<>>

-----------------------------------------------------------------------------

Home(h, key) == Hash[key] % h.capacity

\* The slot of the i-th probe.
Probe(h, key, i) == (Home(h, key) + i * i) % h.capacity

\* Probes pass over occupied slots of other keys and over tombstones.
Passes(h, key, i) ==
  LET e == h.buckets[Probe(h, key, i)]
  IN IF e.occupied THEN e.deleted \/ e.key # key ELSE e.deleted

\* The probe that ends the search, capacity when none does.
Stop(h, key) ==
  LET ends == {i \in 0 .. h.capacity - 1 : ~Passes(h, key, i)}
  IN CHOOSE i \in 0 .. h.capacity :
       /\ i \in ends \/ (i = h.capacity /\ ends = {})
       /\ \A j \in ends : i <= j

\* The probes before it that met a tombstone.
Tombstones(h, key) ==
  {i \in 0 .. Stop(h, key) - 1 : h.buckets[Probe(h, key, i)].deleted}

ht_find_slot(h, key) ==
  LET s == Stop(h, key)
      t == Tombstones(h, key)
      found == s < h.capacity /\ h.buckets[Probe(h, key, s)].occupied
  IN [found |-> found,
      slot |-> IF found THEN Probe(h, key, s)
               ELSE IF t # {} THEN Probe(h, key, CHOOSE i \in t : \A j \in t : i <= j)
               ELSE IF s < h.capacity THEN Probe(h, key, s)
               ELSE Home(h, key)]

\* count / capacity has reached load_factor_threshold, 0.75.
MustGrow(h) == 4 * h.count >= 3 * h.capacity

\* SNEPPX_ht_insert after its resize.
Put(h, key, value) ==
  LET f == ht_find_slot(h, key)
  IN IF f.found THEN [h EXCEPT !.buckets[f.slot].value = value]
     ELSE [h EXCEPT !.count = h.count + 1,
                    !.buckets[f.slot] = [key |-> key, value |-> value,
                                         occupied |-> TRUE, deleted |-> FALSE]]

RECURSIVE ht_insert(_, _, _)
RECURSIVE Refill(_, _, _, _)
\* The loop of SNEPPX_ht_resize over the old slots from i on.
Refill(old, capacity, i, h) ==
  IF i = capacity THEN h
  ELSE LET e == old[i]
       IN Refill(old, capacity, i + 1,
                 IF e.occupied /\ ~e.deleted THEN ht_insert(h, e.key, e.value) ELSE h)

ht_resize(h, capacity) == Refill(h.buckets, h.capacity, 0, Table(capacity))

ht_insert(h, key, value) ==
  Put(IF MustGrow(h) THEN ht_resize(h, 2 * h.capacity) ELSE h, key, value)

-----------------------------------------------------------------------------

\* SNEPPX_ht_insert.  When the growth cannot be allocated it returns -1 and
\* nothing changes.
Insert(key, value) ==
  /\ MustGrow(ht) => 2 * ht.capacity <= MaxCapacity
  /\ ht' = ht_insert(ht, key, value)
  /\ map' = [k \in DOMAIN map \cup {key} |-> IF k = key THEN value ELSE map[k]]

\* SNEPPX_ht_delete; for a key it does not find it returns -1.
Delete(key) ==
  LET f == ht_find_slot(ht, key)
  IN /\ f.found
     /\ ht' = [ht EXCEPT !.buckets[f.slot].deleted = TRUE,
                         !.buckets[f.slot].occupied = FALSE, !.count = ht.count - 1]
     /\ map' = Restrict(map, DOMAIN map \ {key})

\* SNEPPX_ht_clear
Clear == ht' = Table(ht.capacity) /\ map' = <<>>

\* SNEPPX_ht_resize, to a larger or a smaller table.
Resize(capacity) ==
  /\ capacity > ht.count
  /\ ht' = ht_resize(ht, capacity)
  /\ UNCHANGED map

Next ==
  \/ \E k \in Keys, v \in Values : Insert(k, v)
  \/ \E k \in Keys : Delete(k)
  \/ Clear
  \/ \E c \in ResizeTo : Resize(c)

Spec == Init /\ [][Next]_vars

-----------------------------------------------------------------------------
(* Properties *)

\* SNEPPX_ht_lookup
Lookup(key) ==
  LET f == ht_find_slot(ht, key) IN IF f.found THEN ht.buckets[f.slot].value ELSE None

\* Whatever was inserted, deleted, cleared and resized before, a lookup gives
\* the value last inserted under the key, and NULL when there is none.
LookupAgrees ==
  \A k \in Keys : Lookup(k) = IF k \in DOMAIN map THEN map[k] ELSE None

\* count is the number of entries foreach visits, each under a key of its own.
CountExact ==
  LET live == {i \in DOMAIN ht.buckets : ht.buckets[i].occupied /\ ~ht.buckets[i].deleted}
  IN /\ ht.count = Cardinality(live)
     /\ Cardinality({ht.buckets[i].key : i \in live}) = ht.count
=============================================================================
