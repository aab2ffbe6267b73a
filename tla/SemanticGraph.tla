---------------------------- MODULE SemanticGraph ---------------------------
(* The concept graph of kernel/memory/cognition/semantic.c.  Concepts live   *)
(* in slots and edges name slots, while callers name keys.  An embedding is  *)
(* the key it was stored under, or NULL.                                     *)
EXTENDS Integers, Sequences, FiniteSets, SequencesExt

CONSTANTS
  Keys, NULL,
  MaxConcepts, MaxEdges,
  CopiesFail,       \* SNEPPX_tensor_copy may return NULL
  MaxAccess         \* bound of the model on access_counter

VARIABLES
  concepts,         \* the used slots
  edges,            \* the used edges
  access_counter,
  meant,            \* meant[e]: the keys edge e was made for
  recency           \* the valid keys, the most recently used first

vars == <<concepts, edges, access_counter, meant, recency>>

Init ==
  /\ concepts = <<>> /\ edges = <<>> /\ access_counter = 0
  /\ meant = <<>> /\ recency = <<>>

-----------------------------------------------------------------------------

Valid == {i \in DOMAIN concepts : concepts[i].valid}

\* find_concept_idx, as the set of its results
Found(key) == {i \in Valid : concepts[i].key = key}

\* The valid concepts used before the latest access, least recent first.
Victims ==
  {i \in Valid : /\ concepts[i].last_access < access_counter
                 /\ \A j \in Valid : concepts[i].last_access <= concepts[j].last_access}

\* Mutant of Without: only the edges that leave the slot are cut.
WithoutOut(i) ==
  [e \in DOMAIN edges |-> [edges[e] EXCEPT !.valid = @ /\ edges[e].from # i]]

\* The edges once slot i no longer holds its concept.
Without(i) ==
  [e \in DOMAIN edges |->
     [edges[e] EXCEPT !.valid = @ /\ edges[e].from # i /\ edges[e].to # i]]

Dropped(key) == SelectSeq(recency, LAMBDA k : k # key)

\* sneppx_semantic_store into slot i: the copy succeeds, or fails and leaves
\* the slot with its new key and its old valid flag.
Fill(i, slots, key, ok) ==
  IF ok
  THEN [slots EXCEPT ![i] = [key |-> key, embedding |-> key, valid |-> TRUE,
                             last_access |-> access_counter + 1]]
  ELSE [slots EXCEPT ![i].key = key, ![i].embedding = NULL]

Stored(key, ok, before) ==
  /\ access_counter' = IF ok THEN access_counter + 1 ELSE access_counter
  /\ recency' = IF ok THEN <<key>> \o SelectSeq(before, LAMBDA k : k # key) ELSE before
  /\ UNCHANGED meant

StoreAgain(key, ok) ==
  \E i \in Found(key) :
    /\ concepts' = Fill(i, concepts, key, ok)
    /\ Stored(key, ok, recency)
    /\ UNCHANGED edges

NewSlot == [key |-> NULL, embedding |-> NULL, valid |-> FALSE, last_access |-> 0]

StoreNew(key, ok) ==
  /\ Found(key) = {} /\ Len(concepts) < MaxConcepts
  /\ concepts' = Fill(Len(concepts) + 1, Append(concepts, NewSlot), key, ok)
  /\ Stored(key, ok, recency)
  /\ UNCHANGED edges

\* The graph is full: the least recently used concept makes room.  When there
\* is none but the latest, store returns -1.
StoreOver(key, ok) ==
  /\ Found(key) = {} /\ Len(concepts) = MaxConcepts
  /\ \E i \in Victims :
       /\ concepts' = Fill(i, [concepts EXCEPT ![i].valid = FALSE], key, ok)
       /\ edges' = Without(i)
       /\ Stored(key, ok, Dropped(concepts[i].key))

Store(key, ok) ==
  /\ ok \/ CopiesFail
  /\ access_counter < MaxAccess
  /\ StoreAgain(key, ok) \/ StoreNew(key, ok) \/ StoreOver(key, ok)

\* The slots a query scores: each gets a new access number, in slot order.
Scored == {i \in Valid : concepts[i].embedding # NULL}

\* sneppx_semantic_retrieve; the scores are not modelled.
Retrieve ==
  /\ Scored # {} /\ access_counter + Cardinality(Scored) <= MaxAccess
  /\ concepts' = [i \in DOMAIN concepts |->
       IF i \in Scored
       THEN [concepts[i] EXCEPT !.last_access =
               access_counter + Cardinality({j \in Scored : j <= i})]
       ELSE concepts[i]]
  /\ access_counter' = access_counter + Cardinality(Scored)
  /\ recency' = LET touched == SelectSeq([i \in DOMAIN concepts |-> i], LAMBDA i : i \in Scored)
                    keys == [n \in DOMAIN touched |-> concepts[touched[n]].key]
                IN Reverse(keys) \o SelectSeq(recency, LAMBDA k : k \notin ToSet(keys))
  /\ UNCHANGED <<edges, meant>>

\* sneppx_semantic_relate; when the edges are used up, cut ones included, it
\* returns -1.
Relate(from, to) ==
  /\ Len(edges) < MaxEdges
  /\ \E i \in Found(from), j \in Found(to) :
       edges' = Append(edges, [from |-> i, to |-> j, valid |-> TRUE])
  /\ meant' = Append(meant, <<from, to>>)
  /\ UNCHANGED <<concepts, access_counter, recency>>

\* sneppx_semantic_forget
Forget(key) ==
  \E i \in Found(key) :
    /\ concepts' = [concepts EXCEPT ![i].valid = FALSE, ![i].key = NULL,
                                    ![i].embedding = NULL]
    /\ edges' = Without(i)
    /\ recency' = Dropped(key)
    /\ UNCHANGED <<access_counter, meant>>

Next ==
  \/ \E k \in Keys, ok \in BOOLEAN : Store(k, ok)
  \/ Retrieve
  \/ \E k, l \in Keys : Relate(k, l)
  \/ \E k \in Keys : Forget(k)

Spec == Init /\ [][Next]_vars

-----------------------------------------------------------------------------
(* Properties *)

\* Slots are reused for other keys, yet a valid edge always joins the concepts
\* it was made for.
EdgesMeanKeys ==
  \A e \in DOMAIN edges : edges[e].valid =>
    /\ {edges[e].from, edges[e].to} \subseteq Valid
    /\ meant[e] = <<concepts[edges[e].from].key, concepts[edges[e].to].key>>

\* A full graph makes room by dropping the concept that was used longest ago,
\* uses by stores and by queries counted alike, and never the latest.
EvictsStep ==
  \A i \in DOMAIN concepts :
    (i \in Valid /\ concepts'[i].key \notin {concepts[i].key, NULL}) =>
      concepts[i].key = Last(recency)
EvictsOldest == [][EvictsStep]_vars
=============================================================================
