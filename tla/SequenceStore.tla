--------------------------- MODULE SequenceStore ---------------------------
(***************************************************************************)
(* What the paged key/value cache of paged_attention.py promises to its    *)
(* users: every sequence has an array of its own per layer, zero where     *)
(* nothing was stored.  A fork starts as a copy, and what happens to one   *)
(* sequence is never seen by another.  There are no blocks here.           *)
(***************************************************************************)
CONSTANTS Sequences, Layers, Positions, Values, Zero

VARIABLES live, stored   \* the sequences, and stored[s][l][p]

contents == <<live, stored>>

Blank == [l \in Layers |-> [p \in Positions |-> Zero]]

Init == live = {} /\ stored = [s \in Sequences |-> Blank]

New(s) ==
  /\ s \notin live
  /\ live' = live \cup {s}
  /\ UNCHANGED stored

Fork(s, child) ==
  /\ s \in live /\ child \notin live
  /\ live' = live \cup {child}
  /\ stored' = [stored EXCEPT ![child] = stored[s]]

Write(s, l, p, v) ==
  /\ s \in live
  /\ stored' = [stored EXCEPT ![s][l][p] = v]
  /\ UNCHANGED live

\* The sequence is emptied; its user may go on and fill it again.
Clear(s) ==
  /\ s \in live
  /\ stored' = [stored EXCEPT ![s] = Blank]
  /\ UNCHANGED live

Next ==
  \/ \E s \in Sequences : New(s) \/ Clear(s)
  \/ \E s, child \in Sequences : Fork(s, child)
  \/ \E s \in Sequences, l \in Layers, p \in Positions, v \in Values :
       Write(s, l, p, v)

Spec == Init /\ [][Next]_contents
=============================================================================
