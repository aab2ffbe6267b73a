----------------------------- MODULE ParamSync -----------------------------
(***************************************************************************)
(* sync_params_impl of net/distributed/src/lib.rs: a node stamps each of   *)
(* its parameters with a version and its id, sends them to every peer that *)
(* has not failed, then takes as many messages from each peer and keeps    *)
(* the parameter with the higher stamp.  A value is named by the node and  *)
(* the round that computed it.  A connection may break at any time.        *)
(***************************************************************************)
EXTENDS Integers, Sequences, FiniteSets, SequencesExt

CONSTANTS
  N,          \* nodes are 1 .. N, a node's number is its node_id
  Params,     \* parameters are 1 .. Params
  MaxRounds,  \* bound on the calls of sync_params per node
  MaxBreaks   \* bound on the connections that break

Nodes == 1 .. N
Names == 1 .. Params

VARIABLES
  peers,   \* peers[n]: the other nodes, in the order they were met
  val,     \* val[n][p]: what param_ptrs points to
  store,   \* store[n][p]: the ParamState, with version 0 for none
  pc,      \* idle, send or collect
  todo,    \* the peers of this loop still to do
  later,   \* the peers snapshot, for the second loop
  next,    \* the parameter that the collect loop expects next
  snap,    \* param_snapshots
  failed,  \* failed[n]: the peers marked failed
  wire,    \* wire[n][m]: the stream from n to m
  broken,  \* the pairs {n, m} whose connection is lost
  round    \* calls of sync_params so far

vars == <<peers, val, store, pc, todo, later, next, snap, failed, wire, broken, round>>

None == [data |-> <<0, 0>>, version |-> 0, node_id |-> 0]

Init ==
  /\ peers \in {f \in [Nodes -> UNION {SetToSeqs(S) : S \in SUBSET Nodes}] :
                 \A n \in Nodes : ToSet(f[n]) = Nodes \ {n}}
  /\ val = [n \in Nodes |-> [p \in Names |-> <<n, 0>>]]
  /\ store = [n \in Nodes |-> [p \in Names |-> None]]
  /\ pc = [n \in Nodes |-> "idle"]
  /\ todo = [n \in Nodes |-> <<>>] /\ later = [n \in Nodes |-> <<>>]
  /\ next = [n \in Nodes |-> 1]
  /\ snap = [n \in Nodes |-> <<>>]
  /\ failed = [n \in Nodes |-> {}]
  /\ wire = [n \in Nodes |-> [m \in Nodes |-> <<>>]]
  /\ broken = {} /\ round = [n \in Nodes |-> 0]

Live(n) == SelectSeq(peers[n], LAMBDA m : m \notin failed[n])
Round(n) == round' = [round EXCEPT ![n] = @ + 1]

Snapshot(n, values) ==
  [p \in Names |-> [name |-> p, data |-> values[p],
                    version |-> store[n][p].version + 1, node_id |-> n]]

\* Between two calls the caller trains, so its values are new.
Begin(n) ==
  /\ pc[n] = "idle" /\ round[n] < MaxRounds /\ Live(n) # <<>>
  /\ LET values == [p \in Names |-> <<n, round[n] + 1>>] IN
       /\ val' = [val EXCEPT ![n] = values]
       /\ snap' = [snap EXCEPT ![n] = Snapshot(n, values)]
  /\ pc' = [pc EXCEPT ![n] = "send"]
  /\ todo' = [todo EXCEPT ![n] = Live(n)]
  /\ later' = [later EXCEPT ![n] = Live(n)]
  /\ Round(n)
  /\ UNCHANGED <<peers, store, next, failed, wire, broken>>

\* No peer is left: the call returns at once.
BeginAlone(n) ==
  /\ pc[n] = "idle" /\ round[n] < MaxRounds /\ Live(n) = <<>>
  /\ val' = [val EXCEPT ![n] = [p \in Names |-> <<n, round[n] + 1>>]]
  /\ Round(n)
  /\ UNCHANGED <<peers, store, pc, todo, later, next, snap, failed, wire, broken>>

Send(n, m) ==
  /\ pc[n] = "send" /\ todo[n] # <<>> /\ m = Head(todo[n])
  /\ IF {n, m} \in broken
     THEN failed' = [failed EXCEPT ![n] = @ \cup {m}] /\ UNCHANGED wire
     ELSE wire' = [wire EXCEPT ![n][m] = @ \o snap[n]] /\ UNCHANGED failed
  /\ todo' = [todo EXCEPT ![n] = Tail(@)]
  /\ UNCHANGED <<peers, val, store, pc, later, next, snap, broken, round>>

SentAll(n) ==
  /\ pc[n] = "send" /\ todo[n] = <<>>
  /\ pc' = [pc EXCEPT ![n] = "collect"]
  /\ todo' = [todo EXCEPT ![n] = later[n]]
  /\ UNCHANGED <<peers, val, store, later, next, snap, failed, wire, broken, round>>

\* The loop over the parameters of a peer has one turn less, or is over.
Turn(n) ==
  IF next[n] = Params
  THEN todo' = [todo EXCEPT ![n] = Tail(@)] /\ next' = [next EXCEPT ![n] = 1]
  ELSE todo' = todo /\ next' = [next EXCEPT ![n] = @ + 1]

\* Mutant of Newer: the version alone decides, and the later arrival wins.
NewerOrEqual(msg, old) == msg.version >= old.version

Newer(msg, old) ==
  \/ old = None
  \/ msg.version > old.version
  \/ msg.version = old.version /\ msg.node_id > old.node_id

Serving(n, m) == pc[n] = "collect" /\ todo[n] # <<>> /\ m = Head(todo[n])

Collect(n, m) ==
  /\ Serving(n, m) /\ wire[m][n] # <<>>
  /\ LET msg == Head(wire[m][n])
         p == next[n]
         take == msg.name = p /\ Newer(msg, store[n][p])
     IN /\ store' = [store EXCEPT ![n][p] =
               IF take THEN [data |-> msg.data, version |-> msg.version,
                             node_id |-> msg.node_id] ELSE @]
        /\ val' = [val EXCEPT ![n][p] = IF take THEN msg.data ELSE @]
  /\ wire' = [wire EXCEPT ![m][n] = Tail(@)]
  /\ Turn(n)
  /\ UNCHANGED <<peers, pc, later, snap, failed, broken, round>>

\* Mutant of CollectError: the error of one peer is ignored.
CollectErrorIgnored(n, m) ==
  /\ Serving(n, m) /\ wire[m][n] = <<>> /\ {n, m} \in broken
  /\ UNCHANGED vars

CollectError(n, m) ==
  /\ Serving(n, m) /\ wire[m][n] = <<>> /\ {n, m} \in broken
  /\ failed' = [failed EXCEPT ![n] = @ \cup {m}]
  /\ todo' = [todo EXCEPT ![n] = Tail(@)]
  /\ next' = [next EXCEPT ![n] = 1]
  /\ UNCHANGED <<peers, val, store, pc, later, snap, wire, broken, round>>

Return(n) ==
  /\ pc[n] = "collect" /\ todo[n] = <<>>
  /\ pc' = [pc EXCEPT ![n] = "idle"]
  /\ snap' = [snap EXCEPT ![n] = <<>>] /\ later' = [later EXCEPT ![n] = <<>>]
  /\ UNCHANGED <<peers, val, store, todo, next, failed, wire, broken, round>>

\* The connection is lost, and with it what had not yet arrived.
Break(n, m) ==
  /\ n # m /\ {n, m} \notin broken /\ Cardinality(broken) < MaxBreaks
  /\ broken' = broken \cup {{n, m}}
  /\ \E i \in 0 .. Len(wire[n][m]), j \in 0 .. Len(wire[m][n]) :
       wire' = [wire EXCEPT ![n][m] = SubSeq(@, 1, i), ![m][n] = SubSeq(@, 1, j)]
  /\ UNCHANGED <<peers, val, store, pc, todo, later, next, snap, failed, round>>

Step(n) ==
  \/ Begin(n) \/ BeginAlone(n) \/ SentAll(n) \/ Return(n)
  \/ \E m \in Nodes : Send(n, m) \/ Collect(n, m) \/ CollectError(n, m)

Next ==
  \/ \E n \in Nodes : Step(n)
  \/ \E n, m \in Nodes : Break(n, m)

Spec == Init /\ [][Next]_vars /\ \A n \in Nodes : WF_vars(Step(n))

-----------------------------------------------------------------------------
(* Properties *)

Stamped(s) == {<<s[p].version, s[p].node_id, p, s[p].data>> :
                 p \in {q \in Names : s[q].version > 0}}
InTransit == UNION {{<<wire[n][m][i].version, wire[n][m][i].node_id,
                       wire[n][m][i].name, wire[n][m][i].data>> :
                      i \in 1 .. Len(wire[n][m])} : n, m \in Nodes}

\* A stamp names one value: whatever two nodes hold or are about to receive
\* for a parameter under the same version and node_id is the same data, so
\* ignoring an equal stamp loses nothing.
StampUnique ==
  LET all == InTransit \cup UNION {Stamped(store[n]) : n \in Nodes}
  IN \A a, b \in all : a[1] = b[1] /\ a[2] = b[2] /\ a[3] = b[3] => a[4] = b[4]

Below(a, b) == a.version < b.version \/ (a.version = b.version /\ a.node_id <= b.node_id)

\* The stored stamp of a parameter never goes back, in whatever order the
\* peers' messages are taken.
StampStep ==
  \A n \in Nodes, p \in Names : Below(store[n][p], store'[n][p])
StampMonotone == [][StampStep]_vars

\* If every node keeps making its calls, each call returns, also when
\* connections break in the middle of it.
SyncReturns == \A n \in Nodes : pc[n] # "idle" ~> pc[n] = "idle"

\* Parameter sync: when all nodes have returned from the same round and no
\* connection has broken, they hold the same parameters.
Synchronised ==
  (broken = {} /\ \A n, m \in Nodes : pc[n] = "idle" /\ round[n] = round[m] /\ round[n] > 0)
    => \A n, m \in Nodes : val[n] = val[m]
=============================================================================
