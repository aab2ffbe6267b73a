----------------------------- MODULE Heartbeat -----------------------------
(***************************************************************************)
(* kernel/distributed/heartbeat.c as one rank runs it: the others announce *)
(* themselves by UDP datagrams, which may be lost, delayed, duplicated and *)
(* reordered, and check_alive turns silence into SUSPECT and then DEAD.    *)
(* last_heartbeat_ns is kept as an age in ticks, capped just past the      *)
(* timeout; missed_count is capped where it makes no more difference.      *)
(***************************************************************************)
EXTENDS Integers, FiniteSets, SequencesExt

CONSTANTS
  World,      \* hb->world_size
  Self,       \* hb->rank
  Timeout,    \* timeout_ms, in ticks
  MaxNet,     \* bound on the datagrams under way
  MaxRank     \* the highest rank that ever sends

VARIABLES
  peer_status, age, missed_count,   \* of each rank below World
  net,                              \* datagrams under way
  up                                \* the ranks that run

hbVars == <<peer_status, age, missed_count, net, up>>

Peers == (0 .. World - 1) \ {Self}
Dead == 3     \* misses that make a peer DEAD

HbInit ==
  /\ peer_status = [i \in 0 .. World - 1 |-> "ALIVE"]
  /\ age = [i \in 0 .. World - 1 |-> 0]
  /\ missed_count = [i \in 0 .. World - 1 |-> 0]
  /\ net = {} /\ up = 0 .. World - 1

\* SNEPPX_heartbeat_send by another rank, with the status its caller
\* chooses; JOIN is treated like LEAVE everywhere.
Send(r, s) ==
  /\ r \in up \ {Self} /\ Cardinality(net) < MaxNet
  /\ net' = net \cup {[rank |-> r, status |-> s]}
  /\ UNCHANGED <<peer_status, age, missed_count, up>>

Lose(m) == net' = net \ {m} /\ UNCHANGED <<peer_status, age, missed_count, up>>

\* A rank stops without a word.
Crash(r) == r \in up \ {Self} /\ up' = up \ {r}
            /\ UNCHANGED <<peer_status, age, missed_count, net>>

Tick == /\ age' = [i \in 0 .. World - 1 |-> IF age[i] > Timeout THEN age[i] ELSE age[i] + 1]
        /\ UNCHANGED <<peer_status, missed_count, net, up>>

\* The datagram counts if its rank is one of the world.
Heard(m) ==
  IF m.rank < World
  THEN /\ peer_status' = [peer_status EXCEPT ![m.rank] = m.status]
       /\ age' = [age EXCEPT ![m.rank] = 0]
       /\ missed_count' = [missed_count EXCEPT ![m.rank] = 0]
  ELSE UNCHANGED <<peer_status, age, missed_count>>

\* SNEPPX_heartbeat_recv; the network may deliver the datagram again.
Recv(m, again) ==
  /\ m \in net /\ Heard(m)
  /\ net' = IF again THEN net ELSE net \ {m}
  /\ UNCHANGED up

Silent(i) == i # Self /\ age[i] > Timeout

\* Mutant of Missed: a miss does not count on the ones before.
MissedOnce(i) == IF Silent(i) THEN 1 ELSE missed_count[i]

\* missed_count[i] after a check.
Missed(i) == IF Silent(i) /\ missed_count[i] < Dead THEN missed_count[i] + 1
                                                    ELSE missed_count[i]

\* peer_status[i] after a check: it replaces what the peer announced.
Judged(i) == CASE i = Self -> peer_status[i]
               [] Silent(i) -> IF Missed(i) >= Dead THEN "DEAD" ELSE "SUSPECT"
               [] OTHER -> "ALIVE"

\* SNEPPX_heartbeat_check_alive; what it returns is alive_count.
check_alive ==
  /\ missed_count' = [i \in 0 .. World - 1 |-> Missed(i)]
  /\ peer_status' = [i \in 0 .. World - 1 |-> Judged(i)]
  /\ UNCHANGED <<age, net, up>>

alive_count == Cardinality({i \in 0 .. World - 1 : ~Silent(i)})

\* SNEPPX_heartbeat_get_alive_ranks
get_alive_ranks(status) ==
  SetToSortSeq({i \in 0 .. World - 1 : status[i] = "ALIVE"}, LAMBDA a, b : a < b)

HbEnvironment ==
  \/ Tick
  \/ \E r \in 0 .. MaxRank : Crash(r) \/ \E s \in {"ALIVE", "LEAVE"} : Send(r, s)
  \/ \E m \in net : Lose(m) \/ \E again \in BOOLEAN : Recv(m, again)

\* A peer is thought SUSPECT or DEAD only while nothing has been heard from
\* it for longer than the timeout: one datagram clears it, whatever checks
\* came before (heartbeat_recv against check_alive).
SuspectedOnlySilent ==
  \A i \in Peers : peer_status[i] \in {"SUSPECT", "DEAD"} => age[i] > Timeout
=============================================================================
