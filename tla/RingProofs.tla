----------------------------- MODULE RingProofs -----------------------------
(***************************************************************************)
(* The ring all-reduce stays in step, for every world_size and length of   *)
(* the buffer: although a message's chunk_id is ignored and ranks may be   *)
(* many steps apart, a rank merges each chunk where it belongs.  The       *)
(* invariant counts the chunks a rank has received and sent over both      *)
(* phases; the stream between two ranks holds exactly the difference.      *)
(***************************************************************************)
EXTENDS RingAllReduce, TLAPS

\* The chunks that a rank receives, and sends, in the whole collective.
Total == (world_size - 1) + (world_size - 1)

Going(r) == phase[r] \in {"scatter", "gather", "done"}

Recvd(r) ==
  IF phase[r] = "scatter" THEN step[r]
  ELSE IF phase[r] = "gather" THEN world_size - 1 + step[r] ELSE Total

Sends(r) == IF sent[r] THEN Recvd(r) + 1 ELSE Recvd(r)

\* The loop counter at the k-th chunk.
StepOf(k) == IF k < world_size - 1 THEN k ELSE k - (world_size - 1)

RankInv(r) ==
  /\ phase[r] \in {"scatter", "gather", "done", "panicked", "failed"}
  /\ step[r] \in 0 .. world_size - 2 /\ sent[r] \in BOOLEAN
  /\ phase[r] = "done" => ~sent[r]
  /\ lock[r] \in {"free", "ring"}
  /\ lock[r] = "ring" => Active(r) /\ sent[r]

IsSeq(q) == \E M : q \in Seq(M)

\* The stream from r to its successor: the chunks that the one has sent and
\* the other has not yet received, in order.
LinkInv(r) ==
  /\ IsSeq(wire[r])
  /\ \A i \in 1 .. Len(wire[r]) : wire[r][i].kind = "chunk"
  /\ Going(succ(r)) =>
       /\ \A i \in 1 .. Len(wire[r]) :
            wire[r][i].chunk_id =
              (r + world_size - StepOf(Recvd(succ(r)) + i - 1)) % world_size
       /\ Recvd(succ(r)) + Len(wire[r]) <= Total
       /\ Going(r) => Recvd(succ(r)) + Len(wire[r]) = Sends(r)

Domains ==
  /\ DOMAIN phase = Ranks /\ DOMAIN step = Ranks /\ DOMAIN sent = Ranks
  /\ DOMAIN wire = Ranks /\ DOMAIN lock = Ranks

RingInv == Domains /\ \A r \in Ranks : RankInv(r) /\ LinkInv(r)

\* What send_message and the reader do to a stream.
LEMMA AppendFacts ==
  ASSUME NEW q, IsSeq(q), NEW x
  PROVE  /\ IsSeq(Append(q, x)) /\ Len(q) \in Nat /\ Len(Append(q, x)) = Len(q) + 1
         /\ \A i \in 1 .. Len(q) : Append(q, x)[i] = q[i]
         /\ Append(q, x)[Len(q) + 1] = x
<1>1. PICK M : q \in Seq(M)
  BY DEF IsSeq
<1> DEFINE X == M \cup {x}
<1>2. q \in Seq(X) /\ x \in X
  BY <1>1
<1> HIDE DEF X
<1>3. Append(q, x) \in Seq(X)
  BY <1>2
<1> QED BY <1>2, <1>3 DEF IsSeq

\* Taking the first message moves the others up.
LEMMA TailFacts ==
  ASSUME NEW q, IsSeq(q), q # <<>>
  PROVE  /\ IsSeq(Tail(q)) /\ Len(q) \in Nat \ {0} /\ Len(Tail(q)) = Len(q) - 1
         /\ \A i \in 1 .. Len(q) - 1 : Tail(q)[i] = q[i + 1]
         /\ Head(q) = q[1]
<1>1. PICK M : q \in Seq(M)
  BY DEF IsSeq
<1>2. Tail(q) \in Seq(M)
  BY <1>1
<1> QED BY <1>1, <1>2 DEF IsSeq

\* The remainder of a number below twice world_size.
LEMMA ModTwice ==
  \A a \in Nat : /\ a < world_size => a % world_size = a
                 /\ world_size <= a /\ a < world_size + world_size
                      => a % world_size = a - world_size
BY RingAssumption

\* The neighbours of a rank.
LEMMA Neighbours ==
  ASSUME NEW r \in Ranks
  PROVE  /\ succ(r) = IF r = world_size - 1 THEN 0 ELSE r + 1
         /\ pred(r) = IF r = 0 THEN world_size - 1 ELSE r - 1
         /\ succ(r) \in Ranks /\ pred(r) \in Ranks
         /\ pred(succ(r)) = r /\ succ(pred(r)) = r
         /\ succ(r) # r /\ pred(r) # r
<1> USE RingAssumption DEF Ranks
<1>1. \A x \in Ranks : /\ succ(x) = IF x = world_size - 1 THEN 0 ELSE x + 1
                       /\ pred(x) = IF x = 0 THEN world_size - 1 ELSE x - 1
  BY ModTwice DEF succ, pred
<1> QED BY <1>1

\* The chunk that a rank is about to send, or to merge, by its count.
LEMMA Counts ==
  ASSUME NEW r \in Ranks, RankInv(r), Active(r)
  PROVE  /\ Going(r) /\ Recvd(r) \in Nat /\ Recvd(r) < Total
         /\ StepOf(Recvd(r)) = step[r]
BY RingAssumption DEF RankInv, Active, Going, Recvd, Total, StepOf

\* The chunk sent is the next one that the successor has to receive.
LEMMA SendKeeps ==
  ASSUME RingInv, NEW r \in Ranks, Send(r)
  PROVE  RingInv'
<1> DEFINE msg == [kind |-> "chunk", chunk_id |-> send_chunk_idx(r),
                   data |-> [j \in 1 .. SendEnd(r) - SendStart(r) |->
                               data[r][SendStart(r) + j - 1]]]
<1>1. /\ wire' = [wire EXCEPT ![r] = Append(@, msg)]
      /\ sent' = [sent EXCEPT ![r] = TRUE] /\ Active(r) /\ ~sent[r]
      /\ UNCHANGED <<phase, step, lock>>
  BY DEF Send
<1>2. msg.kind = "chunk" /\ msg.chunk_id = (r + world_size - step[r]) % world_size
  BY DEF send_chunk_idx
<1> HIDE DEF msg
<1>3. Domains'
  BY <1>1 DEF RingInv, Domains
<1>4. \A x \in Ranks : RankInv(x)'
  BY <1>1 DEF RingInv, Domains, RankInv, Active
<1>5. \A x \in Ranks : Recvd(x)' = Recvd(x) /\ Going(x)' = Going(x)
  BY <1>1 DEF Recvd, Going
<1>6. ASSUME NEW x \in Ranks, x # r PROVE LinkInv(x)'
  <2>1. wire'[x] = wire[x] /\ Sends(x)' = Sends(x)
    BY <1>1, <1>5, <1>6 DEF RingInv, Domains, Sends
  <2>2. succ(x) \in Ranks /\ succ(x)' = succ(x)
    BY Neighbours DEF succ
  <2> QED BY <2>1, <2>2, <1>5 DEF RingInv, LinkInv, StepOf
<1>7. LinkInv(r)'
  <2>1. succ(r) \in Ranks /\ succ(r)' = succ(r)
    BY Neighbours DEF succ
  <2>2. wire'[r] = Append(wire[r], msg) /\ IsSeq(wire[r])
    BY <1>1 DEF RingInv, Domains, LinkInv
  <2>3. /\ IsSeq(wire'[r]) /\ Len(wire[r]) \in Nat /\ Len(wire'[r]) = Len(wire[r]) + 1
        /\ \A i \in 1 .. Len(wire[r]) : wire'[r][i] = wire[r][i]
        /\ wire'[r][Len(wire[r]) + 1] = msg
    BY <2>2, AppendFacts
  <2>4. /\ Going(r) /\ Recvd(r) \in Nat /\ Recvd(r) < Total
        /\ StepOf(Recvd(r)) = step[r] /\ Sends(r) = Recvd(r)
        /\ Sends(r)' = Recvd(r) + 1
    BY <1>1, <1>5, Counts DEF RingInv, Domains, Sends
  <2>5. \A i \in 1 .. Len(wire'[r]) : wire'[r][i].kind = "chunk"
    BY <2>3, <1>2 DEF RingInv, LinkInv
  <2>6. ASSUME Going(succ(r))
        PROVE  /\ \A i \in 1 .. Len(wire'[r]) :
                    wire'[r][i].chunk_id =
                      (r + world_size - StepOf(Recvd(succ(r)) + i - 1)) % world_size
               /\ Recvd(succ(r)) + Len(wire'[r]) <= Total
               /\ Recvd(succ(r)) + Len(wire'[r]) = Recvd(r) + 1
    <3>1. Recvd(succ(r)) + Len(wire[r]) = Recvd(r) /\ Recvd(succ(r)) \in Int
      BY <2>1, <2>4, <2>6, RingAssumption
         DEF RingInv, LinkInv, RankInv, Recvd, Total
    <3>2. Recvd(succ(r)) + (Len(wire[r]) + 1) - 1 = Recvd(r)
      BY <3>1, <2>3
    <3>3. wire'[r][Len(wire[r]) + 1].chunk_id =
            (r + world_size - StepOf(Recvd(succ(r)) + (Len(wire[r]) + 1) - 1)) % world_size
      BY <3>2, <2>3, <2>4, <1>2
    <3>4. \A i \in 1 .. Len(wire[r]) :
            wire'[r][i].chunk_id =
              (r + world_size - StepOf(Recvd(succ(r)) + i - 1)) % world_size
      BY <2>3, <2>6 DEF RingInv, LinkInv
    <3>5. \A i \in 1 .. Len(wire'[r]) : i \in 1 .. Len(wire[r]) \/ i = Len(wire[r]) + 1
      BY <2>3
    <3>6. /\ Recvd(succ(r)) + Len(wire'[r]) <= Total
          /\ Recvd(succ(r)) + Len(wire'[r]) = Recvd(r) + 1
      BY <3>1, <2>3, <2>4, RingAssumption DEF Total
    <3> QED BY <3>3, <3>4, <3>5, <3>6
  <2> QED BY <2>1, <2>3, <2>4, <2>5, <2>6, <1>5 DEF LinkInv, StepOf
<1> QED BY <1>3, <1>4, <1>6, <1>7 DEF RingInv

\* A chunk received is one less on the stream and one more that the rank may
\* send; the phases follow one another.
LEMMA ReceiveKeeps ==
  ASSUME RingInv, NEW r \in Ranks, Receive(r)
  PROVE  RingInv'
<1> DEFINE p == pred(r)
<1>0. p \in Ranks /\ p # r /\ succ(p) = r /\ succ(r) # r
  BY Neighbours
<1>1. /\ wire' = [wire EXCEPT ![p] = Tail(@)] /\ wire[p] # <<>>
      /\ sent' = [sent EXCEPT ![r] = FALSE] /\ lock' = [lock EXCEPT ![r] = "free"]
      /\ lock[r] = "ring" /\ Active(r) /\ sent[r]
  BY DEF Receive, RingInv, RankInv
<1>2. /\ step' = [step EXCEPT ![r] = IF step[r] = world_size - 2 THEN 0 ELSE @ + 1]
      /\ phase' = [phase EXCEPT ![r] =
           IF step[r] # world_size - 2 THEN @
           ELSE IF @ = "scatter" THEN "gather" ELSE "done"]
  BY DEF Receive
<1> HIDE DEF p
<1>3. Domains'
  BY <1>1, <1>2 DEF RingInv, Domains
<1>4. \A x \in Ranks : x # r => /\ phase'[x] = phase[x] /\ step'[x] = step[x]
                               /\ sent'[x] = sent[x] /\ lock'[x] = lock[x]
  BY <1>1, <1>2 DEF RingInv, Domains
<1>5. /\ sent'[r] = FALSE /\ lock'[r] = "free"
      /\ step'[r] = IF step[r] = world_size - 2 THEN 0 ELSE step[r] + 1
      /\ phase'[r] = IF step[r] # world_size - 2 THEN phase[r]
                     ELSE IF phase[r] = "scatter" THEN "gather" ELSE "done"
  BY <1>1, <1>2 DEF RingInv, Domains
<1>6. \A x \in Ranks : RankInv(x)'
  <2>1. RankInv(r)'
    <3>1. step[r] \in 0 .. world_size - 2 /\ phase[r] \in {"scatter", "gather"}
      BY <1>1 DEF RingInv, RankInv, Active
    <3>2. step'[r] \in 0 .. world_size - 2
      BY <3>1, <1>5, RingAssumption
    <3>3. phase'[r] \in {"scatter", "gather", "done"}
      BY <3>1, <1>5
    <3> QED BY <3>2, <3>3, <1>5 DEF RankInv
  <2>2. ASSUME NEW x \in Ranks, x # r PROVE RankInv(x)'
    BY <2>2, <1>4 DEF RingInv, RankInv, Active
  <2> QED BY <2>1, <2>2
<1>7. /\ Going(r)' /\ Going(r) /\ Recvd(r) \in Nat /\ Recvd(r)' = Recvd(r) + 1
      /\ Sends(r)' = Sends(r)
  BY <1>1, <1>5, RingAssumption
     DEF RingInv, RankInv, Active, Going, Recvd, Sends, Total
<1>8. \A x \in Ranks : x # r => /\ Going(x)' = Going(x) /\ Recvd(x)' = Recvd(x)
                               /\ Sends(x)' = Sends(x)
  BY <1>4 DEF Going, Recvd, Sends
<1>9. ASSUME NEW x \in Ranks, x # p PROVE LinkInv(x)'
  <2>1. succ(x) \in Ranks /\ succ(x)' = succ(x) /\ succ(x) # r
    BY <1>9, <1>0, Neighbours DEF succ, p
  <2>2. wire'[x] = wire[x]
    BY <1>1, <1>9 DEF RingInv, Domains
  <2>3. Going(x)' = Going(x) /\ Sends(x)' = Sends(x)
    <3>1. CASE x = r
      BY <3>1, <1>7 DEF Going
    <3>2. CASE x # r
      BY <3>2, <1>8
    <3> QED BY <3>1, <3>2
  <2> QED BY <2>1, <2>2, <2>3, <1>8 DEF RingInv, LinkInv, StepOf
<1>10. LinkInv(p)'
  <2>1. wire'[p] = Tail(wire[p]) /\ IsSeq(wire[p]) /\ succ(p)' = r
    BY <1>0, <1>1 DEF RingInv, Domains, LinkInv, succ
  <2>2. /\ IsSeq(wire'[p]) /\ Len(wire[p]) \in Nat \ {0}
        /\ Len(wire'[p]) = Len(wire[p]) - 1
        /\ \A i \in 1 .. Len(wire[p]) - 1 : wire'[p][i] = wire[p][i + 1]
    BY <2>1, <1>1, TailFacts
  <2>3. \A i \in 1 .. Len(wire'[p]) : i + 1 \in 1 .. Len(wire[p])
    BY <2>2
  <2>4. \A i \in 1 .. Len(wire'[p]) : wire'[p][i].kind = "chunk"
    BY <1>0, <2>2, <2>3 DEF RingInv, LinkInv
  <2>5. /\ \A i \in 1 .. Len(wire[p]) :
             wire[p][i].chunk_id =
               (p + world_size - StepOf(Recvd(r) + i - 1)) % world_size
        /\ Recvd(r) + Len(wire[p]) <= Total
        /\ Going(p) => Recvd(r) + Len(wire[p]) = Sends(p)
    BY <1>0, <1>7 DEF RingInv, LinkInv
  <2>6. ASSUME NEW i \in 1 .. Len(wire'[p])
        PROVE  wire'[p][i].chunk_id =
                 (p + world_size - StepOf(Recvd(r)' + i - 1)) % world_size
    <3>1. Recvd(r)' + i - 1 = Recvd(r) + (i + 1) - 1
      BY <1>7
    <3>2. wire'[p][i] = wire[p][i + 1]
      BY <2>2
    <3> QED BY <3>1, <3>2, <2>3, <2>5
  <2>7. /\ Recvd(r)' + Len(wire'[p]) <= Total
        /\ Going(p)' => Recvd(r)' + Len(wire'[p]) = Sends(p)'
    <3>1. Recvd(r)' + Len(wire'[p]) = Recvd(r) + Len(wire[p])
      BY <1>7, <2>2
    <3> QED BY <3>1, <2>5, <1>0, <1>8
  <2> QED BY <2>1, <2>2, <2>4, <2>6, <2>7 DEF LinkInv, StepOf, p, pred
<1> QED BY <1>3, <1>6, <1>9, <1>10 DEF RingInv

\* A rank that panics or returns an error takes its links out of the invariant,
\* but for what it had sent; a rank that takes its lock changes no link.
LEMMA OthersKeep ==
  ASSUME RingInv, NEW r \in Ranks, Panic(r) \/ StreamError(r) \/ Lock(r)
  PROVE  RingInv'
<1>1. CASE Lock(r)
  <2>1. /\ lock' = [lock EXCEPT ![r] = "ring"] /\ Active(r) /\ sent[r]
        /\ UNCHANGED <<phase, step, sent, wire>>
    BY <1>1 DEF Lock
  <2>2. Domains' /\ \A x \in Ranks : RankInv(x)'
    BY <2>1 DEF RingInv, Domains, RankInv, Active
  <2>3. ASSUME NEW x \in Ranks PROVE LinkInv(x)'
    <3>1. /\ Recvd(succ(x))' = Recvd(succ(x)) /\ Going(succ(x))' = Going(succ(x))
          /\ Going(x)' = Going(x) /\ Sends(x)' = Sends(x)
      BY <2>1 DEF Recvd, Going, Sends, succ
    <3> QED BY <3>1, <2>1 DEF RingInv, LinkInv, StepOf
  <2> QED BY <2>2, <2>3 DEF RingInv
<1>2. CASE Panic(r) \/ StreamError(r)
  <2>1. /\ \E e \in {"panicked", "failed"} : phase' = [phase EXCEPT ![r] = e]
        /\ UNCHANGED <<step, sent, wire>>
    BY <1>2 DEF Panic, StreamError
  <2>2. /\ DOMAIN lock' = Ranks /\ lock'[r] = "free"
        /\ \A x \in Ranks : x # r => lock'[x] = lock[x]
    BY <1>2 DEF Panic, StreamError, RingInv, Domains, RankInv
  <2>3. phase'[r] \in {"panicked", "failed"} /\ DOMAIN phase' = Ranks
        /\ \A x \in Ranks : x # r => phase'[x] = phase[x]
    BY <2>1 DEF RingInv, Domains
  <2>4. Domains' /\ \A x \in Ranks : RankInv(x)'
    BY <2>1, <2>2, <2>3 DEF RingInv, Domains, RankInv, Active
  <2>5. ASSUME NEW x \in Ranks PROVE LinkInv(x)'
    <3>1. succ(x) \in Ranks /\ succ(x)' = succ(x)
      BY Neighbours DEF succ
    <3>2. CASE succ(x) = r
      BY <3>1, <3>2, <2>1, <2>3 DEF RingInv, LinkInv, Going
    <3>3. CASE succ(x) # r
      <4>1. Recvd(succ(x))' = Recvd(succ(x)) /\ Going(succ(x))' = Going(succ(x))
        BY <3>1, <3>3, <2>1, <2>3 DEF Recvd, Going
      <4>2. Going(x)' => Going(x) /\ Sends(x)' = Sends(x)
        BY <2>1, <2>3 DEF Recvd, Going, Sends
      <4> QED BY <3>1, <4>1, <4>2, <2>1 DEF RingInv, LinkInv, StepOf
    <3> QED BY <3>2, <3>3
  <2> QED BY <2>4, <2>5 DEF RingInv
<1> QED BY <1>1, <1>2

\* The invariant, for the collective alone on its streams.
LEMMA RingInvAlways == Spec => []RingInv
<1>1. Init => RingInv
  <2> SUFFICES ASSUME Init PROVE RingInv
    OBVIOUS
  <2>1. Domains /\ \A r \in Ranks : RankInv(r)
    BY RingAssumption DEF Init, Domains, RankInv, Active
  <2>2. ASSUME NEW r \in Ranks PROVE LinkInv(r)
    <3>1. succ(r) \in Ranks
      BY Neighbours
    <3>2. wire[r] = <<>> /\ Len(wire[r]) = 0 /\ IsSeq(wire[r])
      BY DEF Init, IsSeq
    <3>3. Recvd(succ(r)) = 0 /\ Sends(r) = 0
      BY <3>1 DEF Init, Recvd, Sends
    <3> QED BY <3>2, <3>3, RingAssumption DEF LinkInv, Total
  <2> QED BY <2>1, <2>2 DEF RingInv
<1>2. RingInv /\ [Next]_vars => RingInv'
  <2> SUFFICES ASSUME RingInv, [Next]_vars PROVE RingInv'
    OBVIOUS
  <2>1. ASSUME NEW r \in Ranks, Ring(r) PROVE RingInv'
    BY <2>1, SendKeeps, ReceiveKeeps, OthersKeep DEF Ring
  <2>2. CASE UNCHANGED vars
    BY <2>2 DEF vars, RingInv, Domains, RankInv, LinkInv, Active, Going, Recvd,
                Sends, succ, StepOf, Total
  <2> QED BY <2>1, <2>2 DEF Next, Returned
<1> QED BY <1>1, <1>2, PTL DEF Spec

\* Whatever ring_all_reduce_impl takes from its stream next is the chunk that
\* it is about to merge, although it does not look at chunk_id.
THEOREM InStepAlways == Spec => []InStep
<1>1. RingInv => InStep
  <2> SUFFICES ASSUME RingInv, NEW r \in Ranks, lock[r] = "ring", wire[pred(r)] # <<>>
               PROVE  /\ Head(wire[pred(r)]).kind = "chunk"
                      /\ Head(wire[pred(r)]).chunk_id = recv_chunk_idx(r)
    BY DEF InStep
  <2> DEFINE p == pred(r)
  <2>1. p \in Ranks /\ succ(p) = r /\ p = IF r = 0 THEN world_size - 1 ELSE r - 1
    BY Neighbours
  <2>2. LinkInv(p) /\ RankInv(r) /\ Active(r)
    BY <2>1 DEF RingInv, RankInv
  <2>3. Going(r) /\ Recvd(r) \in Nat /\ StepOf(Recvd(r)) = step[r]
    BY <2>2, Counts
  <2>4. Head(wire[p]) = wire[p][1] /\ 1 \in 1 .. Len(wire[p])
    BY <2>2, TailFacts DEF LinkInv
  <2> HIDE DEF p
  <2>5. /\ wire[p][1].kind = "chunk"
        /\ wire[p][1].chunk_id = (p + world_size - StepOf(Recvd(r) + 1 - 1)) % world_size
    BY <2>1, <2>2, <2>3, <2>4 DEF LinkInv
  <2>6. Recvd(r) + 1 - 1 = Recvd(r) /\ step[r] \in 0 .. world_size - 2
    BY <2>2, <2>3 DEF RankInv
  <2>7. (p + world_size - step[r]) % world_size = (r + world_size - step[r] - 1) % world_size
    <3>1. CASE r = 0
      <4>1. /\ p + world_size - step[r] \in Nat
            /\ world_size <= p + world_size - step[r]
            /\ p + world_size - step[r] < world_size + world_size
        BY <3>1, <2>1, <2>6, RingAssumption
      <4>2. (p + world_size - step[r]) % world_size = p - step[r]
        BY <4>1, <3>1, <2>1, <2>6, ModTwice, RingAssumption
      <4>3. (r + world_size - step[r] - 1) % world_size = world_size - step[r] - 1
        BY <3>1, <2>6, ModTwice, RingAssumption
      <4>4. p - step[r] = world_size - step[r] - 1
        BY <3>1, <2>1, <2>6, RingAssumption
      <4> QED BY <4>2, <4>3, <4>4
    <3>2. CASE r # 0
      <4>1. p + world_size - step[r] = r + world_size - step[r] - 1
        BY <3>2, <2>1, <2>6, RingAssumption DEF Ranks
      <4> QED BY <4>1
    <3> QED BY <3>1, <3>2
  <2> QED BY <2>3, <2>4, <2>5, <2>6, <2>7 DEF recv_chunk_idx, p
<1> QED BY <1>1, RingInvAlways, PTL

\* The product of a chunk number and a size.
LEMMA Product == \A a, b, c \in Nat : a <= b => a * c <= b * c
OBVIOUS

\* The slice of ring_all_reduce_impl starts past the end of the buffer only if
\* the buffer does not reach the last chunk.
THEOREM PanicsOnlyShortAlways == Spec => []PanicsOnlyShort
<1> DEFINE Inv == n \in Nat /\ PanicsOnlyShort
<1>1. Init => Inv
  BY RingAssumption DEF Init, PanicsOnlyShort
<1>2. RingInv /\ Inv /\ [Next]_vars => Inv'
  <2> SUFFICES ASSUME RingInv, Inv, [Next]_vars PROVE Inv'
    OBVIOUS
  <2>1. n' = n /\ chunk_size' = chunk_size
    BY DEF Next, Ring, Send, Panic, StreamError, Lock, Receive, Returned, vars, chunk_size
  <2>2. ASSUME NEW r \in Ranks, Panic(r) PROVE n < (world_size - 1) * chunk_size
    <3>1. send_chunk_idx(r) \in 0 .. world_size - 1
      <4>1. r + world_size - step[r] \in Nat
        BY RingAssumption DEF RingInv, RankInv, Ranks
      <4> QED BY <4>1, RingAssumption DEF send_chunk_idx
    <3>2. chunk_size \in Nat
      <4>1. \A a \in Nat : a \div world_size \in Nat
        BY RingAssumption
      <4> QED BY <4>1, RingAssumption DEF chunk_size
    <3>3. SendStart(r) \in Nat /\ n < SendStart(r)
      <4>1. SendStart(r) \in Nat
        BY <3>1, <3>2 DEF SendStart
      <4> QED BY <4>1, <3>2, <2>2 DEF Panic, SendEnd, Least
    <3>4. SendStart(r) <= (world_size - 1) * chunk_size
      BY <3>1, <3>2, Product, RingAssumption DEF SendStart
    <3>5. (world_size - 1) * chunk_size \in Nat
      BY <3>2, RingAssumption
    <3> QED BY <3>3, <3>4, <3>5
  <2>3. ASSUME NEW r \in Ranks, phase'[r] = "panicked"
        PROVE  n < (world_size - 1) * chunk_size
    <3>1. CASE phase[r] = "panicked"
      BY <3>1 DEF PanicsOnlyShort
    <3>2. CASE phase[r] # "panicked"
      <4>1. \E x \in Ranks : Panic(x)
        BY <2>3, <3>2 DEF Next, Ring, Send, StreamError, Lock, Receive, Returned,
                          vars, RingInv, Domains
      <4> QED BY <4>1, <2>2
    <3> QED BY <3>1, <3>2
  <2> QED BY <2>1, <2>3 DEF PanicsOnlyShort
<1>3. Inv => PanicsOnlyShort
  OBVIOUS
<1> HIDE DEF Inv
<1> QED BY <1>1, <1>2, <1>3, RingInvAlways, PTL DEF Spec
=============================================================================
