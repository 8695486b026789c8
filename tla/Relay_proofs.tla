---------------------------- MODULE Relay_proofs ----------------------------
(* Proofs about Relay, for every buffer size, window, number of rounds and  *)
(* retries and any amount of data.                                          *)
EXTENDS Relay, TLAPS

\* Outside a read and its write nothing is in the buffer, and what the TLS
\* layer holds has arrived.
LoopInv ==
    /\ pc \in {"loop", "select", "pick", "read"} => total = Len(buffer)
    /\ pc = "select" => round < Rounds
    /\ \A s \in Sides : pending[s] <= Len(inq[s])

\* A read that was begun after the quit flag was set is the last one.
QuitInv == late > 0 => late = 1 /\ quit /\ pc \notin {"select", "pick"}

IInv == TypeOK /\ LoopInv /\ Conserved /\ EofComplete /\ QuitInv

USE RelayAssumption DEF RelayAssumption

-----------------------------------------------------------------------------
(* The two sides, and the sequences of units *)

LEMMA SidesFacts ==
    /\ \A s \in Sides : Other(s) \in Sides /\ Other(s) # s /\ Other(Other(s)) = s
    /\ \A s, t \in Sides : s # t => t = Other(s)
  BY DEF Sides, Other

\* What SubSeq takes from the front of a sequence and what it leaves.
LEMMA SplitFacts ==
    ASSUME NEW S, NEW q \in Seq(S), NEW n \in Nat, n <= Len(q)
    PROVE  /\ SubSeq(q, 1, n) \in Seq(S) /\ Len(SubSeq(q, 1, n)) = n
           /\ \A k \in 1 .. n : SubSeq(q, 1, n)[k] = q[k]
           /\ SubSeq(q, n + 1, Len(q)) \in Seq(S)
           /\ Len(SubSeq(q, n + 1, Len(q))) = Len(q) - n
           /\ \A k \in 1 .. (Len(q) - n) : SubSeq(q, n + 1, Len(q))[k] = q[n + k]
  OBVIOUS

\* A piece of one sequence behind another.
LEMMA AddFacts ==
    ASSUME NEW S, NEW q \in Seq(S), NEW b \in Seq(S), NEW k \in Nat, NEW n \in Nat \ {0},
           k + n <= Len(b)
    PROVE  LET r == q \o SubSeq(b, k + 1, k + n)
           IN  /\ r \in Seq(S) /\ Len(r) = Len(q) + n
               /\ \A i \in 1 .. Len(q) : r[i] = q[i]
               /\ \A i \in 1 .. n : r[Len(q) + i] = b[k + i]
  OBVIOUS

\* One unit more, one unit less.
LEMMA UnitFacts ==
    ASSUME NEW S, NEW q \in Seq(S), NEW x \in S
    PROVE  /\ Append(q, x) \in Seq(S) /\ Len(Append(q, x)) = Len(q) + 1
           /\ \A k \in 1 .. Len(q) : Append(q, x)[k] = q[k]
           /\ Append(q, x)[Len(q) + 1] = x
           /\ q # <<>> => /\ Head(q) = q[1] /\ Head(q) \in S /\ Tail(q) \in Seq(S)
                          /\ Len(Tail(q)) = Len(q) - 1
                          /\ \A k \in 1 .. (Len(q) - 1) : Tail(q)[k] = q[k + 1]
  OBVIOUS

\* Sums of lengths.
LEMMA SumFacts ==
    /\ \A g, p, s \in Nat : g + p + 0 + 0 = s => g + p = s
    /\ \A g, p, l, n, s \in Nat :
          n <= l /\ g + p + 0 + l = s => g + p + n + (l - n) = s
    /\ \A g, p, b, n, l, s \in Nat :
          n <= b /\ g + p + b + l = s
              => g + (p + n) + (b - n) + l = s /\ g + (p + n) <= s
  OBVIOUS

LEMMA InitInv == Init => IInv
  <1> SUFFICES ASSUME Init PROVE IInv
    OBVIOUS
  <1> USE DEF Init
  <1>1. TypeOK
    <2>1. <<>> \in Seq(Unit)
      OBVIOUS
    <2>2. sent \in [Sides -> 0 .. MaxUnits] /\ pending \in [Sides -> Nat]
      OBVIOUS
    <2>5. quit \in BOOLEAN /\ closed \in [Sides -> BOOLEAN]
      BY Zenon
    <2>3. /\ inq \in [Sides -> Seq(Unit)] /\ outq \in [Sides -> Seq(Unit)]
          /\ got \in [Sides -> Seq(Unit)]
      BY <2>1
    <2>4. /\ ready \subseteq Sides /\ round \in 0 .. Rounds /\ from \in Sides
          /\ total \in 0 .. Len(buffer) /\ count \in 0 .. RetryCount /\ late \in Nat
      BY DEF Sides
    <2> QED
      BY <2>1, <2>2, <2>3, <2>4, <2>5 DEF TypeOK
  <1>2. LoopInv /\ EofComplete /\ QuitInv
    BY DEF LoopInv, EofComplete, QuitInv
  <1>3. Conserved
    BY SidesFacts DEF Conserved, Unwritten
  <1> QED
    BY <1>1, <1>2, <1>3 DEF IInv

-----------------------------------------------------------------------------
(* One side at a time *)

\* What Conserved says of the data of s.
Chain(s) ==
    LET o == Other(s)
        g == Len(got[o])   q == Len(outq[o])   b == Unwritten(s)
    IN  /\ g + q <= sent[s]
        /\ \A k \in 1 .. g : got[o][k] = <<s, k>>
        /\ \A k \in 1 .. q : outq[o][k] = <<s, g + k>>
        /\ pc # "closed" =>
             /\ g + q + b + Len(inq[s]) = sent[s]
             /\ \A k \in 1 .. b : buffer[total + k] = <<s, g + q + k>>
             /\ \A k \in 1 .. Len(inq[s]) : inq[s][k] = <<s, g + q + b + k>>

LEMMA ConservedChains == Conserved <=> \A s \in Sides : Chain(s)
  BY DEF Conserved, Chain

\* Nothing was read, written, sent or received of the data of s.
LEMMA ChainKept ==
    ASSUME IInv, NEW s \in Sides,
           got'[Other(s)] = got[Other(s)], outq'[Other(s)] = outq[Other(s)],
           inq'[s] = inq[s], sent'[s] = sent[s],
           pc = "closed" => pc' = "closed",
           \/ Unwritten(s) = 0 /\ Unwritten(s)' = 0
           \/ UNCHANGED <<from, buffer, total>>
    PROVE  Chain(s)'
  <1>1. Chain(s)
    BY ConservedChains DEF IInv
  <1>4. /\ got[Other(s)] \in Seq(Unit) /\ outq[Other(s)] \in Seq(Unit)
        /\ inq[s] \in Seq(Unit) /\ sent[s] \in Nat
    BY SidesFacts DEF IInv, TypeOK
  <1>2. CASE Unwritten(s) = 0 /\ Unwritten(s)' = 0
    <2> DEFINE o == Other(s)
               g == Len(got[o])
               q == Len(outq[o])
    <2>1. /\ g + q <= sent[s] /\ \A k \in 1 .. g : got[o][k] = <<s, k>>
          /\ \A k \in 1 .. q : outq[o][k] = <<s, g + k>>
      BY <1>1 DEF Chain
    <2>2. pc # "closed" => g + q + 0 + Len(inq[s]) = sent[s]
                           /\ \A k \in 1 .. Len(inq[s]) : inq[s][k] = <<s, g + q + 0 + k>>
      BY <1>1, <1>2 DEF Chain
    <2>3. Len(got'[o]) = g /\ Len(outq'[o]) = q
      OBVIOUS
    <2>4. pc' # "closed" => \A k \in 1 .. 0 : buffer'[total' + k] = <<s, g + q + k>>
      OBVIOUS
    <2>5. Unwritten(s)' = 0
      BY <1>2
    <2> HIDE DEF g, q
    <2>6. /\ g + q <= sent'[s] /\ \A k \in 1 .. g : got'[o][k] = <<s, k>>
          /\ \A k \in 1 .. q : outq'[o][k] = <<s, g + k>>
      BY <2>1
    <2>7. pc' # "closed" => g + q + 0 + Len(inq'[s]) = sent'[s]
                           /\ \A k \in 1 .. Len(inq'[s]) : inq'[s][k] = <<s, g + q + 0 + k>>
      BY <2>2
    <2> QED
      BY <2>3, <2>4, <2>5, <2>6, <2>7 DEF Chain
  <1>3. CASE UNCHANGED <<from, buffer, total>>
    <2>1. Unwritten(s)' = Unwritten(s)
      BY <1>3 DEF Unwritten
    <2> QED
      BY <1>1, <1>3, <2>1 DEF Chain
  <1> QED
    BY <1>2, <1>3

\* A step of the loops that reads and writes nothing.
LEMMA NothingCopied ==
    ASSUME IInv, UNCHANGED <<streams, outq, buffer, total>>, pc # "closed",
           \/ UNCHANGED from
           \/ total = Len(buffer)
    PROVE  Conserved'
  <1> SUFFICES ASSUME NEW s \in Sides PROVE Chain(s)'
    BY ConservedChains DEF Conserved, Chain
  <1>1. \/ Unwritten(s) = 0 /\ Unwritten(s)' = 0
        \/ UNCHANGED <<from, buffer, total>>
    BY DEF IInv, TypeOK, Unwritten
  <1> QED
    BY <1>1, ChainKept DEF streams

-----------------------------------------------------------------------------
(* Steps of the loops *)

LEMMA EnterLoopInv ==
    ASSUME IInv, EnterLoop
    PROVE  IInv'
  <1> USE DEF EnterLoop
  <1>1. TypeOK'
    <2>1. /\ pc' \in {"read", "select", "closed"} /\ from' \in Sides
          /\ round' \in 0 .. Rounds /\ count' \in 0 .. RetryCount
          /\ reason' \in {"none", "quit", "timeout", "eof", "fail"}
      BY DEF IInv, TypeOK, Close
    <2> QED
      BY <2>1 DEF IInv, TypeOK, config, streams
  <1>2. LoopInv'
    BY DEF IInv, LoopInv, streams
  <1>3. Conserved'
    BY NothingCopied DEF IInv, LoopInv
  <1>4. EofComplete'
    BY DEF IInv, EofComplete, Close
  <1>5. QuitInv'
    BY DEF IInv, QuitInv, Close
  <1> QED
    BY <1>1, <1>2, <1>3, <1>4, <1>5 DEF IInv

LEMMA SelectInv ==
    ASSUME IInv, Select
    PROVE  IInv'
  <1> USE DEF Select
  <1>1. TypeOK'
    <2>1. ready' \subseteq Sides
      OBVIOUS
    <2>2. round' \in 0 .. Rounds /\ pc' \in {"select", "pick", "closed"}
          /\ reason' \in {"none", "quit", "timeout", "eof", "fail"}
      BY DEF IInv, TypeOK, LoopInv, Close
    <2> QED
      BY <2>1, <2>2 DEF IInv, TypeOK, config, streams
  <1>2. LoopInv'
    BY DEF IInv, LoopInv, TypeOK, streams, Close
  <1>3. Conserved'
    BY NothingCopied
  <1>4. EofComplete'
    BY DEF IInv, EofComplete, Close
  <1>5. QuitInv'
    BY DEF IInv, QuitInv
  <1> QED
    BY <1>1, <1>2, <1>3, <1>4, <1>5 DEF IInv

LEMMA PickSideInv ==
    ASSUME IInv, PickSide
    PROVE  IInv'
  <1> USE DEF PickSide
  <1>1. TypeOK'
    BY DEF IInv, TypeOK, Close, config, streams, Sides
  <1>2. LoopInv'
    BY DEF IInv, LoopInv, streams, Close
  <1>3. Conserved'
    BY NothingCopied DEF IInv, LoopInv
  <1>4. EofComplete'
    BY DEF IInv, EofComplete, Close
  <1>5. QuitInv'
    <2>1. late = 0
      BY DEF IInv, QuitInv, TypeOK
    <2>2. late' = 0 \/ (late' = 1 /\ quit /\ pc' = "read")
      BY <2>1
    <2> QED
      BY <2>2 DEF QuitInv
  <1> QED
    BY <1>1, <1>2, <1>3, <1>4, <1>5 DEF IInv

LEMMA AwaitWritableInv ==
    ASSUME IInv, AwaitWritable
    PROVE  IInv'
  <1> USE DEF AwaitWritable
  <1>1. TypeOK'
    BY DEF IInv, TypeOK, Close, config, streams
  <1>2. LoopInv'
    BY DEF IInv, LoopInv, streams, Close
  <1>3. Conserved'
    BY NothingCopied
  <1>4. EofComplete'
    BY DEF IInv, EofComplete, Close
  <1>5. QuitInv'
    BY DEF IInv, QuitInv, Close
  <1> QED
    BY <1>1, <1>2, <1>3, <1>4, <1>5 DEF IInv

\* n units of the data of from move from the socket into the buffer.
LEMMA TakeInv ==
    ASSUME IInv, pc = "read", NEW r \in Found(from), Take(r),
           UNCHANGED <<config, sent, closed, got, outq, quit, ready, round, from, late>>
    PROVE  IInv'
  <1> DEFINE n == Min2(BufferSize, r)
             q == inq[from]
  <1>1. /\ from \in Sides /\ q \in Seq(Unit) /\ pending[from] \in Nat
        /\ pending[from] <= Len(q) /\ total = Len(buffer) /\ buffer \in Seq(Unit)
    BY DEF IInv, TypeOK, LoopInv
  <1>2. r \in Nat \ {0} /\ r <= Len(q)
    BY <1>1 DEF Found
  <1>3. n \in Nat \ {0} /\ n <= r /\ n <= Len(q) /\ r - n \in Nat
    BY <1>2 DEF Min2
  <1>4. /\ buffer' = SubSeq(q, 1, n) /\ total' = 0 /\ count' = 0 /\ reason' = reason
        /\ inq' = [inq EXCEPT ![from] = SubSeq(q, n + 1, Len(q))]
        /\ pending' = [pending EXCEPT ![from] = IF from \in Tls THEN r - n ELSE 0]
        /\ pc' \in {"write", "send"}
    BY DEF Take
  <1> HIDE DEF n
  <1>5. /\ buffer' \in Seq(Unit) /\ Len(buffer') = n
        /\ \A k \in 1 .. n : buffer'[k] = q[k]
    BY <1>1, <1>3, <1>4, SplitFacts
  <1>6. /\ inq'[from] \in Seq(Unit) /\ Len(inq'[from]) = Len(q) - n
        /\ \A k \in 1 .. (Len(q) - n) : inq'[from][k] = q[n + k]
        /\ inq' \in [Sides -> Seq(Unit)]
        /\ \A s \in Sides : s # from => inq'[s] = inq[s]
    <2>1. inq \in [Sides -> Seq(Unit)]
      BY DEF IInv, TypeOK
    <2> DEFINE rest == SubSeq(q, n + 1, Len(q))
    <2>2. /\ rest \in Seq(Unit) /\ Len(rest) = Len(q) - n
          /\ \A k \in 1 .. (Len(q) - n) : rest[k] = q[n + k]
      BY <1>1, <1>3, SplitFacts
    <2> HIDE DEF rest, q
    <2>3. inq' = [inq EXCEPT ![from] = rest]
      BY <1>4 DEF rest
    <2>4. inq'[from] = rest
      BY <1>1, <2>1, <2>3
    <2> QED
      BY <1>1, <2>1, <2>2, <2>3, <2>4
  <1>7. TypeOK'
    <2>1. pending' \in [Sides -> Nat]
      BY <1>3, <1>4 DEF IInv, TypeOK
    <2>2. total' \in 0 .. Len(buffer') /\ count' \in 0 .. RetryCount
      BY <1>3, <1>4, <1>5
    <2> QED
      BY <1>3, <1>4, <1>5, <1>6, <2>1, <2>2 DEF IInv, TypeOK, config
  <1>8. LoopInv'
    <2> SUFFICES ASSUME NEW s \in Sides PROVE pending'[s] <= Len(inq'[s])
      BY <1>4 DEF LoopInv
    <2>1. pending \in [Sides -> Nat] /\ pending[s] <= Len(inq[s])
      BY DEF IInv, TypeOK, LoopInv
    <2>2. CASE s = from
      BY <1>1, <1>2, <1>3, <1>4, <1>6, <2>1, <2>2
    <2>3. CASE s # from
      BY <1>4, <1>6, <2>1, <2>3
    <2> QED
      BY <2>2, <2>3
  <1>9. Conserved'
    <2> SUFFICES ASSUME NEW s \in Sides PROVE Chain(s)'
      BY ConservedChains DEF Conserved, Chain
    <2>1. CASE s # from
      BY <1>6, <2>1, ChainKept DEF Unwritten
    <2>2. CASE s = from
      <3> DEFINE o == Other(s)
                 g == Len(got[o])
                 p == Len(outq[o])
      <3>1. /\ g + p <= sent[s] /\ \A k \in 1 .. g : got[o][k] = <<s, k>>
            /\ \A k \in 1 .. p : outq[o][k] = <<s, g + k>>
        BY ConservedChains DEF IInv, Chain
      <3>2. Unwritten(s) = 0
        BY <1>1, <2>2 DEF Unwritten
      <3>3. /\ g + p + 0 + Len(q) = sent[s]
            /\ \A k \in 1 .. Len(q) : q[k] = <<s, g + p + 0 + k>>
        <4>1. Chain(s)
          BY ConservedChains DEF IInv
        <4> QED
          BY <2>2, <3>2, <4>1 DEF Chain
      <3>4. g \in Nat /\ p \in Nat /\ sent[s] \in Nat /\ Len(q) \in Nat
        <4>1. got[o] \in Seq(Unit) /\ outq[o] \in Seq(Unit) /\ sent[s] \in 0 .. MaxUnits
          BY SidesFacts DEF IInv, TypeOK
        <4> QED
          BY <1>1, <4>1
      <3>5. Unwritten(s)' = n
        BY <1>3, <1>4, <1>5, <2>2 DEF Unwritten
      <3>6. Len(got'[o]) = g /\ Len(outq'[o]) = p /\ got' = got /\ outq' = outq /\ sent' = sent
        OBVIOUS
      <3> HIDE DEF g, p, q
      <3>7. g + p + n + Len(inq'[s]) = sent[s]
        <4>1. g + p + n + (Len(q) - n) = sent[s]
          BY <1>3, <3>3, <3>4, SumFacts
        <4> QED
          BY <1>6, <2>2, <4>1
      <3>8. \A k \in 1 .. n : buffer'[0 + k] = <<s, g + p + k>>
        <4> SUFFICES ASSUME NEW k \in 1 .. n PROVE buffer'[0 + k] = <<s, g + p + k>>
          OBVIOUS
        <4>1. k \in 1 .. Len(q) /\ 0 + k = k
          BY <1>3, <3>4
        <4>2. buffer'[k] = <<s, g + p + 0 + k>>
          BY <1>5, <3>3, <4>1
        <4>3. g + p + 0 + k = g + p + k
          BY <1>3, <3>4
        <4> QED
          BY <4>1, <4>2, <4>3
      <3>9. \A k \in 1 .. Len(inq'[s]) : inq'[s][k] = <<s, g + p + n + k>>
        <4> SUFFICES ASSUME NEW k \in 1 .. Len(inq'[s])
                     PROVE  inq'[s][k] = <<s, g + p + n + k>>
          OBVIOUS
        <4>1. k \in 1 .. (Len(q) - n) /\ inq'[s][k] = q[n + k]
          BY <1>6, <2>2
        <4>2. n + k \in 1 .. Len(q)
          BY <1>1, <1>3, <4>1
        <4>3. q[n + k] = <<s, g + p + 0 + (n + k)>>
          BY <3>3, <4>2
        <4> QED
          BY <1>3, <3>4, <4>1, <4>3
      <3> QED
        BY <1>4, <3>1, <3>5, <3>6, <3>7, <3>8, <3>9 DEF Chain
    <2> QED
      BY <2>1, <2>2
  <1>10. EofComplete'
    BY <1>4 DEF EofComplete
  <1>11. QuitInv'
    BY <1>4 DEF IInv, QuitInv
  <1> QED
    BY <1>7, <1>8, <1>9, <1>10, <1>11 DEF IInv

LEMMA ReadInv ==
    ASSUME IInv, Read
    PROVE  IInv'
  <1>1. CASE \E r \in Found(from) : Take(r)
    BY <1>1, TakeInv DEF Read
  <1>2. CASE ~ \E r \in Found(from) : Take(r)
    <2>1. /\ pc = "read" /\ UNCHANGED <<config, streams, outq, quit, ready, round, from, late,
                                        buffer, total>>
          /\ \/ inq[from] = <<>> /\ Close("eof") /\ count' = count
             \/ Close("fail") /\ count' = count
             \/ count < RetryCount /\ count' = count + 1 /\ UNCHANGED <<pc, reason>>
      BY <1>2 DEF Read, streams
    <2>2. TypeOK'
      <3>1. /\ pc' \in {"read", "closed"} /\ count' \in 0 .. RetryCount
            /\ reason' \in {"none", "quit", "timeout", "eof", "fail"}
        <4>1. count \in 0 .. RetryCount /\ reason \in {"none", "quit", "timeout", "eof", "fail"}
          BY DEF IInv, TypeOK
        <4> QED
          BY <2>1, <4>1 DEF Close
      <3> QED
        BY <2>1, <3>1 DEF IInv, TypeOK, config, streams
    <2>3. LoopInv'
      BY <2>1 DEF IInv, LoopInv, Close, streams
    <2>4. Conserved'
      BY <2>1, NothingCopied
    <2>5. EofComplete'
      <3>1. CASE Close("eof") /\ inq[from] = <<>>
        <4>1. from \in Sides /\ total = Len(buffer) /\ total \in Nat
          BY <2>1 DEF IInv, TypeOK, LoopInv
        <4>2. Unwritten(from) = 0
          BY <4>1 DEF Unwritten
        <4>3. Len(got[to]) + Len(outq[to]) + 0 + 0 = sent[from]
          BY <2>1, <3>1, <4>1, <4>2, ConservedChains DEF IInv, Chain, to
        <4>4. Len(got[to]) \in Nat /\ Len(outq[to]) \in Nat /\ sent[from] \in Nat
          <5>1. got[to] \in Seq(Unit) /\ outq[to] \in Seq(Unit) /\ sent[from] \in 0 .. MaxUnits
            BY <4>1, SidesFacts DEF IInv, TypeOK, to
          <5> QED
            BY <5>1
        <4>5. Len(got[to]) + Len(outq[to]) = sent[from]
          <5> DEFINE g == Len(got[to])
                     p == Len(outq[to])
                     n == sent[from]
          <5>1. g \in Nat /\ p \in Nat /\ n \in Nat /\ g + p + 0 + 0 = n
            BY <4>3, <4>4
          <5> HIDE DEF g, p, n
          <5>2. g + p = n
            BY <5>1, SumFacts
          <5> QED
            BY <5>2 DEF g, p, n
        <4> QED
          BY <2>1, <4>5 DEF EofComplete, to, streams
      <3>2. CASE Close("fail")
        BY <3>2 DEF EofComplete, Close
      <3>3. CASE UNCHANGED <<pc, reason>>
        BY <2>1, <3>3 DEF EofComplete
      <3> QED
        BY <2>1, <3>1, <3>2, <3>3
    <2>6. QuitInv'
      BY <2>1 DEF IInv, QuitInv, Close
    <2> QED
      BY <2>2, <2>3, <2>4, <2>5, <2>6 DEF IInv
  <1> QED
    BY <1>1, <1>2

\* n units move from the buffer into the socket of the other side.
LEMMA PutInv ==
    ASSUME IInv, pc = "send", NEW n \in Takes, Put(total, n), total' = total + n,
           pc' = IF total' = Len(buffer) THEN "loop" ELSE "send",
           UNCHANGED <<config, streams, quit, ready, round, from, buffer, late>>
    PROVE  IInv'
  <1>1. /\ from \in Sides /\ to \in Sides /\ outq[to] \in Seq(Unit) /\ buffer \in Seq(Unit)
        /\ total \in Nat /\ outq \in [Sides -> Seq(Unit)]
    BY SidesFacts DEF IInv, TypeOK, to
  <1>2. n \in Nat \ {0} /\ total + n <= Len(buffer)
    BY <1>1 DEF Takes, Min2
  <1> DEFINE r == outq[to] \o SubSeq(buffer, total + 1, total + n)
             old == outq[to]
  <1>3. /\ r \in Seq(Unit) /\ Len(r) = Len(old) + n
        /\ \A i \in 1 .. Len(old) : r[i] = old[i]
        /\ \A i \in 1 .. n : r[Len(old) + i] = buffer[total + i]
    BY <1>1, <1>2, AddFacts
  <1>4. outq' = [outq EXCEPT ![to] = r] /\ UNCHANGED <<count, reason>>
    BY DEF Put
  <1> HIDE DEF r, old
  <1>5. /\ outq' \in [Sides -> Seq(Unit)] /\ outq'[to] = r
        /\ \A s \in Sides : s # to => outq'[s] = outq[s]
    BY <1>1, <1>3, <1>4
  <1>6. TypeOK'
    <2>1. total' \in 0 .. Len(buffer') /\ pc' \in {"loop", "send"}
      BY <1>1, <1>2
    <2> QED
      BY <1>4, <1>5, <2>1 DEF IInv, TypeOK, config, streams
  <1>7. LoopInv'
    BY DEF IInv, LoopInv, streams
  <1>8. Conserved'
    <2> SUFFICES ASSUME NEW s \in Sides PROVE Chain(s)'
      BY ConservedChains DEF Conserved, Chain
    <2>1. CASE s # from
      <3>1. outq'[Other(s)] = outq[Other(s)]
        BY <1>1, <1>5, <2>1, SidesFacts DEF to
      <3> QED
        BY <2>1, <3>1, ChainKept DEF Unwritten, streams
    <2>2. CASE s = from
      <3> DEFINE g == Len(got[to])
                 p == Len(old)
                 b == Len(buffer) - total
                 l == Len(inq[s])
      <3>1. to = Other(s) /\ old = outq[to]
        BY <2>2 DEF to, old
      <3>2. Chain(s) /\ Unwritten(s) = b /\ Unwritten(s)' = b - n
        <4>1. Unwritten(s) = b
          BY <2>2 DEF Unwritten
        <4>2. Unwritten(s)' = Len(buffer) - (total + n)
          BY <2>2 DEF Unwritten
        <4> QED
          BY <1>1, <1>2, <4>1, <4>2, ConservedChains DEF IInv
      <3>3. /\ g + p <= sent[s] /\ \A k \in 1 .. g : got[to][k] = <<s, k>>
            /\ \A k \in 1 .. p : old[k] = <<s, g + k>>
            /\ g + p + b + l = sent[s]
            /\ \A k \in 1 .. b : buffer[total + k] = <<s, g + p + k>>
            /\ \A k \in 1 .. l : inq[s][k] = <<s, g + p + b + k>>
        BY <3>1, <3>2 DEF Chain
      <3>4. /\ g \in Nat /\ p \in Nat /\ b \in Nat /\ n <= b /\ b - n \in Nat
            /\ sent[s] \in Nat /\ l \in Nat
        <4>1. /\ got[to] \in Seq(Unit) /\ sent[s] \in 0 .. MaxUnits
              /\ inq[s] \in Seq(Unit) /\ old \in Seq(Unit)
          BY <1>1, <3>1 DEF IInv, TypeOK
        <4>2. g \in Nat /\ p \in Nat /\ sent[s] \in Nat /\ l \in Nat
          BY <4>1
        <4>3. Len(buffer) \in Nat
          BY <1>1
        <4>4. b \in Nat /\ n <= b /\ b - n \in Nat
          BY <1>1, <1>2, <4>3
        <4> QED
          BY <4>2, <4>4
      <3>5. Len(got'[to]) = g /\ Len(outq'[to]) = p + n
        BY <1>3, <1>5 DEF streams
      <3> HIDE DEF g, p, b, l
      <3>6. g + (p + n) + (b - n) + l = sent[s] /\ g + (p + n) <= sent[s]
        BY <1>2, <3>3, <3>4, SumFacts
      <3>7. \A k \in 1 .. (p + n) : outq'[to][k] = <<s, g + k>>
        <4> SUFFICES ASSUME NEW k \in 1 .. (p + n) PROVE r[k] = <<s, g + k>>
          BY <1>5
        <4>1. CASE k <= p
          <5>1. k \in 1 .. p
            BY <3>4, <4>1
          <5> QED
            BY <1>3, <3>3, <5>1 DEF p
        <4>2. CASE k > p
          <5> DEFINE i == k - p
          <5>1. i \in 1 .. n /\ i \in 1 .. b /\ k = p + i
            BY <1>2, <3>4, <4>2
          <5> HIDE DEF i
          <5>2. r[p + i] = buffer[total + i]
            BY <1>3, <5>1 DEF p
          <5>3. buffer[total + i] = <<s, g + p + i>>
            BY <3>3, <5>1
          <5>4. g + p + i = g + k
            BY <3>4, <5>1
          <5> QED
            BY <5>1, <5>2, <5>3, <5>4
        <4> QED
          BY <3>4, <4>1, <4>2
      <3>8. \A k \in 1 .. (b - n) : buffer[(total + n) + k] = <<s, g + (p + n) + k>>
        <4> SUFFICES ASSUME NEW k \in 1 .. (b - n)
                     PROVE  buffer[(total + n) + k] = <<s, g + (p + n) + k>>
          OBVIOUS
        <4>1. n + k \in 1 .. b
          BY <1>2, <3>4
        <4>2. buffer[total + (n + k)] = <<s, g + p + (n + k)>>
          BY <3>3, <4>1
        <4>3. total + (n + k) = (total + n) + k /\ g + p + (n + k) = g + (p + n) + k
          BY <1>1, <1>2, <3>4
        <4> QED
          BY <4>2, <4>3
      <3>9. \A k \in 1 .. l : inq[s][k] = <<s, g + (p + n) + (b - n) + k>>
        <4> SUFFICES ASSUME NEW k \in 1 .. l
                     PROVE  inq[s][k] = <<s, g + (p + n) + (b - n) + k>>
          OBVIOUS
        <4>1. g + (p + n) + (b - n) + k = g + p + b + k
          BY <1>2, <3>4
        <4> QED
          BY <3>3, <4>1
      <3> QED
        BY <1>5, <3>1, <3>2, <3>3, <3>5, <3>6, <3>7, <3>8, <3>9 DEF Chain, streams, l
    <2> QED
      BY <2>1, <2>2
  <1>9. EofComplete'
    BY DEF EofComplete
  <1>10. QuitInv'
    BY DEF IInv, QuitInv
  <1> QED
    BY <1>6, <1>7, <1>8, <1>9, <1>10 DEF IInv

LEMMA SendInv ==
    ASSUME IInv, Send
    PROVE  IInv'
  <1>1. CASE \E n \in Takes : Put(total, n) /\ total' = total + n
                              /\ pc' = IF total' = Len(buffer) THEN "loop" ELSE "send"
    BY <1>1, PutInv DEF Send
  <1>2. CASE ~ \E n \in Takes : Put(total, n) /\ total' = total + n
                                /\ pc' = IF total' = Len(buffer) THEN "loop" ELSE "send"
    <2>1. /\ pc = "send" /\ UNCHANGED <<config, streams, outq, quit, ready, round, from, late,
                                        buffer, total>>
          /\ \/ Close("fail") /\ count' = count
             \/ count < RetryCount /\ count' = count + 1 /\ UNCHANGED <<pc, reason>>
      BY <1>2 DEF Send
    <2>2. TypeOK'
      <3>1. /\ pc' \in {"send", "closed"} /\ count' \in 0 .. RetryCount
            /\ reason' \in {"none", "quit", "timeout", "eof", "fail"}
        <4>1. count \in 0 .. RetryCount /\ reason \in {"none", "quit", "timeout", "eof", "fail"}
          BY DEF IInv, TypeOK
        <4> QED
          BY <2>1, <4>1 DEF Close
      <3> QED
        BY <2>1, <3>1 DEF IInv, TypeOK, config, streams
    <2>3. LoopInv' /\ EofComplete' /\ QuitInv'
      BY <2>1 DEF IInv, LoopInv, EofComplete, QuitInv, Close, streams
    <2>4. Conserved'
      BY <2>1, NothingCopied
    <2> QED
      BY <2>2, <2>3, <2>4 DEF IInv
  <1> QED
    BY <1>1, <1>2

-----------------------------------------------------------------------------
(* Steps of the peers *)

LEMMA PeerSendsInv ==
    ASSUME IInv, NEW t \in Sides, PeerSends(t)
    PROVE  IInv'
  <1> DEFINE x == <<t, sent[t] + 1>>
             q == inq[t]
  <1>1. /\ q \in Seq(Unit) /\ sent[t] \in Nat /\ sent[t] < MaxUnits
        /\ inq \in [Sides -> Seq(Unit)] /\ sent \in [Sides -> 0 .. MaxUnits]
        /\ inq' = [inq EXCEPT ![t] = Append(q, x)] /\ sent' = [sent EXCEPT ![t] = @ + 1]
        /\ UNCHANGED <<config, pending, closed, got, outq, quit, loop>> /\ pc # "closed"
    <2>1. inq \in [Sides -> Seq(Unit)] /\ sent \in [Sides -> 0 .. MaxUnits]
      BY DEF IInv, TypeOK
    <2>2. q \in Seq(Unit) /\ sent[t] \in Nat
      BY <2>1
    <2> QED
      BY <2>1, <2>2 DEF PeerSends
  <1>2. x \in Unit
    BY <1>1 DEF Unit
  <1> HIDE DEF x
  <1>3. /\ Append(q, x) \in Seq(Unit) /\ Len(Append(q, x)) = Len(q) + 1
        /\ \A k \in 1 .. Len(q) : Append(q, x)[k] = q[k]
        /\ Append(q, x)[Len(q) + 1] = x
    BY <1>1, <1>2, UnitFacts
  <1>4. /\ inq' \in [Sides -> Seq(Unit)] /\ sent' \in [Sides -> 0 .. MaxUnits]
        /\ inq'[t] = Append(q, x) /\ sent'[t] = sent[t] + 1
        /\ \A s \in Sides : s # t => inq'[s] = inq[s] /\ sent'[s] = sent[s]
    BY <1>1, <1>3
  <1>5. TypeOK'
    BY <1>1, <1>4 DEF IInv, TypeOK, config, loop
  <1>6. LoopInv'
    <2> SUFFICES ASSUME NEW s \in Sides PROVE pending[s] <= Len(inq'[s])
      BY <1>1 DEF IInv, LoopInv, loop
    <2>1. pending[s] <= Len(inq[s]) /\ pending[s] \in Nat
      BY DEF IInv, TypeOK, LoopInv
    <2>2. Len(q) \in Nat
      BY <1>1
    <2> QED
      BY <1>3, <1>4, <2>1, <2>2
  <1>7. Conserved'
    <2> SUFFICES ASSUME NEW s \in Sides PROVE Chain(s)'
      BY ConservedChains DEF Conserved, Chain
    <2>1. CASE s # t
      BY <1>1, <1>4, <2>1, ChainKept DEF loop
    <2>2. CASE s = t
      <3> DEFINE o == Other(s)
                 g == Len(got[o])
                 p == Len(outq[o])
                 b == Unwritten(s)
                 l == Len(q)
      <3>1. /\ g + p <= sent[s] /\ \A k \in 1 .. g : got[o][k] = <<s, k>>
            /\ \A k \in 1 .. p : outq[o][k] = <<s, g + k>>
            /\ g + p + b + l = sent[s]
            /\ \A k \in 1 .. b : buffer[total + k] = <<s, g + p + k>>
            /\ \A k \in 1 .. l : q[k] = <<s, g + p + b + k>>
        <4>1. Chain(s)
          BY ConservedChains DEF IInv
        <4> QED
          BY <1>1, <2>2, <4>1 DEF Chain
      <3>2. g \in Nat /\ p \in Nat /\ b \in Nat /\ l \in Nat /\ sent[s] \in Nat
        <4>1. /\ got[o] \in Seq(Unit) /\ outq[o] \in Seq(Unit) /\ buffer \in Seq(Unit)
              /\ total \in 0 .. Len(buffer)
          BY SidesFacts DEF IInv, TypeOK
        <4>2. b \in Nat
          BY <4>1 DEF Unwritten
        <4> QED
          BY <1>1, <2>2, <4>1, <4>2
      <3>3. Unwritten(s)' = b
        BY <1>1 DEF Unwritten, loop
      <3> HIDE DEF g, p, b, l
      <3>4. \A k \in 1 .. (l + 1) : inq'[s][k] = <<s, g + p + b + k>>
        <4> SUFFICES ASSUME NEW k \in 1 .. (l + 1)
                     PROVE  Append(q, x)[k] = <<s, g + p + b + k>>
          BY <1>4, <2>2
        <4>1. CASE k <= l
          <5>1. k \in 1 .. l
            BY <3>2, <4>1
          <5> QED
            BY <1>3, <3>1, <5>1 DEF l
        <4>2. CASE k > l
          <5>2. k = l + 1
            BY <3>2, <4>2
          <5>1. k = l + 1 /\ g + p + b + k = sent[s] + 1
            BY <3>1, <3>2, <5>2
          <5> QED
            BY <1>3, <2>2, <5>1 DEF l, x
        <4>3. k <= l \/ k > l
          BY <3>2
        <4> QED
          BY <4>1, <4>2, <4>3
      <3>5. Len(inq'[s]) = l + 1 /\ g + p + b + (l + 1) = sent'[s] /\ g + p <= sent'[s]
        <4>1. g + p + b + (l + 1) = sent[s] + 1 /\ g + p <= sent[s] + 1
          BY <3>1, <3>2
        <4> QED
          BY <1>3, <1>4, <2>2, <4>1 DEF l
      <3>6. UNCHANGED <<got, outq, buffer, total>>
        BY <1>1 DEF loop
      <3> QED
        BY <3>1, <3>3, <3>4, <3>5, <3>6 DEF Chain, g, p
    <2> QED
      BY <2>1, <2>2
  <1>8. EofComplete' /\ QuitInv'
    BY <1>1 DEF IInv, EofComplete, QuitInv, loop
  <1> QED
    BY <1>5, <1>6, <1>7, <1>8 DEF IInv

LEMMA PeerReadsInv ==
    ASSUME IInv, NEW t \in Sides, PeerReads(t)
    PROVE  IInv' /\ got'[t] = Append(got[t], <<Other(t), Len(got[t]) + 1>>)
                 /\ Len(got[t]) < sent[Other(t)]
  <1> DEFINE q == outq[t]
             x == Head(q)
             s == Other(t)
             g == Len(got[t])
             l == Len(q)
  <1>1. /\ q \in Seq(Unit) /\ q # <<>> /\ got[t] \in Seq(Unit)
        /\ outq \in [Sides -> Seq(Unit)] /\ got \in [Sides -> Seq(Unit)]
        /\ got' = [got EXCEPT ![t] = Append(@, x)] /\ outq' = [outq EXCEPT ![t] = Tail(q)]
        /\ UNCHANGED <<config, sent, inq, pending, closed, quit, loop>>
        /\ s \in Sides /\ Other(s) = t /\ sent[s] \in 0 .. MaxUnits /\ inq[s] \in Seq(Unit)
    <2>1. s \in Sides /\ Other(s) = t
      BY SidesFacts
    <2>2. /\ outq \in [Sides -> Seq(Unit)] /\ got \in [Sides -> Seq(Unit)]
          /\ inq \in [Sides -> Seq(Unit)] /\ sent \in [Sides -> 0 .. MaxUnits]
      BY DEF IInv, TypeOK
    <2>3. q # <<>> /\ UNCHANGED <<config, sent, inq, pending, closed, quit, loop>>
          /\ got' = [got EXCEPT ![t] = Append(@, x)] /\ outq' = [outq EXCEPT ![t] = Tail(q)]
      BY <2>2 DEF PeerReads
    <2> HIDE DEF s, x
    <2> QED
      BY <2>1, <2>2, <2>3
  <1>2. /\ x = q[1] /\ x \in Unit /\ Tail(q) \in Seq(Unit) /\ Len(Tail(q)) = l - 1
        /\ \A k \in 1 .. (l - 1) : Tail(q)[k] = q[k + 1]
    BY <1>1, UnitFacts
  <1> HIDE DEF x
  <1>3. /\ Append(got[t], x) \in Seq(Unit) /\ Len(Append(got[t], x)) = g + 1
        /\ \A k \in 1 .. g : Append(got[t], x)[k] = got[t][k]
        /\ Append(got[t], x)[g + 1] = x
    BY <1>1, <1>2, UnitFacts
  <1>4. /\ got' \in [Sides -> Seq(Unit)] /\ outq' \in [Sides -> Seq(Unit)]
        /\ got'[t] = Append(got[t], x) /\ outq'[t] = Tail(q)
        /\ \A u \in Sides : u # t => got'[u] = got[u] /\ outq'[u] = outq[u]
    BY <1>1, <1>2, <1>3
  <1>5. g \in Nat /\ l \in Nat /\ l >= 1 /\ l - 1 \in Nat /\ sent[s] \in Nat
    BY <1>1
  <1>6. /\ g + l <= sent[s] /\ \A k \in 1 .. g : got[t][k] = <<s, k>>
        /\ \A k \in 1 .. l : q[k] = <<s, g + k>>
    <2>1. Chain(s)
      BY <1>1, ConservedChains DEF IInv
    <2> QED
      BY <1>1, <2>1 DEF Chain
  <1>7. x = <<s, g + 1>> /\ g < sent[s]
    <2>1. 1 \in 1 .. l
      BY <1>5
    <2> HIDE DEF g, l, q, s
    <2>2. x = <<s, g + 1>>
      BY <1>2, <1>6, <2>1
    <2>3. g < sent[s]
      BY <1>5, <1>6
    <2> QED
      BY <2>2, <2>3
  <1>8. TypeOK'
    BY <1>1, <1>4 DEF IInv, TypeOK, config, loop
  <1>9. LoopInv' /\ QuitInv'
    BY <1>1 DEF IInv, LoopInv, QuitInv, loop
  <1>10. EofComplete'
    <2>1. CASE t = to
      <3>1. Len(got'[to]) + Len(outq'[to]) = Len(got[to]) + Len(outq[to])
        <4>1. (g + 1) + (l - 1) = g + l
          <5> HIDE DEF g, l
          <5> QED
            BY <1>5
        <4> QED
          BY <1>2, <1>3, <1>4, <2>1, <4>1
      <3> QED
        BY <1>1, <3>1 DEF IInv, EofComplete, loop, to
    <2>2. CASE t # to
      <3>1. got'[to] = got[to] /\ outq'[to] = outq[to]
        BY <1>4, <2>2, SidesFacts DEF IInv, TypeOK, to
      <3> QED
        BY <1>1, <3>1 DEF IInv, EofComplete, loop, to
    <2> QED
      BY <2>1, <2>2
  <1>11. Conserved'
    <2> SUFFICES ASSUME NEW u \in Sides PROVE Chain(u)'
      BY ConservedChains DEF Conserved, Chain
    <2>1. CASE u # s
      <3>1. Other(u) # t
        BY <1>1, <2>1, SidesFacts
      <3> QED
        BY <1>1, <1>4, <3>1, SidesFacts, ChainKept DEF loop
    <2>2. CASE u = s
      <3> DEFINE b == Unwritten(s)
                 n == Len(inq[s])
      <3>1. pc # "closed" =>
               /\ g + l + b + n = sent[s]
               /\ \A k \in 1 .. b : buffer[total + k] = <<s, g + l + k>>
               /\ \A k \in 1 .. n : inq[s][k] = <<s, g + l + b + k>>
        <4>1. Chain(s)
          BY <1>1, ConservedChains DEF IInv
        <4> QED
          BY <1>1, <4>1 DEF Chain
      <3>2. b \in Nat /\ n \in Nat
        <4>1. buffer \in Seq(Unit) /\ total \in 0 .. Len(buffer)
          BY DEF IInv, TypeOK
        <4> QED
          BY <1>1, <4>1 DEF Unwritten
      <3>3. Unwritten(s)' = b
        BY <1>1 DEF Unwritten, loop
      <3>4. UNCHANGED <<inq, sent, buffer, total, pc>>
        BY <1>1 DEF loop
      <3> HIDE DEF g, l, b, n, q, s
      <3>5. \A k \in 1 .. (g + 1) : got'[t][k] = <<s, k>>
        <4> SUFFICES ASSUME NEW k \in 1 .. (g + 1) PROVE Append(got[t], x)[k] = <<s, k>>
          BY <1>4
        <4>1. k \in 1 .. g \/ k = g + 1
          BY <1>5
        <4> QED
          BY <1>3, <1>6, <1>7, <4>1
      <3>6. \A k \in 1 .. (l - 1) : outq'[t][k] = <<s, (g + 1) + k>>
        <4> SUFFICES ASSUME NEW k \in 1 .. (l - 1) PROVE Tail(q)[k] = <<s, (g + 1) + k>>
          BY <1>4
        <4>1. k + 1 \in 1 .. l /\ g + (k + 1) = (g + 1) + k
          BY <1>5
        <4> QED
          BY <1>2, <1>6, <4>1
      <3>7. \A k \in Nat : g + l + k = (g + 1) + (l - 1) + k
        BY <1>5
      <3>8. \A k \in Nat : g + l + b + k = (g + 1) + (l - 1) + b + k
        BY <1>5, <3>2
      <3>9. (g + 1) + (l - 1) = g + l
        BY <1>5
      <3>10. Len(got'[t]) = g + 1 /\ Len(outq'[t]) = l - 1
        BY <1>2, <1>3, <1>4
      <3>11. (g + 1) + (l - 1) <= sent[s]
        BY <1>6, <3>9
      <3>12. pc # "closed" =>
                /\ (g + 1) + (l - 1) + b + n = sent[s]
                /\ \A k \in 1 .. b : buffer[total + k] = <<s, (g + 1) + (l - 1) + k>>
                /\ \A k \in 1 .. n : inq[s][k] = <<s, (g + 1) + (l - 1) + b + k>>
        BY <3>1, <3>9
      <3> QED
        <4> DEFINE g1 == g + 1
                   l1 == l - 1
        <4>1. /\ t = Other(s) /\ s \in Sides /\ sent'[s] = sent[s] /\ inq'[s] = inq[s]
              /\ buffer' = buffer /\ total' = total /\ pc' = pc
          BY <1>1, <3>4
        <4>2. /\ g1 + l1 <= sent'[s]
              /\ pc' # "closed" =>
                    /\ g1 + l1 + Unwritten(s)' + Len(inq'[s]) = sent'[s]
                    /\ \A k \in 1 .. Unwritten(s)' : buffer'[total' + k] = <<s, g1 + l1 + k>>
                    /\ \A k \in 1 .. Len(inq'[s]) :
                          inq'[s][k] = <<s, g1 + l1 + Unwritten(s)' + k>>
          BY <3>3, <3>11, <3>12, <4>1 DEF n
        <4>3. Len(got'[Other(s)]) = g1 /\ Len(outq'[Other(s)]) = l1
          BY <3>10, <4>1
        <4>4. /\ \A k \in 1 .. g1 : got'[Other(s)][k] = <<s, k>>
              /\ \A k \in 1 .. l1 : outq'[Other(s)][k] = <<s, g1 + k>>
          BY <3>5, <3>6, <4>1
        <4> HIDE DEF g1, l1
        <4>5. Chain(s)'
          BY <4>1, <4>2, <4>3, <4>4 DEF Chain
        <4> QED
          BY <2>2, <4>5
    <2> QED
      BY <2>1, <2>2
  <1>12. IInv'
    BY <1>8, <1>9, <1>10, <1>11 DEF IInv
  <1> QED
    BY <1>4, <1>7, <1>12

LEMMA PeerClosesInv ==
    ASSUME IInv, SetQuit \/ \E t \in Sides : PeerCloses(t)
    PROVE  IInv'
  <1>1. UNCHANGED <<config, sent, inq, pending, got, outq, loop>> /\ pc # "closed"
    BY DEF SetQuit, PeerCloses, streams
  <1>2. TypeOK'
    <2>1. closed' \in [Sides -> BOOLEAN] /\ quit' \in BOOLEAN
      BY DEF IInv, TypeOK, SetQuit, PeerCloses, streams
    <2> QED
      BY <1>1, <2>1 DEF IInv, TypeOK, config, loop
  <1>3. LoopInv' /\ EofComplete'
    BY <1>1 DEF IInv, LoopInv, EofComplete, loop
  <1>4. QuitInv'
    <2>1. quit => quit'
      BY DEF SetQuit, PeerCloses
    <2> QED
      BY <1>1, <2>1 DEF IInv, QuitInv, loop
  <1>5. Conserved'
    <2> SUFFICES ASSUME NEW s \in Sides PROVE Chain(s)'
      BY ConservedChains DEF Conserved, Chain
    <2> QED
      BY <1>1, ChainKept DEF loop
  <1> QED
    BY <1>2, <1>3, <1>4, <1>5 DEF IInv

LEMMA SocketResetInv ==
    ASSUME IInv, NEW t \in Sides, SocketReset(t)
    PROVE  IInv'
  <1>1. /\ pc = "closed" /\ inq[t] # <<>> /\ outq' = [outq EXCEPT ![t] = <<>>]
        /\ UNCHANGED <<config, streams, quit, loop>> /\ outq \in [Sides -> Seq(Unit)]
    BY DEF SocketReset, IInv, TypeOK
  <1>2. /\ <<>> \in Seq(Unit) /\ outq'[t] = <<>> /\ outq' \in [Sides -> Seq(Unit)]
        /\ \A u \in Sides : u # t => outq'[u] = outq[u]
    BY <1>1
  <1>3. TypeOK' /\ LoopInv' /\ QuitInv'
    BY <1>1, <1>2 DEF IInv, TypeOK, LoopInv, QuitInv, config, loop, streams
  <1>4. EofComplete'
    <2>1. to \in Sides
      BY SidesFacts DEF IInv, TypeOK, to
    <2>2. CASE t = to
      BY <1>1, <2>2 DEF EofComplete, loop, streams, to
    <2>3. CASE t # to
      BY <1>1, <1>2, <2>1, <2>3 DEF IInv, EofComplete, loop, streams, to
    <2> QED
      BY <2>2, <2>3
  <1>5. Conserved'
    <2> SUFFICES ASSUME NEW s \in Sides PROVE Chain(s)'
      BY ConservedChains DEF Conserved, Chain
    <2>1. CASE Other(s) # t
      BY <1>1, <1>2, <2>1, SidesFacts, ChainKept DEF loop, streams
    <2>2. CASE Other(s) = t
      <3>1. Chain(s)
        BY ConservedChains DEF IInv
      <3>2. Len(outq'[t]) = 0 /\ got' = got /\ sent' = sent /\ pc' = "closed"
        BY <1>1, <1>2 DEF loop, streams
      <3>3. Len(got[t]) \in Nat /\ Len(outq[t]) \in Nat /\ sent[s] \in Nat
        <4>1. got[t] \in Seq(Unit) /\ outq[t] \in Seq(Unit) /\ sent[s] \in 0 .. MaxUnits
          BY DEF IInv, TypeOK
        <4> QED
          BY <4>1
      <3>4. /\ Len(got[t]) + Len(outq[t]) <= sent[s]
            /\ \A k \in 1 .. Len(got[t]) : got[t][k] = <<s, k>>
        BY <2>2, <3>1 DEF Chain
      <3>5. Len(got[t]) + 0 <= sent[s]
        <4> DEFINE g == Len(got[t])
                   p == Len(outq[t])
                   n == sent[s]
        <4>1. g \in Nat /\ p \in Nat /\ n \in Nat /\ g + p <= n
          BY <3>3, <3>4
        <4> HIDE DEF g, p, n
        <4>2. g + 0 <= n
          BY <4>1
        <4> QED
          BY <4>2 DEF g, n
      <3> QED
        BY <2>2, <3>2, <3>4, <3>5 DEF Chain
    <2> QED
      BY <2>1, <2>2
  <1> QED
    BY <1>3, <1>4, <1>5 DEF IInv

-----------------------------------------------------------------------------
(* The theorems *)

LEMMA NextInv == IInv /\ [Next]_vars => IInv'
  <1> SUFFICES ASSUME IInv, [Next]_vars PROVE IInv'
    OBVIOUS
  <1>1. CASE CopyNext
    BY <1>1, EnterLoopInv, SelectInv, PickSideInv, ReadInv, AwaitWritableInv, SendInv
       DEF CopyNext
  <1>2. CASE PeersNext
    BY <1>2, PeerSendsInv, PeerReadsInv, PeerClosesInv, SocketResetInv DEF PeersNext
  <1>3. CASE Terminated \/ UNCHANGED vars
    <2>1. UNCHANGED vars
      BY <1>3 DEF Terminated
    <2>2. TypeOK' /\ LoopInv' /\ EofComplete' /\ QuitInv'
      BY <2>1 DEF IInv, TypeOK, LoopInv, EofComplete, QuitInv, to, vars, config, streams, loop
    <2>3. Conserved'
      <3>1. UNCHANGED <<got, outq, inq, sent, from, buffer, total, pc>>
        BY <2>1 DEF vars, streams, loop
      <3>2. \A s \in Sides : Chain(s)'
        BY <3>1, ChainKept
      <3> QED
        BY <3>2, ConservedChains DEF Conserved, Chain
    <2> QED
      BY <2>2, <2>3 DEF IInv
  <1> QED
    BY <1>1, <1>2, <1>3 DEF Next

LEMMA Inductive == Spec => []IInv
  BY InitInv, NextInv, PTL DEF Spec

\* Every variable keeps its type: no loop writes past the end of its buffer.
THEOREM TypeCorrect == Spec => []TypeOK
  <1>1. IInv => TypeOK
    BY DEF IInv
  <1> QED
    BY <1>1, Inductive, PTL

\* The copy loops, with short reads, short writes, retries and TLS records
\* larger than the buffer, neither lose, double nor reorder anything.
THEOREM NothingLost == Spec => []Conserved
  <1>1. IInv => Conserved
    BY DEF IInv
  <1> QED
    BY <1>1, Inductive, PTL

\* The EOF of the sender is acted on only after all of its data was passed on.
THEOREM CompleteAtEof == Spec => []EofComplete
  <1>1. IInv => EofComplete
    BY DEF IInv
  <1> QED
    BY <1>1, Inductive, PTL

\* After deletedatathread has set the quit flag at most one read begins.
THEOREM StopsOnQuit == Spec => []QuitStopsReading
  <1>1. IInv => QuitStopsReading
    BY DEF IInv, TypeOK, QuitInv, QuitStopsReading
  <1> QED
    BY <1>1, Inductive, PTL

\* What a side has got changes only by a unit of the other side that comes
\* next, and what a side has sent only by one unit more.
LEMMA StepIsPipe ==
    ASSUME IInv, [Next]_vars, NEW s \in Sides
    PROVE  \/ UNCHANGED <<sent[s], got[Other(s)]>>
           \/ sent[s] < MaxUnits /\ sent'[s] = sent[s] + 1 /\ UNCHANGED got[Other(s)]
           \/ /\ Len(got[Other(s)]) < sent[s] /\ UNCHANGED sent[s]
              /\ got'[Other(s)] = Append(got[Other(s)], <<s, Len(got[Other(s)]) + 1>>)
  <1>1. CASE UNCHANGED <<sent, got>>
    BY <1>1
  <1>2. CASE \E t \in Sides : PeerSends(t)
    BY <1>2 DEF PeerSends, IInv, TypeOK
  <1>3. CASE \E t \in Sides : PeerReads(t)
    <2>1. PICK t \in Sides : PeerReads(t)
      BY <1>3
    <2>2. CASE t = Other(s)
      BY <2>1, <2>2, SidesFacts, PeerReadsInv DEF PeerReads
    <2>3. CASE t # Other(s)
      BY <2>1, <2>3 DEF PeerReads, IInv, TypeOK
    <2> QED
      BY <2>2, <2>3
  <1>4. \/ UNCHANGED <<sent, got>>
        \/ \E t \in Sides : PeerSends(t) \/ PeerReads(t)
    BY DEF Next, CopyNext, PeersNext, EnterLoop, Select, PickSide, Read, AwaitWritable, Send,
           PeerCloses, SocketReset, SetQuit, Terminated, vars, streams
  <1> QED
    BY <1>1, <1>2, <1>3, <1>4

\* The loops implement a pipe from the site to the client.
THEOREM DownloadImplementsPipe == Spec => DownloadIsPipe
  <1>1. Init => Download!Init
    BY DEF Init, Download!Init, Sides
  <1>2. IInv /\ [Next]_vars => [Download!Next]_<<sent["site"], got["client"]>>
    <2>1. "site" \in Sides /\ Other("site") = "client"
      BY DEF Sides, Other
    <2> QED
      BY <2>1, StepIsPipe DEF Download!Next, Download!Send, Download!Deliver
  <1> QED
    BY <1>1, <1>2, Inductive, PTL DEF Spec, DownloadIsPipe, Download!Spec

\* ... and one from the client to the site.
THEOREM UploadImplementsPipe == Spec => UploadIsPipe
  <1>1. Init => Upload!Init
    BY DEF Init, Upload!Init, Sides
  <1>2. IInv /\ [Next]_vars => [Upload!Next]_<<sent["client"], got["site"]>>
    <2>1. "client" \in Sides /\ Other("client") = "site"
      BY DEF Sides, Other
    <2> QED
      BY <2>1, StepIsPipe DEF Upload!Next, Upload!Send, Upload!Deliver
  <1> QED
    BY <1>1, <1>2, Inductive, PTL DEF Spec, UploadIsPipe, Upload!Spec

\* Whatever the two loops do with their shared buffer, each direction
\* implements the abstract pipe.
THEOREM LoopsImplementPipes == Spec => BothArePipes
  BY DownloadImplementsPipe, UploadImplementsPipe, PTL DEF BothArePipes
=============================================================================
