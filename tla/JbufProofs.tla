----------------------------- MODULE JbufProofs -----------------------------
(***************************************************************************)
(* Proofs about the jitter buffer, for every size of the buffer and every  *)
(* width of the sequence numbers and of the clock.                         *)
(***************************************************************************)
EXTENDS Jbuf, TLAPS

\* What is proved of a list of packets.
SortedList(l) ==
  \A i \in 1 .. Len(l) - 1 : rtp_seq_less(l[i].seq, l[i + 1].seq)

\* While a put that has flushed waits for the lock the buffer is empty.
PendingEmpty == pending # -1 => packetl = <<>>

\* The inductive invariant.
IInv == TypeOK /\ PoolConserved /\ Sorted /\ OneSource /\ PendingEmpty

-----------------------------------------------------------------------------
(* Lemmas about the operators *)

\* A remainder is within the range of the modulus.
LEMMA ModRange ==
  ASSUME NEW m \in Nat \ {0}, NEW x \in Int
  PROVE  x % m \in 0 .. m - 1 /\ x % m \in Nat
OBVIOUS

\* Of two different numbers that are not in order one way round, the other way
\* round they are.
LEMMA SeqTotal ==
  ASSUME NEW a \in Seqs, NEW b \in Seqs, ~rtp_seq_less(a, b), a # b
  PROVE  rtp_seq_less(b, a)
BY JbufAssumption DEF Seqs, SeqMod, rtp_seq_less

\* The insertion of jbuf_put(), where the search has put it, keeps the order.
LEMMA InsertSorted ==
  ASSUME NEW l \in Seq(Packet), SortedList(l), NEW p \in 0 .. Len(l),
         NEW f \in Packet, Position(l, f.seq, p), ~Duplicate(l, f.seq, p)
  PROVE  /\ list_insert_after(l, p, f) \in Seq(Packet)
         /\ Len(list_insert_after(l, p, f)) = Len(l) + 1
         /\ SortedList(list_insert_after(l, p, f))
<1> DEFINE m == list_insert_after(l, p, f)
<1>1. /\ m \in Seq(Packet) /\ Len(m) = Len(l) + 1
      /\ \A i \in 1 .. Len(l) + 1 :
           m[i] = IF i <= p THEN l[i] ELSE IF i = p + 1 THEN f ELSE l[i - 1]
  <2>1. \A i \in 1 .. Len(l) + 1 :
          (IF i <= p THEN l[i] ELSE IF i = p + 1 THEN f ELSE l[i - 1]) \in Packet
    OBVIOUS
  <2>2. m \in [1 .. Len(l) + 1 -> Packet]
    BY <2>1, Zenon DEF list_insert_after
  <2>3. Len(l) + 1 \in Nat
    OBVIOUS
  <2>4. m \in Seq(Packet) /\ Len(m) = Len(l) + 1
    <3> HIDE DEF m
    <3> QED BY <2>2, <2>3
  <2> QED BY <2>4, Zenon DEF list_insert_after
<1> HIDE DEF m
<1>2. ASSUME NEW i \in 1 .. Len(m) - 1
      PROVE  rtp_seq_less(m[i].seq, m[i + 1].seq)
  <2>0. /\ Len(l) \in Nat /\ i \in 1 .. Len(l)
        /\ m[i] = IF i <= p THEN l[i] ELSE IF i = p + 1 THEN f ELSE l[i - 1]
        /\ m[i + 1] = IF i + 1 <= p THEN l[i + 1]
                      ELSE IF i + 1 = p + 1 THEN f ELSE l[i]
    <3>1. Len(l) \in Nat /\ i \in 1 .. Len(l) + 1 /\ i + 1 \in 1 .. Len(l) + 1
      BY <1>1
    <3>2. (i + 1) - 1 = i
      BY <3>1
    <3> QED BY <1>1, <3>1, <3>2
  <2>1. CASE i < p
    <3>1. m[i] = l[i] /\ m[i + 1] = l[i + 1] /\ i \in 1 .. Len(l) - 1
      BY <2>0, <2>1
    <3> QED BY <3>1, Zenon DEF SortedList
  <2>2. CASE i = p
    <3>1. m[i] = l[p] /\ m[i + 1] = f
      BY <2>0, <2>2
    <3> QED BY <2>2, <3>1 DEF Position, Duplicate
  <2>3. CASE i = p + 1
    <3>1. m[i] = f /\ m[i + 1] = l[p + 1] /\ p + 1 \in 1 .. Len(l)
      BY <2>0, <2>3
    <3>2. ~rtp_seq_less(l[p + 1].seq, f.seq) /\ l[p + 1].seq # f.seq
      BY <3>1 DEF Position
    <3>3. l[p + 1].seq \in Seqs /\ f.seq \in Seqs
      <4>1. l[p + 1] \in Packet
        BY <3>1
      <4> DEFINE g == l[p + 1]
      <4> HIDE DEF g
      <4>2. g \in Packet
        BY <4>1, Zenon DEF g
      <4>3. g.seq \in Seqs /\ f.seq \in Seqs
        BY <4>2, Zenon DEF Packet
      <4> QED BY <4>3, Zenon DEF g
    <3> QED BY <3>1, <3>2, <3>3, SeqTotal, Zenon
  <2>4. CASE i > p + 1
    <3>1. m[i] = l[i - 1] /\ m[i + 1] = l[i] /\ i - 1 \in 1 .. Len(l) - 1
      BY <2>0, <2>4
    <3>2. (i - 1) + 1 = i
      BY <2>0
    <3> QED BY <3>1, <3>2, Zenon DEF SortedList
  <2> QED BY <2>1, <2>2, <2>3, <2>4
<1> QED BY <1>1, <1>2, Zenon DEF SortedList, m

\* The head of a list leaves it.
LEMMA TailList ==
  ASSUME NEW l \in Seq(Packet), l # <<>>
  PROVE  /\ Tail(l) \in Seq(Packet) /\ Len(Tail(l)) = Len(l) - 1 /\ Len(l) > 0
         /\ Head(l) \in Packet
         /\ SortedList(l) => SortedList(Tail(l))
         /\ \A s : (\A i \in 1 .. Len(l) : l[i].ssrc = s)
                     => \A i \in 1 .. Len(Tail(l)) : Tail(l)[i].ssrc = s
<1>1. /\ Tail(l) \in Seq(Packet) /\ Len(Tail(l)) = Len(l) - 1 /\ Len(l) > 0
      /\ Head(l) \in Packet
      /\ \A i \in 1 .. Len(l) - 1 : Tail(l)[i] = l[i + 1]
  OBVIOUS
<1>2. ASSUME SortedList(l), NEW i \in 1 .. Len(Tail(l)) - 1
      PROVE  rtp_seq_less(Tail(l)[i].seq, Tail(l)[i + 1].seq)
  <2>1. /\ Tail(l)[i] = l[i + 1] /\ Tail(l)[i + 1] = l[(i + 1) + 1]
        /\ i + 1 \in 1 .. Len(l) - 1
    BY <1>1
  <2> QED BY <1>2, <2>1, Zenon DEF SortedList
<1>3. ASSUME NEW s, \A i \in 1 .. Len(l) : l[i].ssrc = s,
             NEW i \in 1 .. Len(Tail(l))
      PROVE  Tail(l)[i].ssrc = s
  <2>1. Tail(l)[i] = l[i + 1] /\ i + 1 \in 1 .. Len(l)
    BY <1>1
  <2> QED BY <1>3, <2>1, Zenon
<1> QED BY <1>1, <1>2, <1>3, Zenon DEF SortedList

\* The packet the buffer gives up to make room, and the counters.
LEMMA AllocList ==
  ASSUME IInv
  PROVE  /\ packet_alloc_l \in Seq(Packet) /\ SortedList(packet_alloc_l)
         /\ \A i \in 1 .. Len(packet_alloc_l) : packet_alloc_l[i].ssrc = ssrc
         /\ packet_alloc_n \in Nat /\ packet_alloc_pool \in Nat
         /\ packet_alloc_n = Len(packet_alloc_l) + 1
         /\ Len(packet_alloc_l) + packet_alloc_pool + 1 = MaxSz
         /\ packetl = <<>> => packet_alloc_l = <<>>
<1>1. /\ packetl \in Seq(Packet) /\ SortedList(packetl)
      /\ \A i \in 1 .. Len(packetl) : packetl[i].ssrc = ssrc
      /\ pooln \in Nat /\ n \in Nat
      /\ n = Len(packetl) /\ Len(packetl) + pooln = MaxSz
      /\ MaxSz \in Nat \ {0}
  BY JbufAssumption, Zenon
     DEF IInv, TypeOK, PoolConserved, Sorted, SortedList, OneSource
<1>2. CASE pooln > 0
  BY <1>1, <1>2 DEF packet_alloc_l, packet_alloc_n, packet_alloc_pool
<1>3. CASE ~(pooln > 0)
  <2>1. pooln = 0 /\ Len(packetl) = MaxSz /\ packetl # <<>>
    BY <1>1, <1>3
  <2>2. /\ packet_alloc_l = Tail(packetl) /\ packet_alloc_n = n
        /\ packet_alloc_pool = pooln
    BY <1>3, Zenon DEF packet_alloc_l, packet_alloc_n, packet_alloc_pool
  <2>3. /\ Tail(packetl) \in Seq(Packet) /\ Len(Tail(packetl)) = Len(packetl) - 1
        /\ SortedList(Tail(packetl))
        /\ \A i \in 1 .. Len(Tail(packetl)) : Tail(packetl)[i].ssrc = ssrc
    BY <1>1, <2>1, TailList, Zenon
  <2> QED BY <1>1, <2>1, <2>2, <2>3
<1> QED BY <1>2, <1>3, Zenon

\* The critical section of jbuf_put(), for a packet of the source of the buffer
\* or for an empty buffer.
LEMMA PutStep ==
  ASSUME IInv, NEW k \in Nat, NEW s \in 1 .. Ssrc, NEW lat \in Nat,
         NEW skew \in {-1, 0, 1}, PutLocked(k, s, lat, skew),
         s = ssrc \/ packetl = <<>>
  PROVE  /\ packetl' \in Seq(Packet) /\ pooln' \in Nat /\ n' \in Nat
         /\ ssrc' \in 0 .. Ssrc /\ running' \in BOOLEAN /\ offset' \in Times
         /\ seq_get' = seq_get /\ played' = played
         /\ PoolConserved' /\ Sorted' /\ OneSource'
<1> DEFINE seq == k % SeqMod
           ts == k % TimeMod
           l == packet_alloc_l
<1>1. /\ packetl \in Seq(Packet) /\ SortedList(packetl)
      /\ \A i \in 1 .. Len(packetl) : packetl[i].ssrc = ssrc
      /\ pooln \in Nat /\ n \in Nat /\ running \in BOOLEAN /\ offset \in Times
      /\ n = Len(packetl) /\ Len(packetl) + pooln = MaxSz
      /\ MaxSz \in Nat \ {0} /\ TimeMod \in Nat \ {0} /\ SeqMod \in Nat \ {0}
      /\ Ssrc \in Nat \ {0} /\ clock \in Nat
  BY JbufAssumption
     DEF IInv, TypeOK, PoolConserved, Sorted, SortedList, OneSource, SeqMod
<1>2. seq \in Seqs /\ ts \in Times
  <2>1. k \in Int
    OBVIOUS
  <2>2. k % SeqMod \in 0 .. SeqMod - 1
    BY <1>1, <2>1, ModRange, Zenon
  <2>3. k % TimeMod \in 0 .. TimeMod - 1
    BY <1>1, <2>1, ModRange, Zenon
  <2> QED BY <2>2, <2>3, Zenon DEF Seqs, Times
<1>3. /\ l \in Seq(Packet) /\ SortedList(l)
      /\ \A i \in 1 .. Len(l) : l[i].ssrc = ssrc
      /\ packet_alloc_n \in Nat /\ packet_alloc_pool \in Nat
      /\ packet_alloc_n = Len(l) + 1
      /\ Len(l) + packet_alloc_pool + 1 = MaxSz
      /\ packetl = <<>> => l = <<>>
  BY AllocList, Zenon
<1>4. ssrc' = s /\ seq_get' = seq_get /\ played' = played
  BY Zenon DEF PutLocked
<1>5. CASE TooLate(seq)
  <2>1. UNCHANGED <<packetl, pooln, n, running, offset>>
    BY <1>5, Zenon DEF PutLocked
  <2> QED BY <1>1, <1>4, <2>1
          DEF PoolConserved, Sorted, SortedList, OneSource
<1>6. CASE ~TooLate(seq)
  <2>1. PICK p \in 0 .. Len(l) :
          /\ Position(l, seq, p)
          /\ IF Duplicate(l, seq, p)
             THEN /\ packetl' = l
                  /\ pooln' = packet_alloc_pool + 1
                  /\ n' = packet_deref_n(packet_alloc_n)
                  /\ UNCHANGED <<running, offset>>
             ELSE LET prev == IF p > 0 THEN <<l[p]>> ELSE <<>>
                      f == [k |-> k, seq |-> seq, ts |-> ts, ssrc |-> s,
                            playout_time |-> calc_playout_time(prev, ts, lat)]
                  IN  /\ running' = TRUE
                      /\ offset' = IF skew = 0 THEN calc_offset(prev, ts) ELSE 0
                      /\ IF skew < 0
                         THEN /\ packetl' = l
                              /\ pooln' = packet_alloc_pool + 1
                              /\ n' = packet_deref_n(packet_alloc_n)
                         ELSE /\ packetl' = list_insert_after(l, p, f)
                              /\ pooln' = packet_alloc_pool
                              /\ n' = packet_alloc_n
    BY <1>6, Zenon DEF PutLocked
  <2> HIDE DEF l, seq, ts
  <2>2. ASSUME packetl' = l, pooln' = packet_alloc_pool + 1,
               n' = packet_deref_n(packet_alloc_n)
        PROVE  /\ packetl' \in Seq(Packet) /\ pooln' \in Nat /\ n' \in Nat
               /\ PoolConserved' /\ Sorted' /\ OneSource'
    <3>1. /\ packetl' \in Seq(Packet) /\ SortedList(packetl')
          /\ pooln' \in Nat /\ n' = Len(packetl')
          /\ Len(packetl') + pooln' = MaxSz
      BY <1>1, <1>3, <2>2 DEF packet_deref_n
    <3>2. \A i \in 1 .. Len(l) : l[i].ssrc = s
      BY <1>3
    <3>3. n' \in Nat /\ PoolConserved'
      BY <3>1 DEF PoolConserved
    <3>4. Sorted'
      BY <3>1, Zenon DEF Sorted, SortedList
    <3>5. OneSource'
      BY <1>4, <2>2, <3>2, Zenon DEF OneSource
    <3> QED BY <3>1, <3>3, <3>4, <3>5, Zenon
  <2>3. CASE Duplicate(l, seq, p)
    BY <1>1, <1>4, <2>1, <2>2, <2>3
  <2>4. CASE ~Duplicate(l, seq, p)
    <3> DEFINE prev == IF p > 0 THEN <<l[p]>> ELSE <<>>
               play == calc_playout_time(prev, ts, lat)
               f == [k |-> k, seq |-> seq, ts |-> ts, ssrc |-> s,
                     playout_time |-> play]
    <3>1. /\ running' = TRUE
          /\ offset' = IF skew = 0 THEN calc_offset(prev, ts) ELSE 0
          /\ \/ /\ packetl' = l
                /\ pooln' = packet_alloc_pool + 1
                /\ n' = packet_deref_n(packet_alloc_n)
             \/ /\ packetl' = list_insert_after(l, p, f)
                /\ pooln' = packet_alloc_pool
                /\ n' = packet_alloc_n
      BY <2>1, <2>4, Zenon
    <3>2. prev # <<>> => Head(prev) \in Packet
      <4>1. p > 0 => l[p] \in Packet
        BY <1>3
      <4> QED BY <4>1
    <3> HIDE DEF prev
    <3>3. calc_offset(prev, ts) \in Times
      <4>1. clock \in Int /\ ts \in Int
        BY <1>1, <1>2 DEF Times
      <4>2. clock % TimeMod \in Int
        BY <1>1, <4>1, ModRange
      <4>3. Now - ts \in Int
        BY <4>1, <4>2 DEF Now
      <4>4. (Now - ts) % TimeMod \in 0 .. TimeMod - 1
        BY <1>1, <4>3, ModRange, Zenon
      <4>5. (Now - ts) % TimeMod \in Times
        BY <4>4, Zenon DEF Times
      <4> QED BY <1>1, <4>5, Zenon DEF calc_offset, offset_min
    <3>4. play \in Times
      <4>1. ts + calc_offset(prev, ts) + lat \in Int
        BY <1>2, <3>3 DEF Times
      <4>2. (ts + calc_offset(prev, ts) + lat) % TimeMod \in Times
        BY <1>1, <4>1, ModRange, Zenon DEF Times
      <4>3. prev # <<>> => Head(prev).playout_time \in Times
        BY <3>2, Zenon DEF Packet
      <4> QED BY <4>2, <4>3, Zenon DEF calc_playout_time
    <3>5. offset' \in Times
      <4>1. 0 \in Times
        BY <1>1 DEF Times
      <4> QED BY <3>1, <3>3, <4>1, Zenon
    <3> HIDE DEF play
    <3>6. f \in Packet /\ f.seq = seq /\ f.ssrc = s
      BY <1>2, <3>4, Zenon DEF Packet
    <3> HIDE DEF f
    <3>7. CASE /\ packetl' = list_insert_after(l, p, f)
               /\ pooln' = packet_alloc_pool
               /\ n' = packet_alloc_n
      <4>1. /\ packetl' \in Seq(Packet) /\ Len(packetl') = Len(l) + 1
            /\ SortedList(packetl')
        BY <1>3, <2>1, <2>4, <3>6, <3>7, InsertSorted, Zenon
      <4>2. \A i \in 1 .. Len(l) : l[i].ssrc = s
        BY <1>3
      <4>3. ASSUME NEW i \in 1 .. Len(l) + 1
            PROVE  packetl'[i].ssrc = s
        <5>1. packetl'[i] = IF i <= p THEN l[i]
                            ELSE IF i = p + 1 THEN f ELSE l[i - 1]
          BY <3>7, Zenon DEF list_insert_after
        <5>2. CASE i <= p
          BY <4>2, <5>1, <5>2
        <5>3. CASE i = p + 1
          BY <3>6, <5>1, <5>3
        <5>4. CASE i > p + 1
          <6>1. packetl'[i] = l[i - 1] /\ i - 1 \in 1 .. Len(l)
            BY <5>1, <5>4
          <6> QED BY <4>2, <6>1, Zenon
        <5> QED BY <5>2, <5>3, <5>4
      <4>4. pooln' \in Nat /\ n' \in Nat /\ PoolConserved'
        BY <1>1, <1>3, <3>7, <4>1 DEF PoolConserved
      <4>5. Sorted'
        BY <4>1, Zenon DEF Sorted, SortedList
      <4>6. OneSource'
        BY <1>4, <4>1, <4>3, Zenon DEF OneSource
      <4> QED BY <1>4, <3>1, <3>5, <4>1, <4>4, <4>5, <4>6
    <3>8. CASE /\ packetl' = l
               /\ pooln' = packet_alloc_pool + 1
               /\ n' = packet_deref_n(packet_alloc_n)
      BY <1>4, <2>2, <3>1, <3>5, <3>8
    <3> QED BY <3>1, <3>7, <3>8, Zenon
  <2> QED BY <2>3, <2>4, Zenon
<1> QED BY <1>5, <1>6, Zenon

\* A flush leaves the pool full.
LEMMA FlushStep ==
  ASSUME IInv, Flush
  PROVE  /\ packetl' = <<>> /\ packetl' \in Seq(Packet)
         /\ pooln' \in Nat /\ n' \in Nat /\ running' \in BOOLEAN
         /\ seq_get' \in Seqs /\ offset' \in Times /\ played' \in Nat \cup {-1}
         /\ PoolConserved' /\ Sorted' /\ OneSource'
<1>1. /\ packetl \in Seq(Packet) /\ pooln \in Nat
      /\ Len(packetl) + pooln = MaxSz
      /\ MaxSz \in Nat /\ 0 \in Seqs /\ 0 \in Times
  BY JbufAssumption DEF IInv, TypeOK, PoolConserved, Seqs, SeqMod, Times
<1>2. /\ packetl' = <<>> /\ pooln' = pooln + Len(packetl) /\ n' = 0
      /\ running' = FALSE /\ seq_get' = 0 /\ offset' = 0 /\ played' = -1
  BY Zenon DEF Flush
<1>3. packetl' \in Seq(Packet) /\ Len(packetl') = 0
  BY <1>2
<1>4. pooln' \in Nat /\ n' \in Nat /\ PoolConserved'
  BY <1>1, <1>2, <1>3 DEF PoolConserved
<1>5. Sorted' /\ OneSource'
  <2>1. 1 .. Len(packetl') - 1 = {} /\ 1 .. Len(packetl') = {}
    BY <1>3
  <2> QED BY <2>1, Zenon DEF Sorted, OneSource
<1> QED BY <1>1, <1>2, <1>3, <1>4, <1>5, Zenon

\* jbuf_get() and jbuf_drain() give the packet back to the pool.
LEMMA TakeStep ==
  ASSUME IInv, TakeHead, packetl # <<>>
  PROVE  IInv'
<1>1. /\ packetl \in Seq(Packet) /\ SortedList(packetl)
      /\ \A i \in 1 .. Len(packetl) : packetl[i].ssrc = ssrc
      /\ pooln \in Nat /\ n \in Nat
      /\ n = Len(packetl) /\ Len(packetl) + pooln = MaxSz
      /\ MaxSz \in Nat
  BY JbufAssumption, Zenon
     DEF IInv, TypeOK, PoolConserved, Sorted, SortedList, OneSource
<1>2. /\ Tail(packetl) \in Seq(Packet) /\ Len(Tail(packetl)) = Len(packetl) - 1
      /\ Len(packetl) > 0 /\ Head(packetl) \in Packet
      /\ SortedList(Tail(packetl))
      /\ \A i \in 1 .. Len(Tail(packetl)) : Tail(packetl)[i].ssrc = ssrc
  BY <1>1, TailList, Zenon
<1>3. /\ seq_get' = Head(packetl).seq /\ played' = Head(packetl).k
      /\ packetl' = Tail(packetl) /\ pooln' = pooln + 1 /\ n' = n - 1
      /\ UNCHANGED <<running, ssrc, offset, pending, clock, newest>>
  BY Zenon DEF TakeHead, packet_deref_n
<1>4. pending = -1
  BY Zenon DEF IInv, PendingEmpty
<1>5. Head(packetl).seq \in Seqs /\ Head(packetl).k \in Nat
  BY <1>2, Zenon DEF Packet
<1>6. PoolConserved' /\ Sorted' /\ OneSource' /\ PendingEmpty'
  <2>1. PoolConserved'
    BY <1>1, <1>2, <1>3 DEF PoolConserved
  <2>2. Sorted'
    BY <1>2, <1>3, Zenon DEF Sorted, SortedList
  <2>3. OneSource' /\ PendingEmpty'
    BY <1>2, <1>3, <1>4, Zenon DEF OneSource, PendingEmpty
  <2> QED BY <2>1, <2>2, <2>3, Zenon
<1>7. pooln' \in Nat /\ n' \in Nat /\ packetl' \in Seq(Packet)
  BY <1>1, <1>2, <1>3
<1>8. seq_get' \in Seqs /\ played' \in Nat \cup {-1}
  BY <1>3, <1>5, Zenon
<1>9. TypeOK'
  BY <1>3, <1>7, <1>8, Zenon DEF IInv, TypeOK
<1> QED BY <1>6, <1>9, Zenon DEF IInv

\* The arguments of a put.
LEMMA Arguments ==
  ASSUME NEW k \in Nat
  PROVE  /\ SourceOf(k) \in 1 .. Ssrc
         /\ MinLat .. MaxLat \subseteq Nat /\ FirstK .. LastK \subseteq Nat
BY JbufAssumption DEF SourceOf

-----------------------------------------------------------------------------
(* Theorems *)

\* The inductive step, one case for each operation of src/jbuf.c.
LEMMA Inductive ==
  ASSUME IInv, [Next]_vars
  PROVE  IInv'
<1>1. CASE jbuf_put
  <2>1. PICK k \in FirstK .. LastK, lat \in MinLat .. MaxLat, skew \in {-1, 0, 1} :
          /\ ~SsrcChanged(SourceOf(k))
          /\ PutLocked(k, SourceOf(k), lat, skew)
          /\ newest' = IF k > newest THEN k ELSE newest
    BY <1>1, Zenon DEF jbuf_put, Latencies, adjust_due_to_skew
  <2>2. pending = -1 /\ pending' = pending /\ clock' = clock
    BY <1>1, Zenon DEF jbuf_put
  <2>3. k \in Nat /\ lat \in Nat /\ SourceOf(k) \in 1 .. Ssrc
    BY JbufAssumption, Arguments, Zenon
  <2>4. SourceOf(k) = ssrc \/ packetl = <<>>
    <3>1. CASE ssrc # 0
      BY <2>1, <3>1, Zenon DEF SsrcChanged
    <3>2. CASE ssrc = 0
      <4>1. packetl \in Seq(Packet) /\ \A i \in 1 .. Len(packetl) : packetl[i].ssrc = 0
        BY <3>2, Zenon DEF IInv, TypeOK, OneSource
      <4>2. packetl # <<>> => packetl[1] \in Packet /\ packetl[1].ssrc = 0
        BY <4>1
      <4>3. \A f \in Packet : f.ssrc \in 1 .. Ssrc
        BY Zenon DEF Packet
      <4>4. 0 \notin 1 .. Ssrc
        BY JbufAssumption
      <4> QED BY <4>2, <4>3, <4>4, Zenon
    <3> QED BY <3>1, <3>2, Zenon
  <2>5. /\ packetl' \in Seq(Packet) /\ pooln' \in Nat /\ n' \in Nat
        /\ ssrc' \in 0 .. Ssrc /\ running' \in BOOLEAN /\ offset' \in Times
        /\ seq_get' = seq_get /\ played' = played
        /\ PoolConserved' /\ Sorted' /\ OneSource'
    BY <2>1, <2>3, <2>4, PutStep, Zenon
  <2>6. newest' \in Nat
    BY <2>1, <2>3, Zenon DEF IInv, TypeOK
  <2> QED BY <2>2, <2>5, <2>6, Zenon DEF IInv, TypeOK, PendingEmpty
<1>2. CASE jbuf_put_flush
  <2>1. PICK k \in FirstK .. LastK :
          pending' = k /\ newest' = IF k > newest THEN k ELSE newest
    BY <1>2, Zenon DEF jbuf_put_flush
  <2>2. Flush /\ ssrc' = ssrc /\ clock' = clock
    BY <1>2, Zenon DEF jbuf_put_flush
  <2>3. pending' \in Nat /\ newest' \in Nat
    BY <2>1, JbufAssumption DEF IInv, TypeOK
  <2> QED BY <2>2, <2>3, FlushStep, Zenon DEF IInv, TypeOK, PendingEmpty
<1>3. CASE jbuf_put_rest
  <2>1. PICK lat \in MinLat .. MaxLat, skew \in {-1, 0, 1} :
          PutLocked(pending, SourceOf(pending), lat, skew)
    BY <1>3, Zenon DEF jbuf_put_rest, Latencies, adjust_due_to_skew
  <2>2. /\ pending # -1 /\ pending' = -1 /\ clock' = clock
        /\ newest' = newest
    BY <1>3, Zenon DEF jbuf_put_rest
  <2>3. pending \in Nat /\ packetl = <<>>
    BY <2>2, Zenon DEF IInv, TypeOK, PendingEmpty
  <2>4. lat \in Nat /\ SourceOf(pending) \in 1 .. Ssrc
    BY <2>3, JbufAssumption, Arguments, Zenon
  <2>5. /\ packetl' \in Seq(Packet) /\ pooln' \in Nat /\ n' \in Nat
        /\ ssrc' \in 0 .. Ssrc /\ running' \in BOOLEAN /\ offset' \in Times
        /\ seq_get' = seq_get /\ played' = played
        /\ PoolConserved' /\ Sorted' /\ OneSource'
    BY <2>1, <2>3, <2>4, PutStep, Zenon
  <2> QED BY <2>2, <2>5, Zenon DEF IInv, TypeOK, PendingEmpty
<1>4. CASE jbuf_get
  BY <1>4, TakeStep, Zenon DEF jbuf_get
<1>5. CASE jbuf_drain
  BY <1>5, TakeStep, Zenon DEF jbuf_drain
<1>6. CASE jbuf_flush
  <2>1. Flush /\ UNCHANGED <<ssrc, pending, clock, newest>>
    BY <1>6, Zenon DEF jbuf_flush
  <2> QED BY <2>1, FlushStep, Zenon DEF IInv, TypeOK, PendingEmpty
<1>7. CASE Tick
  <2>1. clock' = clock + 1 /\ UNCHANGED <<jb, pending, newest, played>>
    BY <1>7, Zenon DEF Tick
  <2> QED BY <2>1 DEF IInv, TypeOK, PoolConserved, Sorted, OneSource,
                      PendingEmpty, jb
<1>8. CASE UNCHANGED vars
  BY <1>8, Zenon DEF IInv, TypeOK, PoolConserved, Sorted, OneSource, PendingEmpty,
              vars, jb
<1> QED BY <1>1, <1>2, <1>3, <1>4, <1>5, <1>6, <1>7, <1>8, Zenon DEF Next

\* The inductive invariant holds for every history of puts, gets, drains and
\* flushes.
THEOREM Invariance == Spec => []IInv
<1>1. Init => IInv
  <2> SUFFICES ASSUME Init PROVE IInv
    BY Zenon
  <2>1. /\ packetl = <<>> /\ packetl \in Seq(Packet) /\ Len(packetl) = 0
        /\ 1 .. Len(packetl) - 1 = {} /\ 1 .. Len(packetl) = {}
    BY DEF Init
  <2>2. MaxSz \in Nat /\ 0 \in Seqs /\ 0 \in Times
    BY JbufAssumption DEF Seqs, SeqMod, Times
  <2>3. TypeOK
    <3>1. /\ pooln = MaxSz /\ n = 0 /\ running = FALSE /\ seq_get = 0
          /\ ssrc = 0 /\ offset = 0 /\ pending = -1 /\ played = -1
          /\ clock = FirstTime /\ newest = FirstK
      BY Zenon DEF Init
    <3>2. /\ pooln \in Nat /\ n \in Nat /\ ssrc \in 0 .. Ssrc
          /\ clock \in Nat /\ newest \in Nat
      BY <2>2, <3>1, JbufAssumption
    <3>3. /\ running \in BOOLEAN /\ seq_get \in Seqs /\ offset \in Times
          /\ pending \in Nat \cup {-1} /\ played \in Nat \cup {-1}
      BY <2>2, <3>1, Zenon
    <3> QED BY <2>1, <3>2, <3>3, Zenon DEF TypeOK
  <2>4. PoolConserved
    <3>1. n = 0 /\ pooln = MaxSz
      BY Zenon DEF Init
    <3>2. n = Len(packetl) /\ Len(packetl) + pooln = MaxSz
      BY <2>1, <2>2, <3>1
    <3> QED BY <3>2, Zenon DEF PoolConserved
  <2>5. Sorted /\ OneSource /\ PendingEmpty
    BY <2>1, Zenon DEF Sorted, OneSource, PendingEmpty
  <2> QED BY <2>3, <2>4, <2>5, Zenon DEF IInv
<1>2. IInv /\ [Next]_vars => IInv'
  BY Inductive, Zenon
<1> QED BY <1>1, <1>2, PTL DEF Spec

\* The fields of struct jbuf keep their widths.
THEOREM TypeCorrect == Spec => []TypeOK
<1>1. IInv => TypeOK
  BY Zenon DEF IInv
<1> QED BY <1>1, Invariance, PTL

\* packet_alloc() and packet_deref() lose no packet, whatever jbuf_put() does
\* with the one it took.
THEOREM PoolNeverLeaks == Spec => []PoolConserved
<1>1. IInv => PoolConserved
  BY Zenon DEF IInv
<1> QED BY <1>1, Invariance, PTL

\* The list is sorted in the circular order of rtp_seq_less(), for every width
\* of the sequence number and every disorder of the network.
THEOREM AlwaysSorted == Spec => []Sorted
<1>1. IInv => Sorted
  BY Zenon DEF IInv
<1> QED BY <1>1, Invariance, PTL

\* The buffer never mixes two sources, although jbuf_put() compares the source
\* and flushes before it takes the lock.
THEOREM NeverMixed == Spec => []OneSource
<1>1. IInv => OneSource
  BY Zenon DEF IInv
<1> QED BY <1>1, Invariance, PTL

-----------------------------------------------------------------------------
(* The order in which packets are played *)

\* The buffer and the decoder are less than half the range of the sequence numbers
\* behind the network: beyond that no receiver can tell an old packet from a new
\* one.
InRange ==
  /\ \A i \in 1 .. Len(packetl) : newest - packetl[i].k < Half
  /\ played # -1 => newest - played < Half

\* The list of packets is in the order of the stream.
Numbered(l) == \A i \in 1 .. Len(l) : l[i].seq = l[i].k % SeqMod
Ascending(l) == \A i, j \in 1 .. Len(l) : i < j => l[i].k < l[j].k
UpTo(l, m) == \A i \in 1 .. Len(l) : l[i].k <= m
After(l, m) == \A i \in 1 .. Len(l) : l[i].k > m

\* What a step keeps while the buffer is in range, given IInv: seq_get stands for
\* the packet that was played last, and a jbuf_put() between its two critical
\* sections finds nothing played.
OrderInv ==
  /\ Numbered(packetl) /\ Ascending(packetl) /\ UpTo(packetl, newest)
  /\ played <= newest /\ pending <= newest
  /\ played = -1 => seq_get = 0
  /\ played # -1 => seq_get = played % SeqMod /\ running
  /\ packetl # <<>> => running
  /\ pending # -1 => played = -1
  /\ NeverBack

\* Division with remainder.
LEMMA DivMod ==
  ASSUME NEW m \in Nat \ {0}, NEW x \in Nat
  PROVE  /\ x \div m \in Int /\ x % m \in Int
         /\ x = m * (x \div m) + (x % m) /\ 0 <= x % m /\ x % m < m
OBVIOUS

\* A multiple of m strictly between -m and 2 m.
LEMMA SmallMultiple ==
  ASSUME NEW m \in Nat \ {0}, NEW d \in Int, -m < m * d, m * d < 2 * m
  PROVE  d = 0 \/ d = 1
<1>1. CASE d >= 2
  <2>1. m * d >= m * 2
    BY <1>1
  <2>2. QED
    BY <2>1
<1>2. CASE d <= -1
  <2>1. m * d <= m * (-1)
    BY <1>2
  <2>2. QED
    BY <2>1
<1>3. QED
  BY <1>1, <1>2

\* Within half the range the order of the sequence numbers is that of the stream.
LEMMA SeqOrder ==
  ASSUME NEW a \in Nat, NEW b \in Nat, a < b, b - a < Half
  PROVE  /\ rtp_seq_less(a % SeqMod, b % SeqMod)
         /\ ~rtp_seq_less(b % SeqMod, a % SeqMod)
         /\ a % SeqMod # b % SeqMod
<1> DEFINE qa == a \div SeqMod
           qb == b \div SeqMod
           ra == a % SeqMod
           rb == b % SeqMod
<1>1. Half \in Nat \ {0} /\ SeqMod \in Nat \ {0} /\ SeqMod = 2 * Half
  BY JbufAssumption DEF SeqMod
<1>2. /\ qa \in Int /\ ra \in Int /\ a = SeqMod * qa + ra /\ 0 <= ra /\ ra < SeqMod
      /\ qb \in Int /\ rb \in Int /\ b = SeqMod * qb + rb /\ 0 <= rb /\ rb < SeqMod
  BY <1>1, DivMod, Zenon
<1> HIDE DEF qa, qb, ra, rb
<1>3. SeqMod * (qb - qa) = (b - a) - (rb - ra)
  BY <1>1, <1>2
<1>4. qb - qa = 0 \/ qb - qa = 1
  <2>1. -SeqMod < SeqMod * (qb - qa) /\ SeqMod * (qb - qa) < 2 * SeqMod
    BY <1>1, <1>2, <1>3
  <2>2. qb - qa \in Int
    BY <1>2
  <2>3. QED
    BY <1>1, <2>1, <2>2, SmallMultiple, Zenon
<1>5. rb - ra = b - a \/ rb - ra = (b - a) - 2 * Half
  <2>1. CASE qb - qa = 0
    BY <1>1, <1>2, <1>3, <2>1
  <2>2. CASE qb - qa = 1
    BY <1>1, <1>2, <1>3, <2>2
  <2>3. QED
    BY <1>4, <2>1, <2>2, Zenon
<1>6. rtp_seq_less(ra, rb) /\ ~rtp_seq_less(rb, ra) /\ ra # rb
  BY <1>1, <1>2, <1>5 DEF rtp_seq_less
<1>7. QED
  BY <1>6, Zenon DEF ra, rb

\* What a comparison of two sequence numbers says of the packets.
LEMMA SeqTells ==
  ASSUME NEW a \in Nat, NEW b \in Nat, a - b < Half, b - a < Half
  PROVE  /\ rtp_seq_less(a % SeqMod, b % SeqMod) => a < b
         /\ ~rtp_seq_less(a % SeqMod, b % SeqMod) => b <= a
         /\ a % SeqMod = b % SeqMod => a = b
         /\ a % SeqMod # b % SeqMod => a # b
<1>1. CASE a < b
  BY <1>1, SeqOrder, Zenon
<1>2. CASE b < a
  BY <1>2, SeqOrder
<1>3. CASE a = b
  <2>1. SeqMod \in Nat \ {0} /\ Half \in Nat \ {0}
    BY JbufAssumption DEF SeqMod
  <2>2. a % SeqMod \in Int
    BY <2>1, DivMod, Zenon
  <2>3. QED
    BY <1>3, <2>1, <2>2 DEF rtp_seq_less
<1>4. QED
  BY <1>1, <1>2, <1>3

\* The distance of a packet k that the network delivers from an earlier one a, where
\* m and mm are the newest packet before and after: less than half the range h.
LEMMA Distance ==
  ASSUME NEW w \in Nat, NEW h \in Nat, NEW k \in Nat, NEW a \in Nat,
         NEW m \in Nat, NEW mm \in Nat,
         w + 1 < h, a <= m, m <= mm, k <= mm, m - k <= w, mm - a < h
  PROVE  /\ k - a < h /\ a - k < h
         /\ k - (a + 1) < h /\ (a + 1) - k < h
OBVIOUS

\* (x + 1) % m of a remainder.
LEMMA NextSeq ==
  ASSUME NEW x \in Nat
  PROVE  ((x % SeqMod) + 1) % SeqMod = (x + 1) % SeqMod
<1> DEFINE q == x \div SeqMod
           r == x % SeqMod
<1>1. SeqMod \in Nat \ {0}
  BY JbufAssumption DEF SeqMod
<1>2. q \in Int /\ r \in Int /\ x = SeqMod * q + r /\ 0 <= r /\ r < SeqMod
  BY <1>1, DivMod, Zenon
<1>3. q \in Nat
  BY <1>1, <1>2
<1> HIDE DEF q, r
<1>4. x + 1 = SeqMod * q + (r + 1)
  BY <1>1, <1>2
<1>5. (SeqMod * q + (r + 1)) % SeqMod = (r + 1) % SeqMod
  BY <1>1, <1>2, <1>3
<1>6. QED
  BY <1>4, <1>5, Zenon DEF r

\* The head leaves an ordered list.
LEMMA TailOrder ==
  ASSUME NEW l \in Seq(Packet), l # <<>>, Numbered(l), Ascending(l)
  PROVE  /\ Numbered(Tail(l)) /\ Ascending(Tail(l)) /\ After(Tail(l), Head(l).k)
         /\ Head(l).k \in Nat /\ Head(l).seq = Head(l).k % SeqMod
         /\ \A m \in Int : UpTo(l, m) => UpTo(Tail(l), m) /\ Head(l).k <= m
         /\ \A m \in Int : After(l, m) => After(Tail(l), m)
<1>1. /\ Len(l) \in Nat /\ Len(l) > 0 /\ Len(Tail(l)) = Len(l) - 1
      /\ Head(l) = l[1] /\ Head(l) \in Packet
      /\ \A i \in 1 .. Len(l) - 1 : Tail(l)[i] = l[i + 1]
  OBVIOUS
<1>2. ASSUME NEW i \in 1 .. Len(Tail(l))
      PROVE  i + 1 \in 1 .. Len(l) /\ 1 < i + 1 /\ Tail(l)[i] = l[i + 1]
  BY <1>1
<1>3. 1 \in 1 .. Len(l)
  BY <1>1
<1>4. Head(l).k \in Nat
  BY <1>1, Zenon DEF Packet
<1>5. Numbered(Tail(l)) /\ Head(l).seq = Head(l).k % SeqMod
  BY <1>1, <1>2, <1>3, Zenon DEF Numbered
<1>6. Ascending(Tail(l))
  <2>1. ASSUME NEW i \in 1 .. Len(Tail(l)), NEW j \in 1 .. Len(Tail(l)), i < j
        PROVE  Tail(l)[i].k < Tail(l)[j].k
    <3>1. i + 1 < j + 1
      BY <1>1, <2>1
    <3>2. QED
      BY <1>2, <3>1, Zenon DEF Ascending
  <2>2. QED
    BY <2>1, Zenon DEF Ascending
<1>7. After(Tail(l), Head(l).k)
  <2>1. ASSUME NEW i \in 1 .. Len(Tail(l))
        PROVE  l[1].k < l[i + 1].k
    BY <1>2, <1>3, Zenon DEF Ascending
  <2>2. ASSUME NEW i \in 1 .. Len(Tail(l))
        PROVE  l[i + 1].k \in Nat
    <3>1. l[i + 1] \in Packet
      BY <1>2
    <3>2. QED
      BY <3>1, Zenon DEF Packet
  <2>3. QED
    BY <1>1, <1>2, <1>4, <2>1, <2>2, Zenon DEF After
<1>8. \A m \in Int : UpTo(l, m) => UpTo(Tail(l), m) /\ Head(l).k <= m
  BY <1>1, <1>2, <1>3, Zenon DEF UpTo
<1>9. \A m \in Int : After(l, m) => After(Tail(l), m)
  BY <1>2, Zenon DEF After
<1>10. QED
  BY <1>4, <1>5, <1>6, <1>7, <1>8, <1>9, Zenon

\* The packets that stay when packet_alloc() has taken one.
LEMMA AllocOrder ==
  ASSUME IInv, OrderInv
  PROVE  /\ Numbered(packet_alloc_l) /\ Ascending(packet_alloc_l)
         /\ UpTo(packet_alloc_l, newest)
         /\ \A m \in Int : After(packetl, m) => After(packet_alloc_l, m)
<1>1. /\ packetl \in Seq(Packet) /\ pooln \in Nat /\ newest \in Int
      /\ Numbered(packetl) /\ Ascending(packetl) /\ UpTo(packetl, newest)
      /\ Len(packetl) + pooln = MaxSz /\ MaxSz \in Nat \ {0}
  BY JbufAssumption DEF IInv, TypeOK, PoolConserved, OrderInv
<1>2. CASE pooln > 0
  BY <1>1, <1>2, Zenon DEF packet_alloc_l
<1>3. CASE ~(pooln > 0)
  <2>1. packetl # <<>> /\ packet_alloc_l = Tail(packetl)
    BY <1>1, <1>3 DEF packet_alloc_l
  <2>2. QED
    BY <1>1, <2>1, TailOrder, Zenon
<1>4. QED
  BY <1>2, <1>3, Zenon

\* The packets of a list and a new one can be told apart.
Near(l, k) == \A i \in 1 .. Len(l) : k - l[i].k < Half /\ l[i].k - k < Half

\* The packet that is inserted is one of the new list.
LEMMA InsertedElement ==
  ASSUME NEW l \in Seq(Packet), NEW p \in 0 .. Len(l), NEW f,
         list_insert_after(l, p, f) \in Seq(Packet)
  PROVE  f \in Packet
<1> DEFINE m == list_insert_after(l, p, f)
<1>1. DOMAIN m = 1 .. Len(l) + 1 /\ p + 1 \in 1 .. Len(l) + 1 /\ m[p + 1] = f
  BY DEF list_insert_after
<1>2. m \in Seq(Packet)
  BY Zenon
<1> HIDE DEF m
<1>3. \A i \in DOMAIN m : m[i] \in Packet
  BY <1>2
<1>4. QED
  BY <1>1, <1>3, Zenon

\* What the list has after an insertion.
LEMMA Inserted ==
  ASSUME NEW l \in Seq(Packet), NEW p \in 0 .. Len(l), NEW f \in Packet
  PROVE  LET m == list_insert_after(l, p, f)
         IN  /\ Len(m) = Len(l) + 1
             /\ \A i \in 1 .. Len(m) :
                  \/ i <= p /\ i \in 1 .. Len(l) /\ m[i] = l[i]
                  \/ i = p + 1 /\ m[i] = f
                  \/ i > p + 1 /\ i - 1 \in 1 .. Len(l) /\ m[i] = l[i - 1]
             /\ \A x \in Int : UpTo(l, x) /\ f.k <= x => UpTo(m, x)
             /\ \A x \in Int : After(l, x) /\ f.k > x => After(m, x)
<1> DEFINE m == list_insert_after(l, p, f)
<1>1. Len(l) \in Nat /\ Len(m) = Len(l) + 1
  <2>1. m \in [1 .. Len(l) + 1 -> Packet]
    <3>1. \A i \in 1 .. Len(l) + 1 :
            (IF i <= p THEN l[i] ELSE IF i = p + 1 THEN f ELSE l[i - 1]) \in Packet
      OBVIOUS
    <3>2. QED
      BY <3>1, Zenon DEF list_insert_after
  <2>2. Len(l) \in Nat
    OBVIOUS
  <2> HIDE DEF m
  <2>3. QED
    BY <2>1, <2>2
<1>2. ASSUME NEW i \in 1 .. Len(m)
      PROVE  \/ i <= p /\ i \in 1 .. Len(l) /\ m[i] = l[i]
             \/ i = p + 1 /\ m[i] = f
             \/ i > p + 1 /\ i - 1 \in 1 .. Len(l) /\ m[i] = l[i - 1]
  <2>1. m[i] = IF i <= p THEN l[i] ELSE IF i = p + 1 THEN f ELSE l[i - 1]
    BY <1>1, Zenon DEF list_insert_after
  <2> HIDE DEF m
  <2>2. QED
    BY <1>1, <2>1
<1> HIDE DEF m
<1>3. \A x \in Int : UpTo(l, x) /\ f.k <= x => UpTo(m, x)
  BY <1>2, Zenon DEF UpTo
<1>4. \A x \in Int : After(l, x) /\ f.k > x => After(m, x)
  BY <1>2, Zenon DEF After
<1>5. QED
  BY <1>1, <1>2, <1>3, <1>4, Zenon DEF m

\* The insertion of jbuf_put() keeps the order of the stream.
LEMMA InsertOrder ==
  ASSUME NEW l \in Seq(Packet), Numbered(l), Ascending(l), NEW p \in 0 .. Len(l),
         NEW f \in Packet, f.seq = f.k % SeqMod, Near(l, f.k),
         Position(l, f.seq, p), ~Duplicate(l, f.seq, p)
  PROVE  LET m == list_insert_after(l, p, f)
         IN  /\ Numbered(m) /\ Ascending(m)
             /\ \A x \in Int : UpTo(l, x) /\ f.k <= x => UpTo(m, x)
             /\ \A x \in Int : After(l, x) /\ f.k > x => After(m, x)
<1> DEFINE m == list_insert_after(l, p, f)
<1>1. /\ Len(l) \in Nat /\ Len(m) = Len(l) + 1
      /\ \A x \in Int : UpTo(l, x) /\ f.k <= x => UpTo(m, x)
      /\ \A x \in Int : After(l, x) /\ f.k > x => After(m, x)
  BY Inserted
<1>2. ASSUME NEW i \in 1 .. Len(m)
      PROVE  \/ i <= p /\ i \in 1 .. Len(l) /\ m[i] = l[i]
             \/ i = p + 1 /\ m[i] = f
             \/ i > p + 1 /\ i - 1 \in 1 .. Len(l) /\ m[i] = l[i - 1]
  BY Inserted, Zenon
<1> HIDE DEF m
<1>3. f.k \in Nat /\ \A i \in 1 .. Len(l) : l[i].k \in Nat
  <2>1. \A g \in Packet : g.k \in Nat
    BY Zenon DEF Packet
  <2>2. \A i \in 1 .. Len(l) : l[i] \in Packet
    OBVIOUS
  <2>3. QED
    BY <2>1, <2>2, Zenon
<1>4. ASSUME NEW i \in 1 .. Len(l)
      PROVE  /\ rtp_seq_less(l[i].seq, f.seq) => l[i].k < f.k
             /\ ~rtp_seq_less(l[i].seq, f.seq) => f.k <= l[i].k
             /\ l[i].seq # f.seq => l[i].k # f.k
  <2>1. l[i].k \in Nat /\ l[i].seq = l[i].k % SeqMod
    BY <1>3, Zenon DEF Numbered
  <2>2. l[i].k - f.k < Half /\ f.k - l[i].k < Half
    BY Zenon DEF Near
  <2>3. QED
    BY <1>3, <2>1, <2>2, SeqTells
<1>5. ASSUME NEW i \in 1 .. Len(l), i <= p
      PROVE  l[i].k < f.k
  <2>1. p \in 1 .. Len(l) /\ p > 0
    BY <1>1, <1>5
  <2>2. rtp_seq_less(l[p].seq, f.seq)
    BY <2>1, Zenon DEF Position, Duplicate
  <2>3. l[p].k < f.k
    BY <1>4, <2>1, <2>2, Zenon
  <2>4. i < p => l[i].k < l[p].k
    BY <2>1, Zenon DEF Ascending
  <2>5. l[i].k \in Nat /\ l[p].k \in Nat
    BY <1>3, <2>1, Zenon
  <2>6. i = p \/ i < p
    BY <1>5, <2>1
  <2>7. QED
    BY <1>3, <2>3, <2>4, <2>5, <2>6
<1>6. ASSUME NEW i \in 1 .. Len(l), i > p
      PROVE  f.k < l[i].k
  <2>1. i \in p + 1 .. Len(l)
    BY <1>1, <1>6
  <2>2. ~rtp_seq_less(l[i].seq, f.seq) /\ l[i].seq # f.seq
    BY <2>1, Zenon DEF Position
  <2>3. f.k <= l[i].k /\ l[i].k # f.k
    BY <1>4, <2>2, Zenon
  <2>4. l[i].k \in Nat
    BY <1>3, Zenon
  <2>5. QED
    BY <1>3, <2>3, <2>4
<1>7. Numbered(m)
  BY <1>2, Zenon DEF Numbered
<1>8. Ascending(m)
  <2>1. ASSUME NEW i \in 1 .. Len(m), NEW j \in 1 .. Len(m), i < j
        PROVE  m[i].k < m[j].k
    <3>0. i \in Int /\ j \in Int /\ p \in Int
      OBVIOUS
    <3>1. CASE i <= p /\ i \in 1 .. Len(l) /\ m[i] = l[i]
      <4>1. CASE j <= p /\ j \in 1 .. Len(l) /\ m[j] = l[j]
        BY <2>1, <3>1, <4>1, Zenon DEF Ascending
      <4>2. CASE j = p + 1 /\ m[j] = f
        BY <1>5, <3>1, <4>2, Zenon
      <4>3. CASE j > p + 1 /\ j - 1 \in 1 .. Len(l) /\ m[j] = l[j - 1]
        <5>1. i < j - 1
          BY <3>0, <3>1, <4>3
        <5>2. QED
          BY <3>1, <4>3, <5>1, Zenon DEF Ascending
      <4>4. QED
        BY <1>2, <4>1, <4>2, <4>3, Zenon
    <3>2. CASE i = p + 1 /\ m[i] = f
      <4>1. j > p + 1
        BY <2>1, <3>0, <3>2, Zenon
      <4>2. j - 1 \in 1 .. Len(l) /\ m[j] = l[j - 1] /\ j - 1 > p
        BY <1>2, <3>0, <4>1
      <4>3. QED
        BY <1>6, <3>2, <4>2, Zenon
    <3>3. CASE i > p + 1 /\ i - 1 \in 1 .. Len(l) /\ m[i] = l[i - 1]
      <4>1. j > p + 1
        BY <2>1, <3>0, <3>3
      <4>2. j - 1 \in 1 .. Len(l) /\ m[j] = l[j - 1] /\ i - 1 < j - 1
        BY <1>2, <2>1, <3>0, <4>1
      <4>3. QED
        BY <3>3, <4>2, Zenon DEF Ascending
    <3>4. QED
      BY <1>2, <3>1, <3>2, <3>3, Zenon
  <2>2. QED
    BY <2>1, Zenon DEF Ascending
<1>9. QED
  BY <1>1, <1>7, <1>8, Zenon DEF m

\* What jbuf_put() does with the list while it holds the lock.
LEMMA PutList ==
  ASSUME NEW k \in Nat, NEW s, NEW lat, NEW skew, PutLocked(k, s, lat, skew),
         ~TooLate(k % SeqMod)
  PROVE  \E p \in 0 .. Len(packet_alloc_l) :
           /\ Position(packet_alloc_l, k % SeqMod, p)
           /\ \/ packetl' = packet_alloc_l /\ (running' = running \/ running' = TRUE)
              \/ /\ running' = TRUE
                 /\ ~Duplicate(packet_alloc_l, k % SeqMod, p)
                 /\ \E t : packetl' = list_insert_after(packet_alloc_l, p,
                        [k |-> k, seq |-> k % SeqMod, ts |-> k % TimeMod,
                         ssrc |-> s, playout_time |-> t])
BY Zenon DEF PutLocked

\* The critical section of jbuf_put() keeps the order: the packet is not more than
\* Window behind the newest one, or it is the first since a flush.
LEMMA PutOrder ==
  ASSUME Window + 1 < Half, IInv, OrderInv, packetl' \in Seq(Packet), InRange',
         newest' \in Nat, newest <= newest',
         NEW k \in Nat, NEW s, NEW lat, NEW skew, PutLocked(k, s, lat, skew),
         k <= newest', (packetl = <<>> /\ played = -1) \/ newest - k <= Window
  PROVE  /\ Numbered(packetl') /\ Ascending(packetl') /\ UpTo(packetl', newest')
         /\ packetl' # <<>> => running'
         /\ running => running'
         /\ NeverBack'
<1> DEFINE l == packet_alloc_l
<1>1. /\ packetl \in Seq(Packet) /\ newest \in Nat /\ Half \in Nat \ {0}
      /\ Window \in Nat /\ SeqMod \in Nat \ {0} /\ running \in BOOLEAN
      /\ played \in Nat \cup {-1} /\ played <= newest
      /\ packetl # <<>> => running
  BY JbufAssumption DEF IInv, TypeOK, OrderInv, SeqMod
<1>2. /\ l \in Seq(Packet) /\ (packetl = <<>> => l = <<>>)
      /\ Numbered(l) /\ Ascending(l) /\ UpTo(l, newest)
      /\ \A x \in Int : After(packetl, x) => After(l, x)
  BY AllocList, AllocOrder, Zenon
<1>3. seq_get' = seq_get /\ played' = played
  BY Zenon DEF PutLocked
<1>4. played % SeqMod # 0 => After(packetl, played)
  BY Zenon DEF OrderInv, NeverBack, After
<1>5. CASE TooLate(k % SeqMod)
  <2>1. packetl' = packetl /\ running' = running
    BY <1>5, Zenon DEF PutLocked
  <2>2. Numbered(packetl) /\ Ascending(packetl) /\ NeverBack
    BY Zenon DEF OrderInv
  <2>3. UpTo(packetl, newest')
    <3>1. UpTo(packetl, newest)
      BY Zenon DEF OrderInv
    <3>2. \A i \in 1 .. Len(packetl) : packetl[i].k \in Nat
      <4>1. \A i \in 1 .. Len(packetl) : packetl[i] \in Packet
        BY <1>1
      <4>2. QED
        BY <4>1, Zenon DEF Packet
    <3>3. QED
      BY <1>1, <3>1, <3>2 DEF UpTo
  <2>4. QED
    BY <1>1, <1>3, <2>1, <2>2, <2>3, Zenon DEF NeverBack
<1>6. CASE ~TooLate(k % SeqMod)
  <2>1. PICK p \in 0 .. Len(l) :
           /\ Position(l, k % SeqMod, p)
           /\ \/ packetl' = l /\ (running' = running \/ running' = TRUE)
              \/ /\ running' = TRUE
                 /\ ~Duplicate(l, k % SeqMod, p)
                 /\ \E t : packetl' = list_insert_after(l, p,
                        [k |-> k, seq |-> k % SeqMod, ts |-> k % TimeMod,
                         ssrc |-> s, playout_time |-> t])
    BY <1>6, PutList, ZenonT(60)
  <2> HIDE DEF l
  <2>2. /\ \A i \in 1 .. Len(l) : l[i].k \in Nat /\ l[i].k <= newest
        /\ UpTo(l, newest')
    <3>1. \A i \in 1 .. Len(l) : l[i] \in Packet
      BY <1>2
    <3>2. \A g \in Packet : g.k \in Nat
      BY Zenon DEF Packet
    <3>3. \A i \in 1 .. Len(l) : l[i].k \in Nat
      BY <3>1, <3>2, Zenon
    <3>4. ASSUME NEW i \in 1 .. Len(l)
          PROVE  l[i].k <= newest /\ l[i].k <= newest'
      <4>1. l[i].k <= newest /\ l[i].k \in Nat
        BY <1>2, <3>3, Zenon DEF UpTo
      <4>2. QED
        BY <1>1, <4>1
    <3>5. QED
      BY <3>3, <3>4, Zenon DEF UpTo
  <2>3. running => running'
    BY <1>1, <2>1, Zenon
  <2>4. packetl' # <<>> => running'
    BY <1>1, <1>2, <2>1
  <2>5. ASSUME played % SeqMod # 0
        PROVE  k > played
    <3>1. CASE played = -1
      BY <3>1
    <3>2. CASE played # -1
      <4>1. played \in Nat /\ seq_get = played % SeqMod /\ running
        BY <1>1, <3>2, Zenon DEF OrderInv
      <4>2. newest - k <= Window
        BY <3>2, Zenon
      <4>3. newest' - played < Half
        BY <1>3, <3>2, Zenon DEF InRange
      <4>4. ~rtp_seq_less(k % SeqMod, (seq_get + 1) % SeqMod)
        BY <1>6, <2>5, <4>1, Zenon DEF TooLate
      <4>5. (seq_get + 1) % SeqMod = (played + 1) % SeqMod
        <5>1. ((played % SeqMod) + 1) % SeqMod = (played + 1) % SeqMod
          BY <4>1, NextSeq, Zenon
        <5>2. QED
          BY <4>1, <5>1, Zenon
      <4>6. played + 1 \in Nat /\ k - (played + 1) < Half /\ (played + 1) - k < Half
        <5>1. played \in Nat /\ played + 1 \in Nat /\ Half \in Nat
          BY <1>1, <4>1
        <5>2. QED
          BY <1>1, <4>2, <4>3, <5>1, Distance, Zenon
      <4>7. ~rtp_seq_less(k % SeqMod, (played + 1) % SeqMod)
        BY <4>4, <4>5, Zenon
      <4>8. played + 1 <= k
        BY <4>6, <4>7, SeqTells, Zenon
      <4>9. QED
        BY <4>1, <4>8
    <3>3. QED
      BY <3>1, <3>2, Zenon
  <2>6. played % SeqMod # 0 => After(l, played)
    BY <1>1, <1>2, <1>4
  <2>7. CASE packetl' = l
    <3>1. NeverBack'
      BY <1>3, <2>6, <2>7, Zenon DEF NeverBack, After
    <3>2. QED
      BY <1>2, <2>2, <2>3, <2>4, <2>7, <3>1, Zenon
  <2>8. CASE /\ ~Duplicate(l, k % SeqMod, p)
             /\ \E t : packetl' = list_insert_after(l, p,
                        [k |-> k, seq |-> k % SeqMod, ts |-> k % TimeMod,
                         ssrc |-> s, playout_time |-> t])
    <3>1. PICK t : packetl' = list_insert_after(l, p,
                        [k |-> k, seq |-> k % SeqMod, ts |-> k % TimeMod,
                         ssrc |-> s, playout_time |-> t])
      BY <2>8, Zenon
    <3> DEFINE f == [k |-> k, seq |-> k % SeqMod, ts |-> k % TimeMod,
                     ssrc |-> s, playout_time |-> t]
    <3>2. packetl' = list_insert_after(l, p, f) /\ f.k = k /\ f.seq = k % SeqMod
      BY <3>1, Zenon
    <3> HIDE DEF f
    <3>3. Len(l) \in Nat /\ Len(packetl') = Len(l) + 1
      <4>1. DOMAIN packetl' = 1 .. Len(l) + 1
        BY <3>2, Zenon DEF list_insert_after
      <4>2. Len(l) \in Nat /\ Len(packetl') \in Nat /\ DOMAIN packetl' = 1 .. Len(packetl')
        BY <1>2
      <4>3. QED
        BY <4>1, <4>2
    <3>4. p + 1 \in 1 .. Len(packetl') /\ packetl'[p + 1] = f
      BY <3>2, <3>3 DEF list_insert_after
    <3>5. f \in Packet
      BY <3>4
    <3>6. ASSUME NEW i \in 1 .. Len(l)
          PROVE  newest' - l[i].k < Half
      <4>1. CASE i <= p
        <5>1. i \in 1 .. Len(packetl') /\ packetl'[i] = l[i]
          BY <3>2, <3>3, <4>1 DEF list_insert_after
        <5>2. QED
          BY <5>1, Zenon DEF InRange
      <4>2. CASE i > p
        <5>1. i + 1 \in 1 .. Len(l) + 1 /\ ~(i + 1 <= p) /\ i + 1 # p + 1 /\ (i + 1) - 1 = i
          BY <3>3, <4>2
        <5>2. i + 1 \in 1 .. Len(packetl') /\ packetl'[i + 1] = l[i]
          BY <3>2, <3>3, <5>1, Zenon DEF list_insert_after
        <5>3. QED
          BY <5>2, Zenon DEF InRange
      <4>3. QED
        BY <4>1, <4>2
    <3>7. Near(l, k)
      <4>1. ASSUME NEW i \in 1 .. Len(l)
            PROVE  k - l[i].k < Half /\ l[i].k - k < Half
        <5>1. l[i].k \in Nat /\ l[i].k <= newest /\ newest' - l[i].k < Half
          BY <2>2, <3>6, Zenon
        <5>2. newest - k <= Window
          BY <1>2
        <5>3. Half \in Nat
          BY <1>1, Zenon
        <5>4. QED
          BY <1>1, <5>1, <5>2, <5>3, Distance, Zenon
      <4>2. QED
        BY <4>1, Zenon DEF Near
    <3>8. /\ Numbered(packetl') /\ Ascending(packetl')
          /\ \A x \in Int : UpTo(l, x) /\ k <= x => UpTo(packetl', x)
          /\ \A x \in Int : After(l, x) /\ k > x => After(packetl', x)
      BY <1>2, <2>1, <2>8, <3>2, <3>5, <3>7, InsertOrder, ZenonT(30)
    <3>9. UpTo(packetl', newest')
      BY <2>2, <3>8
    <3>10. NeverBack'
      <4>1. played \in Int
        BY <1>1
      <4>2. played % SeqMod # 0 => After(packetl', played)
        BY <2>5, <2>6, <3>8, <4>1, Zenon
      <4>3. QED
        BY <1>3, <4>2, Zenon DEF NeverBack, After
    <3>11. QED
      BY <2>3, <2>4, <3>8, <3>9, <3>10, Zenon
  <2>9. QED
    BY <2>1, <2>7, <2>8, ZenonT(60)
<1>7. QED
  BY <1>5, <1>6, Zenon

\* What a flush leaves.
LEMMA FlushOrder ==
  ASSUME IInv, Flush, newest' \in Nat, pending' <= newest'
  PROVE  OrderInv'
<1>1. packetl' = <<>> /\ seq_get' = 0 /\ played' = -1
  BY Zenon DEF Flush
<1>2. Len(packetl') = 0 /\ 1 .. Len(packetl') = {}
  BY <1>1
<1>3. /\ Numbered(packetl') /\ Ascending(packetl') /\ UpTo(packetl', newest')
      /\ NeverBack'
  BY <1>2, Zenon DEF Numbered, Ascending, UpTo, NeverBack
<1>4. played' <= newest'
  BY <1>1
<1>5. QED
  BY <1>1, <1>3, <1>4, Zenon DEF OrderInv

\* The head is played.
LEMMA TakeOrder ==
  ASSUME IInv, OrderInv, TakeHead, packetl # <<>>
  PROVE  OrderInv'
<1>1. /\ packetl \in Seq(Packet) /\ newest \in Nat /\ pending = -1
      /\ Numbered(packetl) /\ Ascending(packetl) /\ UpTo(packetl, newest) /\ running
      /\ pending <= newest
  BY Zenon DEF IInv, TypeOK, PendingEmpty, OrderInv
<1>2. /\ seq_get' = Head(packetl).seq /\ played' = Head(packetl).k
      /\ packetl' = Tail(packetl)
      /\ running' = running /\ pending' = pending /\ newest' = newest
  BY Zenon DEF TakeHead
<1>3. /\ Numbered(packetl') /\ Ascending(packetl') /\ After(packetl', played')
      /\ played' \in Nat /\ seq_get' = played' % SeqMod
      /\ UpTo(packetl', newest') /\ played' <= newest'
  <2>1. newest \in Int
    BY <1>1
  <2>2. QED
    BY <1>1, <1>2, <2>1, TailOrder, Zenon
<1>4. NeverBack'
  BY <1>3, Zenon DEF NeverBack, After
<1>5. played' # -1
  BY <1>3
<1>6. QED
  BY <1>1, <1>2, <1>3, <1>4, <1>5, Zenon DEF OrderInv

\* One step from a buffer in range to one in range.
LEMMA OrderStep ==
  ASSUME Window + 1 < Half, IInv, IInv', InRange', OrderInv, [Next]_vars
  PROVE  OrderInv'
<1>1. /\ newest \in Nat /\ newest' \in Nat /\ packetl' \in Seq(Packet)
      /\ pending \in Nat \cup {-1} /\ played \in Nat \cup {-1}
      /\ FirstK \in Nat /\ LastK \in Nat /\ Window \in Nat
  BY JbufAssumption, Zenon DEF IInv, TypeOK
<1>2. CASE jbuf_put
  <2>1. PICK k \in FirstK .. LastK, lat \in Latencies, skew \in adjust_due_to_skew :
          /\ Deliverable(k)
          /\ PutLocked(k, SourceOf(k), lat, skew)
          /\ newest' = IF k > newest THEN k ELSE newest
    BY <1>2, Zenon DEF jbuf_put
  <2>2. pending = -1 /\ pending' = -1
    BY <1>2, Zenon DEF jbuf_put
  <2>3. k \in Nat /\ k <= newest' /\ newest <= newest' /\ newest - k <= Window
    BY <1>1, <2>1 DEF Deliverable
  <2>4. /\ Numbered(packetl') /\ Ascending(packetl') /\ UpTo(packetl', newest')
        /\ packetl' # <<>> => running'
        /\ running => running'
        /\ NeverBack'
    BY <1>1, <2>1, <2>3, PutOrder, Zenon
  <2>5. seq_get' = seq_get /\ played' = played
    BY <2>1, Zenon DEF PutLocked
  <2>6. played' <= newest' /\ pending' <= newest'
    <3>1. played <= newest
      BY Zenon DEF OrderInv
    <3>2. QED
      BY <1>1, <2>2, <2>3, <2>5, <3>1
  <2>7. QED
    BY <2>2, <2>4, <2>5, <2>6, Zenon DEF OrderInv
<1>3. CASE jbuf_put_flush
  <2>1. PICK k \in FirstK .. LastK :
          pending' = k /\ newest' = IF k > newest THEN k ELSE newest
    BY <1>3, Zenon DEF jbuf_put_flush
  <2>2. Flush
    BY <1>3, Zenon DEF jbuf_put_flush
  <2>3. pending' <= newest'
    BY <1>1, <2>1
  <2>4. QED
    BY <1>1, <2>2, <2>3, FlushOrder, Zenon
<1>4. CASE jbuf_put_rest
  <2>1. PICK lat \in Latencies, skew \in adjust_due_to_skew :
          PutLocked(pending, SourceOf(pending), lat, skew)
    BY <1>4, Zenon DEF jbuf_put_rest
  <2>2. pending # -1 /\ pending' = -1 /\ newest' = newest
    BY <1>4, Zenon DEF jbuf_put_rest
  <2>3. pending \in Nat /\ packetl = <<>> /\ played = -1 /\ pending <= newest'
    BY <1>1, <2>2, Zenon DEF IInv, PendingEmpty, OrderInv
  <2>4. newest <= newest'
    BY <1>1, <2>2
  <2>5. /\ Numbered(packetl') /\ Ascending(packetl') /\ UpTo(packetl', newest')
        /\ packetl' # <<>> => running'
        /\ NeverBack'
    BY <1>1, <2>1, <2>3, <2>4, PutOrder, Zenon
  <2>6. seq_get' = seq_get /\ played' = played
    BY <2>1, Zenon DEF PutLocked
  <2>7. played' <= newest' /\ pending' <= newest' /\ played' = -1
    BY <1>1, <2>2, <2>3, <2>6
  <2>8. seq_get' = 0
    BY <2>3, <2>6, Zenon DEF OrderInv
  <2>9. QED
    BY <2>2, <2>5, <2>7, <2>8, Zenon DEF OrderInv
<1>5. CASE jbuf_get
  BY <1>5, TakeOrder, Zenon DEF jbuf_get
<1>6. CASE jbuf_drain
  BY <1>6, TakeOrder, Zenon DEF jbuf_drain
<1>7. CASE jbuf_flush
  <2>1. Flush /\ pending' = pending /\ newest' = newest
    BY <1>7, Zenon DEF jbuf_flush
  <2>2. pending' <= newest'
    BY <2>1, Zenon DEF OrderInv
  <2>3. QED
    BY <1>1, <2>1, <2>2, FlushOrder, Zenon
<1>8. CASE Tick
  <2>1. UNCHANGED <<packetl, running, seq_get, pending, newest, played>>
    BY <1>8, Zenon DEF Tick, jb
  <2>2. QED
    BY <2>1, Zenon DEF OrderInv, Numbered, Ascending, UpTo, NeverBack
<1>9. CASE UNCHANGED vars
  <2>1. UNCHANGED <<packetl, running, seq_get, pending, newest, played>>
    BY <1>9, Zenon DEF vars, jb
  <2>2. QED
    BY <2>1, Zenon DEF OrderInv, Numbered, Ascending, UpTo, NeverBack
<1>10. QED
  BY <1>2, <1>3, <1>4, <1>5, <1>6, <1>7, <1>8, <1>9, Zenon DEF Next

\* Before the first packet.
LEMMA OrderInit ==
  ASSUME Init
  PROVE  OrderInv
<1>1. /\ packetl = <<>> /\ seq_get = 0 /\ played = -1 /\ pending = -1
      /\ newest = FirstK /\ FirstK \in Nat
  BY JbufAssumption, Zenon DEF Init
<1>2. 1 .. Len(packetl) = {}
  BY <1>1
<1>3. Numbered(packetl) /\ Ascending(packetl) /\ UpTo(packetl, newest) /\ NeverBack
  BY <1>2, Zenon DEF Numbered, Ascending, UpTo, NeverBack
<1>4. QED
  BY <1>1, <1>3 DEF OrderInv

\* In range the order of the list makes its sequence numbers distinct.
LEMMA OrderDistinct ==
  ASSUME IInv, InRange, OrderInv
  PROVE  PlayedInOrder
<1>1. ASSUME NEW i \in 1 .. Len(packetl), NEW j \in 1 .. Len(packetl), i < j
      PROVE  packetl[i].seq # packetl[j].seq
  <2>1. \A f \in Packet : f.k \in Nat
    BY Zenon DEF Packet
  <2>2. packetl \in Seq(Packet) /\ newest \in Nat
    BY Zenon DEF IInv, TypeOK
  <2>3. packetl[i].k \in Nat /\ packetl[j].k \in Nat
    BY <2>1, <2>2
  <2>4. /\ packetl[i].k < packetl[j].k /\ packetl[j].k <= newest
        /\ packetl[i].seq = packetl[i].k % SeqMod
        /\ packetl[j].seq = packetl[j].k % SeqMod
    BY <1>1, Zenon DEF OrderInv, Ascending, UpTo, Numbered
  <2>5. newest - packetl[i].k < Half
    BY Zenon DEF InRange
  <2>6. Half \in Nat
    BY JbufAssumption, Zenon
  <2>7. packetl[j].k - packetl[i].k < Half
    BY <2>2, <2>3, <2>4, <2>5, <2>6
  <2>8. QED
    BY <2>3, <2>4, <2>7, SeqOrder
<1>2. Distinct
  <2>1. ASSUME NEW i \in 1 .. Len(packetl), NEW j \in 1 .. Len(packetl),
               packetl[i].seq = packetl[j].seq
        PROVE  i = j
    <3>1. i < j \/ j < i \/ i = j
      OBVIOUS
    <3>2. QED
      BY <1>1, <2>1, <3>1, Zenon
  <2>2. QED
    BY <2>1, Zenon DEF Distinct
<1>3. QED
  BY <1>2, Zenon DEF OrderInv, PlayedInOrder

\* As long as the buffer is in range the decoder is handed packets in the order of
\* the stream and none twice, for every width of the sequence numbers, every size
\* of the buffer and every disorder of less than half the range (jbuf_put: "Packet
\* arrived too late by sequence to be put into buffer").
THEOREM InOrderInRange ==
  ASSUME Window + 1 < Half
  PROVE  Spec /\ []InRange => []PlayedInOrder
<1>1. Init => OrderInv
  BY OrderInit, Zenon
<1>2. IInv /\ IInv' /\ InRange' /\ OrderInv /\ [Next]_vars => OrderInv'
  BY OrderStep, Zenon
<1>3. IInv /\ InRange /\ OrderInv => PlayedInOrder
  BY OrderDistinct, Zenon
<1>4. QED
  BY <1>1, <1>2, <1>3, Invariance, PTL DEF Spec

\* Everything in the buffer is of the stream.
OfStream ==
  /\ newest = FirstK \/ newest <= LastK
  /\ After(packetl, FirstK - 1)
  /\ pending # -1 => pending >= FirstK
  /\ played # -1 => played >= FirstK

\* A put brings only its own packet.
LEMMA PutOfStream ==
  ASSUME IInv, OfStream, packetl' \in Seq(Packet), NEW k \in Nat, k >= FirstK,
         NEW s, NEW lat, NEW skew, PutLocked(k, s, lat, skew)
  PROVE  After(packetl', FirstK - 1) /\ played' = played
<1> DEFINE l == packet_alloc_l
<1>1. packetl \in Seq(Packet) /\ FirstK \in Nat /\ After(packetl, FirstK - 1)
  BY JbufAssumption, Zenon DEF IInv, TypeOK, OfStream
<1>2. l \in Seq(Packet)
  BY AllocList, Zenon
<1>3. After(l, FirstK - 1)
  <2>1. CASE l = packetl
    BY <1>1, <2>1, Zenon
  <2>2. CASE l # packetl
    <3>1. l = Tail(packetl) /\ ~(pooln > 0)
      BY <2>2, Zenon DEF packet_alloc_l
    <3>2. packetl # <<>>
      BY <1>1, <3>1, JbufAssumption DEF IInv, TypeOK, PoolConserved
    <3>3. \A i \in 1 .. Len(Tail(packetl)) :
             i + 1 \in 1 .. Len(packetl) /\ Tail(packetl)[i] = packetl[i + 1]
      BY <1>1, <3>2
    <3>4. QED
      BY <1>1, <3>1, <3>3, Zenon DEF After
  <2>3. QED
    BY <2>1, <2>2, Zenon
<1>4. played' = played
  BY Zenon DEF PutLocked
<1>5. CASE TooLate(k % SeqMod)
  BY <1>1, <1>4, <1>5, Zenon DEF PutLocked
<1>6. CASE ~TooLate(k % SeqMod)
  <2>1. PICK p \in 0 .. Len(l) :
           \/ packetl' = l
           \/ \E t : packetl' = list_insert_after(l, p,
                        [k |-> k, seq |-> k % SeqMod, ts |-> k % TimeMod,
                         ssrc |-> s, playout_time |-> t])
    BY <1>6, PutList, ZenonT(60)
  <2> HIDE DEF l
  <2>2. CASE packetl' = l
    BY <1>3, <1>4, <2>2, Zenon
  <2>3. CASE \E t : packetl' = list_insert_after(l, p,
                        [k |-> k, seq |-> k % SeqMod, ts |-> k % TimeMod,
                         ssrc |-> s, playout_time |-> t])
    <3>1. PICK t : packetl' = list_insert_after(l, p,
                        [k |-> k, seq |-> k % SeqMod, ts |-> k % TimeMod,
                         ssrc |-> s, playout_time |-> t])
      BY <2>3, Zenon
    <3> DEFINE f == [k |-> k, seq |-> k % SeqMod, ts |-> k % TimeMod,
                     ssrc |-> s, playout_time |-> t]
    <3>2. packetl' = list_insert_after(l, p, f) /\ f.k = k
      BY <3>1, Zenon
    <3> HIDE DEF f
    <3>3. f \in Packet
      BY <1>2, <3>2, InsertedElement, Zenon
    <3>4. FirstK - 1 \in Int /\ f.k > FirstK - 1
      BY <1>1, <3>2
    <3>5. QED
      BY <1>2, <1>3, <1>4, <3>2, <3>3, <3>4, Inserted, Zenon
  <2>4. QED
    BY <2>1, <2>2, <2>3, ZenonT(60)
<1>7. QED
  BY <1>5, <1>6, Zenon

\* No step brings a packet from outside the stream, or one beyond its end.
LEMMA StreamStep ==
  ASSUME IInv, IInv', OfStream, [Next]_vars
  PROVE  OfStream'
<1>1. /\ newest \in Nat /\ packetl \in Seq(Packet) /\ packetl' \in Seq(Packet)
      /\ FirstK \in Nat /\ LastK \in Nat /\ pending \in Nat \cup {-1}
      /\ After(packetl, FirstK - 1)
  BY JbufAssumption, Zenon DEF IInv, TypeOK, OfStream
<1>2. CASE jbuf_put
  <2>1. PICK k \in FirstK .. LastK, lat \in Latencies, skew \in adjust_due_to_skew :
          /\ PutLocked(k, SourceOf(k), lat, skew)
          /\ newest' = IF k > newest THEN k ELSE newest
    BY <1>2, Zenon DEF jbuf_put
  <2>2. k \in Nat /\ k >= FirstK /\ k <= LastK
    BY <1>1
  <2>3. After(packetl', FirstK - 1) /\ played' = played
    BY <1>1, <2>1, <2>2, PutOfStream, Zenon
  <2>4. pending' = pending
    BY <1>2, Zenon DEF jbuf_put
  <2>5. newest' = FirstK \/ newest' <= LastK
    BY <2>1, <2>2, Zenon DEF OfStream
  <2>6. QED
    BY <2>3, <2>4, <2>5, Zenon DEF OfStream
<1>3. CASE jbuf_put_flush
  <2>1. PICK k \in FirstK .. LastK :
          pending' = k /\ newest' = IF k > newest THEN k ELSE newest
    BY <1>3, Zenon DEF jbuf_put_flush
  <2>2. packetl' = <<>> /\ played' = -1
    BY <1>3, Zenon DEF jbuf_put_flush, Flush
  <2>3. k >= FirstK /\ k <= LastK
    BY <1>1
  <2>4. After(packetl', FirstK - 1)
    BY <2>2 DEF After
  <2>5. newest' = FirstK \/ newest' <= LastK
    BY <2>1, <2>3, Zenon DEF OfStream
  <2>6. QED
    BY <2>1, <2>2, <2>3, <2>4, <2>5, Zenon DEF OfStream
<1>4. CASE jbuf_put_rest
  <2>1. PICK lat \in Latencies, skew \in adjust_due_to_skew :
          PutLocked(pending, SourceOf(pending), lat, skew)
    BY <1>4, Zenon DEF jbuf_put_rest
  <2>2. pending # -1 /\ pending' = -1 /\ newest' = newest
    BY <1>4, Zenon DEF jbuf_put_rest
  <2>3. pending \in Nat /\ pending >= FirstK
    BY <1>1, <2>2, Zenon DEF OfStream
  <2>4. After(packetl', FirstK - 1) /\ played' = played
    BY <1>1, <2>1, <2>3, PutOfStream, Zenon
  <2>5. QED
    BY <2>2, <2>4, Zenon DEF OfStream
<1>5. CASE packetl # <<>> /\ TakeHead
  <2>1. /\ played' = Head(packetl).k /\ packetl' = Tail(packetl)
        /\ pending' = pending /\ newest' = newest
    BY <1>5, Zenon DEF TakeHead
  <2>2. /\ \A i \in 1 .. Len(Tail(packetl)) :
             i + 1 \in 1 .. Len(packetl) /\ Tail(packetl)[i] = packetl[i + 1]
        /\ 1 \in 1 .. Len(packetl) /\ Head(packetl) = packetl[1]
        /\ packetl[1] \in Packet
    BY <1>1, <1>5
  <2>3. After(packetl', FirstK - 1)
    BY <1>1, <2>1, <2>2, Zenon DEF After
  <2>4. packetl[1].k > FirstK - 1
    BY <1>1, <2>2, Zenon DEF After
  <2>5. packetl[1].k \in Nat
    BY <2>2, Zenon DEF Packet
  <2>6. played' >= FirstK
    BY <1>1, <2>1, <2>2, <2>4, <2>5
  <2>7. QED
    BY <2>1, <2>3, <2>6, Zenon DEF OfStream
<1>6. CASE jbuf_get
  BY <1>5, <1>6, Zenon DEF jbuf_get
<1>7. CASE jbuf_drain
  BY <1>5, <1>7, Zenon DEF jbuf_drain
<1>8. CASE jbuf_flush
  <2>1. packetl' = <<>> /\ played' = -1 /\ pending' = pending /\ newest' = newest
    BY <1>8, Zenon DEF jbuf_flush, Flush
  <2>2. After(packetl', FirstK - 1)
    BY <2>1 DEF After
  <2>3. QED
    BY <2>1, <2>2, Zenon DEF OfStream
<1>9. CASE UNCHANGED <<packetl, pending, newest, played>>
  BY <1>9, Zenon DEF OfStream, After
<1>10. QED
  BY <1>2, <1>3, <1>4, <1>6, <1>7, <1>8, <1>9, Zenon DEF Next, Tick, vars, jb

\* In the beginning there is nothing in the buffer.
LEMMA StreamInit ==
  ASSUME Init
  PROVE  OfStream
<1>1. packetl = <<>> /\ played = -1 /\ pending = -1 /\ newest = FirstK
  BY Zenon DEF Init
<1>2. 1 .. Len(packetl) = {}
  BY <1>1
<1>3. QED
  BY <1>1, <1>2, Zenon DEF OfStream, After

\* A short stream is in range.
LEMMA StreamInRange ==
  ASSUME LastK - FirstK < Half, IInv, OfStream
  PROVE  InRange
<1>1. /\ newest \in Nat /\ played \in Nat \cup {-1} /\ packetl \in Seq(Packet)
      /\ FirstK \in Nat /\ LastK \in Nat /\ Half \in Nat \ {0}
  BY JbufAssumption, Zenon DEF IInv, TypeOK
<1>2. newest - FirstK < Half
  BY <1>1 DEF OfStream
<1>3. ASSUME NEW i \in 1 .. Len(packetl)
      PROVE  newest - packetl[i].k < Half
  <2>1. packetl[i] \in Packet
    BY <1>1
  <2>2. packetl[i].k \in Nat
    BY <2>1, Zenon DEF Packet
  <2>3. packetl[i].k > FirstK - 1
    BY Zenon DEF OfStream, After
  <2>4. QED
    BY <1>1, <1>2, <2>2, <2>3
<1>4. played # -1 => newest - played < Half
  BY <1>1, <1>2 DEF OfStream
<1>5. QED
  BY <1>3, <1>4, Zenon DEF InRange

\* A stream of less than half the range of the sequence numbers is played in order
\* and nothing of it twice, whatever the network and the threads do.
THEOREM InOrder ==
  ASSUME Window + 1 < Half, LastK - FirstK < Half
  PROVE  Spec => []PlayedInOrder
<1>1. Init => OfStream
  BY StreamInit, Zenon
<1>2. IInv /\ IInv' /\ OfStream /\ [Next]_vars => OfStream'
  BY StreamStep, Zenon
<1>3. IInv /\ OfStream => InRange
  BY StreamInRange, Zenon
<1>4. Spec /\ []InRange => []PlayedInOrder
  BY InOrderInRange, Zenon
<1>5. QED
  BY <1>1, <1>2, <1>3, <1>4, Invariance, PTL DEF Spec
=============================================================================
