-------------------------------- MODULE Jbuf --------------------------------
(***************************************************************************)
(* The jitter buffer of src/jbuf.c.  The receive thread puts RTP packets,  *)
(* in the order the network delivers them; the decoder gets or drains      *)
(* them, in the order of their sequence numbers; both, and the main        *)
(* thread, may flush.  Every function holds jb->lock, so that each is one  *)
(* step, except that jbuf_put() looks at jb->ssrc, and flushes, before it  *)
(* takes the lock.                                                         *)
(*                                                                         *)
(* Sequence numbers and times keep their width: SeqMod stands for 2^16 and *)
(* TimeMod for 2^32.  `k` is the position of a packet in the peer's stream *)
(* and takes no part in the code.                                          *)
(***************************************************************************)
EXTENDS Integers, Sequences

CONSTANTS
  MaxSz,        \* jb->maxsz
  Half,         \* half the range of a sequence number
  TimeMod,      \* the range of a playout time
  MinLat,       \* jb->mind and jb->maxd in units of the RTP clock
  MaxLat,
  Ssrc,         \* the synchronisation sources of the peer, in their order
  FirstK,       \* the first packet of the stream
  FirstTime,    \* the clock when it arrives
  Window,       \* how far the network reorders
  LastK,        \* bound: packets of the stream
  LastTime      \* bound: ticks of the clock

ASSUME JbufAssumption ==
  /\ MaxSz \in Nat \ {0} /\ Half \in Nat \ {0} /\ TimeMod \in Nat \ {0}
  /\ MinLat \in Nat /\ MaxLat \in Nat /\ MinLat <= MaxLat
  /\ Ssrc \in Nat \ {0} /\ Window \in Nat
  /\ FirstK \in Nat /\ LastK \in Nat /\ FirstTime \in Nat /\ LastTime \in Nat

VARIABLES
  packetl,      \* buffered packets, as the list has them
  pooln,        \* how many packets the pool holds
  n, running, seq_get, ssrc, offset,
  pending,      \* the packet whose jbuf_put() has flushed and not yet taken
                \* the lock, or -1
  clock,        \* ticks of the RTP clock
  newest,       \* the newest packet the network has delivered
  played        \* the last packet handed out since the flush, or -1

jb == <<packetl, pooln, n, running, seq_get, ssrc, offset>>
vars == <<jb, pending, clock, newest, played>>

SeqMod == 2 * Half
Seqs == 0 .. SeqMod - 1
Times == 0 .. TimeMod - 1
Now == clock % TimeMod

\* struct packet with its RTP header.
Packet == [k : Nat, seq : Seqs, ts : Times, ssrc : 1..Ssrc, playout_time : Times]

\* (int16_t)(x - y) < 0
rtp_seq_less(x, y) ==
  \/ x - y < 0 /\ x - y >= -Half
  \/ x - y >= Half

\* (int32_t)(x - y) < 0
TimeLess(x, y) == 2 * ((x - y) % TimeMod) >= TimeMod

-----------------------------------------------------------------------------
Init ==
  /\ packetl = <<>> /\ pooln = MaxSz /\ n = 0
  /\ running = FALSE /\ seq_get = 0 /\ ssrc = 0 /\ offset = 0
  /\ pending = -1 /\ clock = FirstTime /\ newest = FirstK /\ played = -1

\* Mutant: --jb->n is forgotten.
packet_deref_n_kept(m) == m

\* packet_deref(): the number of packets after one goes back to the pool.
packet_deref_n(m) == m - 1

\* packet_alloc(): a packet of the pool or, when it is empty, the oldest one of
\* the buffer.
packet_alloc_l == IF pooln > 0 THEN packetl ELSE Tail(packetl)
packet_alloc_pool == IF pooln > 0 THEN pooln - 1 ELSE pooln
packet_alloc_n == IF pooln > 0 THEN n + 1 ELSE n

\* Mutant: no search, the packet goes to the tail.
Position_tail(l, seq, p) == p = Len(l)

\* The search of jbuf_put() from the tail for the packet to insert after.
Position(l, seq, p) ==
  /\ p > 0 => rtp_seq_less(l[p].seq, seq) \/ l[p].seq = seq
  /\ \A i \in p + 1 .. Len(l) :
       ~rtp_seq_less(l[i].seq, seq) /\ l[i].seq # seq

list_insert_after(l, p, f) ==
  [i \in 1 .. Len(l) + 1 |->
     IF i <= p THEN l[i] ELSE IF i = p + 1 THEN f ELSE l[i - 1]]

Duplicate(l, seq, p) == p > 0 /\ l[p].seq = seq

offset_min(a, b) == IF TimeLess(a, b) THEN a ELSE b

\* calc_playout_time(): what becomes of p.offset ...
calc_offset(prev, ts) ==
  LET off == (Now - ts) % TimeMod
  IN  IF prev # <<>> /\ Head(prev).ts = ts THEN offset
      ELSE IF offset = 0 THEN off ELSE offset_min(offset, off)

\* ... and the playout time, with a latency within the limits.
calc_playout_time(prev, ts, lat) ==
  IF prev # <<>> /\ Head(prev).ts = ts THEN Head(prev).playout_time
  ELSE (ts + calc_offset(prev, ts) + lat) % TimeMod

\* adjust_due_to_jitter() and the limits: the jitter of an adaptive buffer, the
\* minimum in a fixed one.
Latencies == MinLat .. MaxLat

\* adjust_due_to_skew(): the drift of the clocks, which the packets do not show.
adjust_due_to_skew == {-1, 0, 1}

\* Mutant: the sequence number is not compared with the last one played.
TooLate_never(seq) == FALSE

\* A packet that comes after a later one was played; 0 stands for none.
TooLate(seq) ==
  running /\ seq_get # 0 /\ rtp_seq_less(seq, (seq_get + 1) % SeqMod)

Flush ==
  /\ packetl' = <<>> /\ pooln' = pooln + Len(packetl) /\ n' = 0
  /\ running' = FALSE /\ seq_get' = 0 /\ offset' = 0
  /\ played' = -1

\* jbuf_put() with the lock, for the packet k of the source s.  `skew` is the
\* result of adjust_due_to_skew(): a negative one drops the packet.
PutLocked(k, s, lat, skew) ==
  LET seq == k % SeqMod
      ts == k % TimeMod
      l == packet_alloc_l
  IN
  /\ ssrc' = s
  /\ UNCHANGED <<seq_get, played>>
  /\ IF TooLate(seq) THEN UNCHANGED <<packetl, pooln, n, running, offset>>
     ELSE
     \E p \in 0 .. Len(l) :
       /\ Position(l, seq, p)
       /\ IF Duplicate(l, seq, p)
          THEN /\ packetl' = l
               /\ pooln' = packet_alloc_pool + 1
               /\ n' = packet_deref_n(packet_alloc_n)
               /\ UNCHANGED <<running, offset>>
          ELSE LET prev == IF p > 0 THEN <<l[p]>> ELSE <<>>
                   f == [k |-> k, seq |-> seq, ts |-> ts, ssrc |-> s,
                         playout_time |-> calc_playout_time(prev, ts, lat)]
               IN  /\ running' = TRUE
                   /\ offset' = IF skew = 0 THEN calc_offset(prev, ts) ELSE 0
                   /\ IF skew < 0
                      THEN /\ packetl' = l
                           /\ pooln' = packet_alloc_pool + 1
                           /\ n' = packet_deref_n(packet_alloc_n)
                      ELSE /\ packetl' = list_insert_after(l, p, f)
                           /\ pooln' = packet_alloc_pool
                           /\ n' = packet_alloc_n

\* Mutant: a new source does not flush the buffer.
SsrcChanged_never(s) == FALSE

\* The test of jbuf_put() that is made without the lock.
SsrcChanged(s) == ssrc # 0 /\ ssrc # s

\* The peer changes its source half way through the stream.
SourceOf(k) == IF 2 * k > FirstK + LastK THEN Ssrc ELSE 1

-----------------------------------------------------------------------------
\* The network delivers a packet: in order, late, twice, or after a gap.
Deliverable(k) == k \in newest - Window .. newest + 1 + Window /\ k >= FirstK

jbuf_put ==
  /\ pending = -1
  /\ \E k \in FirstK .. LastK, lat \in Latencies, skew \in adjust_due_to_skew :
       /\ Deliverable(k)
       /\ ~SsrcChanged(SourceOf(k))
       /\ PutLocked(k, SourceOf(k), lat, skew)
       /\ newest' = IF k > newest THEN k ELSE newest
  /\ UNCHANGED <<pending, clock>>

jbuf_put_flush ==
  /\ pending = -1
  /\ \E k \in FirstK .. LastK :
       /\ Deliverable(k)
       /\ SsrcChanged(SourceOf(k))
       /\ Flush
       /\ pending' = k
       /\ newest' = IF k > newest THEN k ELSE newest
  /\ UNCHANGED <<ssrc, clock>>

jbuf_put_rest ==
  /\ pending # -1
  /\ \E lat \in Latencies, skew \in adjust_due_to_skew :
       PutLocked(pending, SourceOf(pending), lat, skew)
  /\ pending' = -1
  /\ UNCHANGED <<clock, newest>>

\* The head leaves the buffer and is handed out.
TakeHead ==
  /\ seq_get' = Head(packetl).seq
  /\ played' = Head(packetl).k
  /\ packetl' = Tail(packetl)
  /\ pooln' = pooln + 1
  /\ n' = packet_deref_n(n)
  /\ UNCHANGED <<running, ssrc, offset, pending, clock, newest>>

\* The test of jbuf_get() and of jbuf_next_play().
Due(f) == f.playout_time <= Now

jbuf_get == packetl # <<>> /\ Due(Head(packetl)) /\ TakeHead

jbuf_drain == n > 0 /\ packetl # <<>> /\ TakeHead

jbuf_flush == Flush /\ UNCHANGED <<ssrc, pending, clock, newest>>

Tick ==
  /\ clock < LastTime
  /\ clock' = clock + 1
  /\ UNCHANGED <<jb, pending, newest, played>>

Next ==
  \/ jbuf_put \/ jbuf_put_flush \/ jbuf_put_rest
  \/ jbuf_get \/ jbuf_drain \/ jbuf_flush \/ Tick

Spec == Init /\ [][Next]_vars

-----------------------------------------------------------------------------
(* Properties *)

\* The fields of struct jbuf keep their widths.
TypeOK ==
  /\ packetl \in Seq(Packet)
  /\ pooln \in Nat /\ n \in Nat
  /\ running \in BOOLEAN /\ seq_get \in Seqs
  /\ ssrc \in 0..Ssrc /\ offset \in Times
  /\ pending \in Nat \cup {-1} /\ clock \in Nat /\ newest \in Nat
  /\ played \in Nat \cup {-1}

\* No packet is lost from the pool or counted twice: jb->n is the length of the
\* list, and list and pool together hold the packets jbuf_alloc() made, also
\* after a packet was stolen and then found to be a duplicate or dropped.
PoolConserved ==
  n = Len(packetl) /\ Len(packetl) + pooln = MaxSz

\* The packets are sorted by sequence number (struct jbuf: "sorted by sequence
\* number"), also around the end of the range.
Sorted ==
  \A i \in 1 .. Len(packetl) - 1 :
    rtp_seq_less(packetl[i].seq, packetl[i + 1].seq)

\* All the packets are of the source that sent last, although the flush of a
\* new source and the insertion of its first packet are two critical sections.
OneSource ==
  \A i \in 1 .. Len(packetl) : packetl[i].ssrc = ssrc

\* A sequence number is in the buffer once.
Distinct ==
  \A i, j \in 1 .. Len(packetl) : packetl[i].seq = packetl[j].seq => i = j

\* A packet that arrives after a later one was played is not buffered (jbuf_put:
\* "Packet arrived too late by sequence to be put into buffer"), so that the
\* decoder never goes back.  The exception is the packet with the sequence number
\* 0: jbuf_put() reads it as "nothing played yet".
NeverBack ==
  played % SeqMod # 0 => \A i \in 1 .. Len(packetl) : packetl[i].k > played

\* What the decoder is handed is in the order of the stream, and nothing twice,
\* whatever the network reorders and duplicates.
PlayedInOrder == NeverBack /\ Distinct
=============================================================================
