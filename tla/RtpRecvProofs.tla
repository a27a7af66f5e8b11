---------------------------- MODULE RtpRecvProofs ----------------------------
(***************************************************************************)
(* Proof that the callbacks of the RTP receiver reach the stream and the   *)
(* call in the main thread, that RTP is established once, and that nothing *)
(* comes after the destructor, for every length of the jitter buffer and   *)
(* of the queue of works; and that the decoder of a receiver with an RX    *)
(* thread gets what the peer sends.                                        *)
(*                                                                         *)
(* For the latter Follow strengthens DecoderFollows, on top of IInv.  The  *)
(* formats of the packets travel to the main thread as works, so that the  *)
(* last work of a format, and not the decoder, has the format of the       *)
(* packets (Format).  The sources are told apart by one thread at a time:  *)
(* what it has in its hands and what is in the jitter buffer is of the     *)
(* source whose sequence numbers are followed, and the decoder has heard   *)
(* that one last or ssrc_changed is set (Sourced).  The main thread reads  *)
(* the sockets only before there is an RX thread (Alone).                  *)
(***************************************************************************)
EXTENDS RtpRecv, FiniteSetTheorems, TLAPS

Sizes ==
  /\ JbufMax \in Nat \ {0} /\ MaxWorks \in Nat
  /\ Streams \subseteq [jbuf : BOOLEAN, packets : SUBSET Packets]

LEMMA SizesHold == Sizes
  BY SizesAssumption, Zenon DEF Sizes

Pcs == {"idle", "stop", "join", "flush", "resync", "filter", "put", "rtcp",
        "frames", "lost", "hand", "pass"}

RType ==
  [enabled : BOOLEAN, run : BOOLEAN, estab : BOOLEAN, ssrc : Ssrcs \cup {0},
   pseq : Ssrcs \cup {0}, changed : BOOLEAN, pt : Pts \cup {0, Tel},
   start_rtcp : BOOLEAN, sock : Threads \cup {"none"},
   dec : Threads \cup {"none"}, thr : {"none", "new", "loop", "done", "failed"},
   tmr_rec : BOOLEAN, use_rxthread : BOOLEAN, jb : Seq(Ssrcs), works : Seq(Works),
   aupt : Pts \cup {0}]

HType ==
  [split : BOOLEAN, told : BOOLEAN, reset : BOOLEAN, wild : BOOLEAN,
   last : Ssrcs \cup {0}, unflagged : BOOLEAN, heard : Nat, freed : BOOLEAN]

AtType ==
  [pc : Pcs, pkt : [ssrc : Ssrcs \cup {0}, pt : Pts \cup {0, Tel}], n : Nat]

Types ==
  /\ strm \in [jbuf : BOOLEAN, packets : SUBSET Packets]
  /\ r \in RType /\ h \in HType /\ at \in [Threads -> AtType]

\* The packet that a thread has in its hands is one.
Hands ==
  \A t \in Threads :
    /\ at[t].pc \in {"flush", "resync", "filter", "put", "lost"} =>
         at[t].pkt.ssrc \in Ssrcs
    /\ at[t].pc \in {"flush", "resync", "filter"} => at[t].pkt.pt \in Pts \cup {Tel}

\* Who may run: an RX thread that is not told to stop, or one that the main
\* thread waits for.
Order ==
  /\ r.run => r.thr \in {"new", "loop", "failed"}
  /\ ~r.run /\ r.thr # "none" => at["main"].pc = "join"
  /\ at["main"].pc = "join" => ~r.run /\ r.thr # "none"
  /\ at["main"].pc = "stop" => r.run
  /\ at["rx"].pc \notin {"stop", "join"}
  /\ r.thr # "loop" => at["rx"] = Idle
  /\ r.thr \in {"new", "failed", "done"} => r.sock = "none"
  /\ r.sock = "main" => r.thr = "none"
  /\ at["main"].pc \in {"flush", "resync", "filter", "rtcp"} => ~r.run

\* The works: none without a thread, and room for the one that is on its way.
Queue ==
  /\ Len(r.works) <= MaxWorks + 1
  /\ at["rx"].pc \in {"flush", "resync", "filter", "rtcp"} => Len(r.works) <= MaxWorks
  /\ r.thr = "none" => r.works = <<>>
  /\ Len(r.jb) <= JbufMax

NoEstab(l) == \A i \in 1 .. Len(l) : l[i][1] # "estab"
OneEstab(l) ==
  \E j \in 1 .. Len(l) :
    l[j][1] = "estab" /\ \A i \in 1 .. Len(l) : l[i][1] = "estab" => i = j

\* The call has heard of RTP, or there is one work that will tell it.
Told ==
  IF r.estab THEN \/ h.heard = 1 /\ NoEstab(r.works)
                  \/ h.heard = 0 /\ OneEstab(r.works)
  ELSE h.heard = 0 /\ NoEstab(r.works)

Gone ==
  h.freed => /\ r.works = <<>> /\ r.dec = "none" /\ r.sock = "none"
             /\ at = [t \in Threads |-> Idle] /\ r.thr = "none" /\ ~r.run

IInv == Types /\ Hands /\ Order /\ Queue /\ (h.freed \/ Told) /\ Gone /\ ~h.wild

-----------------------------------------------------------------------------
(* The types *)

LEMMA Lists ==
  ASSUME NEW x \in RType
  PROVE  x.jb \in Seq(Ssrcs) /\ x.works \in Seq(Works)
  BY Zenon DEF RType

\* What the threads and the queue of a receiver are about.
Same(x, z) ==
  /\ z.run = x.run /\ z.thr = x.thr /\ z.sock = x.sock
  /\ z.works = x.works /\ z.estab = x.estab

LEMMA NewJb ==
  ASSUME NEW x \in RType, NEW j \in Seq(Ssrcs)
  PROVE  LET z == [x EXCEPT !.jb = j] IN z \in RType /\ Same(x, z) /\ z.jb = j
  BY ZenonT(30) DEF RType, Same

LEMMA SetJb ==
  ASSUME NEW x \in RType, NEW a \in Pts \cup {0}, NEW j \in {x.jb, <<>>}
  PROVE  [x EXCEPT !.aupt = a, !.jb = j] \in RType
<1>1. <<>> \in Seq(Ssrcs) /\ x.jb \in Seq(Ssrcs)
  BY Lists
<1>2. j \in Seq(Ssrcs)
  BY <1>1, Zenon
<1>3. QED
  BY <1>2, ZenonT(30) DEF RType

LEMMA SetFlags ==
  ASSUME NEW x \in RType, NEW e \in BOOLEAN, NEW u \in BOOLEAN, NEW v \in BOOLEAN
  PROVE  [x EXCEPT !.enabled = e, !.use_rxthread = u, !.tmr_rec = v] \in RType
  BY ZenonT(30) DEF RType

-----------------------------------------------------------------------------
(* The works *)

LEMMA AppendWork ==
  ASSUME NEW l \in Seq(Works), NEW w \in Works
  PROVE  /\ Append(l, w) \in Seq(Works) /\ Len(Append(l, w)) = Len(l) + 1
         /\ w[1] # "estab" /\ NoEstab(l) => NoEstab(Append(l, w))
         /\ w[1] # "estab" /\ OneEstab(l) => OneEstab(Append(l, w))
         /\ w[1] = "estab" /\ NoEstab(l) => OneEstab(Append(l, w))
<1> DEFINE m == Append(l, w)
<1>1. /\ m \in Seq(Works) /\ Len(m) = Len(l) + 1 /\ Len(l) \in Nat
      /\ m[Len(l) + 1] = w /\ \A i \in 1 .. Len(l) : m[i] = l[i]
  OBVIOUS
<1> HIDE DEF m
<1>2. w[1] # "estab" /\ NoEstab(l) => NoEstab(m)
  BY <1>1 DEF NoEstab
<1>3. ASSUME w[1] # "estab", OneEstab(l) PROVE OneEstab(m)
  <2>1. PICK j \in 1 .. Len(l) :
          l[j][1] = "estab" /\ \A i \in 1 .. Len(l) : l[i][1] = "estab" => i = j
    BY <1>3, ZenonT(30) DEF OneEstab
  <2>2. j \in 1 .. Len(m) /\ m[j][1] = "estab"
    BY <1>1, <2>1
  <2>3. ASSUME NEW i \in 1 .. Len(m), m[i][1] = "estab" PROVE i = j
    BY <1>1, <1>3, <2>1, <2>3
  <2>4. QED
    BY <2>2, <2>3, Zenon DEF OneEstab
<1>4. ASSUME w[1] = "estab", NoEstab(l) PROVE OneEstab(m)
  <2>1. Len(l) + 1 \in 1 .. Len(m) /\ m[Len(l) + 1][1] = "estab"
    BY <1>1, <1>4
  <2>2. ASSUME NEW i \in 1 .. Len(m), m[i][1] = "estab" PROVE i = Len(l) + 1
    BY <1>1, <1>4, <2>2 DEF NoEstab
  <2>3. QED
    BY <2>1, <2>2, ZenonT(30) DEF OneEstab
<1>5. QED
  BY <1>1, <1>2, <1>3, <1>4, Zenon DEF m

LEMMA TailWork ==
  ASSUME NEW l \in Seq(Works), l # <<>>
  PROVE  /\ Tail(l) \in Seq(Works) /\ Len(Tail(l)) = Len(l) - 1 /\ Head(l) \in Works
         /\ NoEstab(l) => NoEstab(Tail(l)) /\ Head(l)[1] # "estab"
         /\ OneEstab(l) /\ Head(l)[1] # "estab" => OneEstab(Tail(l))
         /\ OneEstab(l) /\ Head(l)[1] = "estab" => NoEstab(Tail(l))
<1> DEFINE m == Tail(l)
<1>1. /\ m \in Seq(Works) /\ Len(m) = Len(l) - 1 /\ Len(l) \in Nat \ {0}
      /\ \A i \in 1 .. Len(m) : m[i] = l[i + 1]
      /\ Head(l) = l[1] /\ l[1] \in Works
  OBVIOUS
<1> HIDE DEF m
<1>2. NoEstab(l) => NoEstab(m) /\ l[1][1] # "estab"
  BY <1>1 DEF NoEstab
<1>3. OneEstab(l) /\ l[1][1] # "estab" => OneEstab(m)
  <2> SUFFICES ASSUME OneEstab(l), l[1][1] # "estab" PROVE OneEstab(m)
    BY Zenon
  <2>1. PICK j \in 1 .. Len(l) :
          l[j][1] = "estab" /\ \A i \in 1 .. Len(l) : l[i][1] = "estab" => i = j
    BY Zenon DEF OneEstab
  <2>2. j - 1 \in 1 .. Len(m) /\ m[j - 1][1] = "estab"
    BY <1>1, <2>1
  <2>3. ASSUME NEW i \in 1 .. Len(m), m[i][1] = "estab" PROVE i = j - 1
    <3>1. i + 1 \in 1 .. Len(l) /\ l[i + 1][1] = "estab"
      BY <1>1, <2>3
    <3>2. QED
      BY <1>1, <2>1, <3>1
  <2>4. QED
    BY <2>2, <2>3, Zenon DEF OneEstab
<1>4. OneEstab(l) /\ l[1][1] = "estab" => NoEstab(m)
  BY <1>1 DEF OneEstab, NoEstab
<1>5. QED
  BY <1>1, <1>2, <1>3, <1>4, Zenon DEF m

-----------------------------------------------------------------------------
(* The handlers *)

Pair == [r : RType, h : HType]

\* On the main thread, or while it waits, calling the application is harmless.
LEMMA CalledSame ==
  ASSUME NEW y \in Pair, NEW t \in Threads, t = "main" \/ at["main"].pc = "join"
  PROVE  Called(y, t) = y
<1>1. (y.h.wild \/ (t = "rx" /\ at["main"].pc # "join")) = y.h.wild
  BY Zenon DEF Pair, HType
<1>2. Called(y, t) = [y EXCEPT !.h.wild = y.h.wild]
  BY <1>1, Zenon DEF Called
<1>3. QED
  BY <1>2 DEF Pair, HType

\* A handler of the application is called: the receiver keeps its threads and its
\* queue, the call hears of RTP if that is what the work is about.
LEMMA HandleWork ==
  ASSUME NEW y \in Pair, NEW t \in Threads, NEW w \in Works,
         t = "main" \/ at["main"].pc = "join"
  PROVE  LET z == Handle(y, t, w)
         IN  /\ z \in Pair
             /\ z.r.jb \in {y.r.jb, <<>>}
             /\ Same(y.r, z.r)
             /\ z.h.wild = y.h.wild /\ z.h.freed = y.h.freed
             /\ z.h.heard = IF w[1] = "estab" THEN y.h.heard + 1 ELSE y.h.heard
<1>1. CASE w[1] = "pt"
  <2>1. w[2] \in Pts \cup {Tel} /\ Handle(y, t, w) = stream_pt_handler(y, t, w[2])
    BY <1>1 DEF Works, Handle
  <2>2. CASE w[2] = Tel
    <3>1. Handle(y, t, w) = y
      BY <2>1, <2>2, CalledSame, Zenon DEF stream_pt_handler
    <3>2. QED
      BY <3>1, <1>1, Zenon DEF Same
  <2>3. CASE w[2] \in Pts /\ w[2] # Tel
    <3> DEFINE x == audio_decoder_set(y.r, w[2])
               z == [y EXCEPT !.r = x, !.h.reset = FALSE]
    <3>1. /\ x \in RType /\ x.jb \in {y.r.jb, <<>>}
          /\ Same(y.r, x)
      <4> DEFINE j == IF w[2] = y.r.aupt THEN y.r.jb ELSE <<>>
      <4>1. y.r \in RType /\ j \in Seq(Ssrcs) /\ j \in {y.r.jb, <<>>}
        BY DEF Pair, RType
      <4>2. x = [y.r EXCEPT !.aupt = w[2], !.jb = j]
        BY Zenon DEF audio_decoder_set
      <4> HIDE DEF j, x
      <4>3. QED
        BY <2>3, <4>1, <4>2, ZenonT(30) DEF RType, Same
    <3> HIDE DEF x
    <3>2. z \in Pair /\ z.r = x /\ z.h = [y.h EXCEPT !.reset = FALSE]
      BY <3>1, ZenonT(30) DEF Pair, HType
    <3>3. Handle(y, t, w) = z
      BY <2>1, <2>3, <3>2, CalledSame, Zenon DEF stream_pt_handler, x
    <3> HIDE DEF z
    <3>4. QED
      BY <1>1, <3>1, <3>2, <3>3, Zenon DEF Pair, HType
  <2>4. QED
    BY <2>1, <2>2, <2>3, Zenon DEF Pts, Tel
<1>2. CASE w[1] = "estab"
  <2> DEFINE z == [y EXCEPT !.h.heard = @ + 1]
  <2>1. z \in Pair /\ z.r = y.r /\ z.h = [y.h EXCEPT !.heard = @ + 1]
    BY DEF Pair, HType
  <2>2. Handle(y, t, w) = z
    BY <1>2, <2>1, CalledSame, Zenon DEF Handle
  <2> HIDE DEF z
  <2>3. QED
    BY <1>2, <2>1, <2>2, Zenon DEF Pair, HType, Same
<1>3. CASE w[1] \notin {"pt", "estab"}
  <2>1. Handle(y, t, w) = y
    BY <1>3, CalledSame, Zenon DEF Handle
  <2>2. QED
    BY <1>3, <2>1, Zenon DEF Same
<1>4. QED
  BY <1>1, <1>2, <1>3, Zenon

\* A work is queued while the RX thread runs, else its handler is called.
LEMMA PassWork ==
  ASSUME NEW y \in Pair, NEW t \in Threads, NEW w \in Works,
         y.r.run \/ t = "main" \/ at["main"].pc = "join"
  PROVE  LET z == pass_work(y, t, w)
         IN  /\ z \in Pair
             /\ z.r.jb \in {y.r.jb, <<>>}
             /\ z.r.run = y.r.run /\ z.r.thr = y.r.thr /\ z.r.sock = y.r.sock
             /\ z.r.estab = y.r.estab
             /\ z.r.works = IF y.r.run THEN Append(y.r.works, w) ELSE y.r.works
             /\ z.h.wild = y.h.wild /\ z.h.freed = y.h.freed
             /\ z.h.heard = IF w[1] = "estab" /\ ~y.r.run THEN y.h.heard + 1
                            ELSE y.h.heard
<1>1. CASE y.r.run
  <2> DEFINE x == [y.r EXCEPT !.works = Append(@, w)]
  <2>1. y.r \in RType /\ Append(y.r.works, w) \in Seq(Works)
    BY DEF Pair, RType
  <2>2. x \in RType /\ x.works = Append(y.r.works, w) /\ x.jb = y.r.jb
        /\ x.run = y.r.run /\ x.thr = y.r.thr /\ x.sock = y.r.sock
        /\ x.estab = y.r.estab
    BY <2>1, ZenonT(30) DEF RType
  <2> HIDE DEF x
  <2>3. pass_work(y, t, w) = [y EXCEPT !.r = x]
    BY <1>1, Zenon DEF pass_work, x, Pair, RType
  <2>4. QED
    BY <1>1, <2>2, <2>3, ZenonT(30) DEF Pair
<1>2. CASE ~y.r.run
  <2>1. pass_work(y, t, w) = Handle(y, t, w)
    BY <1>2, Zenon DEF pass_work
  <2>2. QED
    BY <1>2, <2>1, HandleWork DEF Same
<1>3. QED
  BY <1>1, <1>2, Zenon

-----------------------------------------------------------------------------
(* The steps *)

LEMMA InitInv ==
  ASSUME Sizes, Init
  PROVE  IInv
<1>1. Types
  BY DEF Sizes, Init, NoReceiver, Idle, From, NoPacket, Types, RType, HType, AtType, Pcs,
         Threads, Ssrcs, Pts, Tel, Packets
<1>2. QED
  BY <1>1 DEF Sizes, Init, NoReceiver, Idle, IInv, Hands, Order, Queue, Told, NoEstab,
          Gone, Threads

\* A command of the main thread that leaves the queue alone.
Command ==
  \/ rtprecv_start_thread \/ audio_update \/ rtprecv_set_ssrc \/ rtprecv_flush
  \/ stream_start_rtcp

\* What such a command leaves alone: the queue, what the call has heard, and the
\* thread, unless it starts one.
Kept(x, g) ==
  /\ x \in RType /\ g \in HType
  /\ x.works = r.works /\ x.estab = r.estab /\ x.jb \in {r.jb, <<>>}
  /\ g.heard = h.heard /\ g.freed = h.freed /\ g.wild = h.wild
  /\ \/ x.run = r.run /\ x.thr = r.thr /\ x.sock = r.sock
     \/ ~r.run /\ x.run /\ x.thr = "new" /\ x.sock = "none"

LEMMA CommandSets ==
  ASSUME Sizes, Types, Command
  PROVE  Kept(r', h')
<1>0. r \in RType /\ h \in HType /\ r.jb \in {r.jb, <<>>}
  BY Zenon DEF Types
<1>1. CASE rtprecv_start_thread
  <2>1. CASE r' = [r EXCEPT !.tmr_rec = FALSE] /\ h' = h
    <3>1. r' \in RType /\ Same(r, r') /\ r'.jb = r.jb
      BY <1>0, <2>1, ZenonT(30) DEF RType, Same
    <3>2. QED
      BY <1>0, <2>1, <3>1, Zenon DEF Kept, Same
  <2>2. CASE /\ ~r.run
             /\ r' = [r EXCEPT !.tmr_rec = FALSE, !.sock = "none", !.run = TRUE,
                               !.thr = "new"]
             /\ h' = [h EXCEPT !.split = r.dec = "main"]
    <3>1. /\ r' \in RType /\ r'.works = r.works /\ r'.estab = r.estab /\ r'.jb = r.jb
          /\ r'.run /\ r'.thr = "new" /\ r'.sock = "none"
      BY <1>0, <2>2, ZenonT(30) DEF RType
    <3>2. /\ h' \in HType /\ h'.heard = h.heard /\ h'.freed = h.freed
          /\ h'.wild = h.wild
      BY <1>0, <2>2, ZenonT(30) DEF HType
    <3>3. QED
      BY <2>2, <3>1, <3>2, ZenonT(30) DEF Kept
  <2>3. QED
    <3>1. CASE r.run
      BY <1>1, <2>1, <3>1, Zenon DEF rtprecv_start_thread, Becomes, On
    <3>2. CASE ~r.run
      BY <1>1, <2>1, <2>2, <3>2, Zenon DEF rtprecv_start_thread, Becomes, On
    <3>3. QED
      BY <3>1, <3>2, Zenon
<1>2. CASE audio_update
  <2>1. PICK recv \in BOOLEAN :
          LET d == IF recv THEN audio_decoder_set(r, 1) ELSE r
          IN  /\ r' = stream_enable_rx(d, recv)
              /\ h' = [h EXCEPT !.reset = @ \/ (recv /\ r.pt = 2)]
    BY <1>2, Zenon DEF audio_update, Becomes, On
  <2> DEFINE d == IF recv THEN audio_decoder_set(r, 1) ELSE r
             a == IF recv THEN 1 ELSE r.aupt
             j == IF recv /\ r.aupt # 1 THEN <<>> ELSE r.jb
             start == recv /\ ~d.run
             u == d.use_rxthread \/ start
             v == d.tmr_rec \/ start
  <2>2. d = [r EXCEPT !.aupt = a, !.jb = j]
    BY ZenonT(30) DEF audio_decoder_set, Types, RType
  <2>3. r' = [d EXCEPT !.enabled = recv, !.use_rxthread = u, !.tmr_rec = v]
    BY <2>1, Zenon DEF stream_enable_rx
  <2>4. a \in Pts \cup {0} /\ j \in {r.jb, <<>>}
    BY Zenon DEF Types, RType, Pts
  <2>5. u \in BOOLEAN /\ v \in BOOLEAN
    BY Zenon
  <2> HIDE DEF d, a, j, start, u, v
  <2>6. d \in RType /\ Same(r, d) /\ d.jb = j
    <3>1. d \in RType
      BY <1>0, <2>2, <2>4, SetJb, Zenon
    <3>2. QED
      BY <1>0, <2>2, <3>1 DEF RType, Same
  <2>7. r' \in RType /\ Same(d, r') /\ r'.jb = d.jb
    <3>1. r' \in RType
      BY <2>3, <2>5, <2>6, SetFlags, Zenon
    <3>2. QED
      BY <2>3, <2>6, <3>1 DEF RType, Same
  <2>8. /\ h' \in HType /\ h'.heard = h.heard /\ h'.freed = h.freed
        /\ h'.wild = h.wild
    BY <1>0, <2>1, Zenon DEF HType
  <2>9. QED
    BY <2>4, <2>6, <2>7, <2>8, Zenon DEF Kept, Same
<1>3. CASE rtprecv_set_ssrc \/ rtprecv_flush \/ stream_start_rtcp
  <2>1. r' \in RType /\ Same(r, r') /\ r'.jb \in {r.jb, <<>>}
    <3>1. CASE rtprecv_set_ssrc
      <4>1. PICK s \in Ssrcs : r' = [r EXCEPT !.ssrc = s]
        BY <3>1, Zenon DEF Types, rtprecv_set_ssrc, Becomes, On, Packets
      <4>2. QED
        BY <1>0, <4>1, Zenon DEF RType, Same
    <3>2. CASE rtprecv_flush
      <4>1. <<>> \in Seq(Ssrcs) /\ r' = [r EXCEPT !.jb = <<>>]
        BY <3>2 DEF rtprecv_flush, Becomes, On
      <4>2. QED
        BY <1>0, <4>1, NewJb, ZenonT(30)
    <3>3. CASE stream_start_rtcp
      <4> DEFINE b == r.start_rtcp \/ r.use_rxthread
      <4>1. b \in BOOLEAN /\ r' = [r EXCEPT !.start_rtcp = b]
        BY <3>3, Zenon DEF stream_start_rtcp, Becomes, On
      <4> HIDE DEF b
      <4>2. QED
        BY <1>0, <4>1, Zenon DEF RType, Same
    <3>4. QED
      BY <1>3, <3>1, <3>2, <3>3, Zenon
  <2>2. h' = h
    BY <1>3, Zenon DEF rtprecv_set_ssrc, rtprecv_flush, stream_start_rtcp, Becomes, On
  <2>3. QED
    BY <1>0, <2>1, <2>2, Zenon DEF Kept, Same
<1>4. QED
  BY <1>1, <1>2, <1>3, Zenon DEF Command

LEMMA MainInv ==
  ASSUME Sizes, IInv, UNCHANGED strm, Command
  PROVE  IInv'
<1>0. at' = at /\ at["main"] = Idle /\ ~h.freed /\ Types
  BY Zenon DEF Command, rtprecv_start_thread, audio_update, rtprecv_set_ssrc,
     rtprecv_flush, stream_start_rtcp, Stay, MainFree, IInv
<1>2. Kept(r', h')
  BY <1>0, CommandSets, Zenon
<1>1. Types'
  BY <1>0, <1>2, Zenon DEF Types, Kept
<1>4. Hands' /\ Queue' /\ (h.freed \/ Told)' /\ Gone' /\ ~h'.wild
  BY <1>0, <1>2 DEF Kept, IInv, Hands, Queue, Told, Gone, Sizes, Order, Idle
<1>5. Order'
  BY <1>0, <1>2 DEF Kept, IInv, Order, Idle
<1>6. QED
  BY <1>1, <1>4, <1>5, Zenon DEF IInv

\* A step of one thread's handler: what it has to leave alone, and to show.
LEMMA Local ==
  ASSUME Sizes, IInv, Types', NEW t \in Threads, NEW a \in AtType,
         at' = [at EXCEPT ![t] = a], ~h.freed,
         t = "rx" => r.thr = "loop",
         at[t].pc \notin {"stop", "join"}, a.pc \notin {"stop", "join"},
         a.pc \in {"flush", "resync", "filter", "put", "lost"} => a.pkt.ssrc \in Ssrcs,
         a.pc \in {"flush", "resync", "filter"} => a.pkt.pt \in Pts \cup {Tel},
         t = "main" /\ a.pc \in {"flush", "resync", "filter", "rtcp"} => ~r.run,
         t = "rx" /\ a.pc \in {"flush", "resync", "filter", "rtcp"} =>
           Len(r'.works) <= MaxWorks,
         t = "main" => r'.works = r.works,
         Len(r'.works) <= MaxWorks + 1, r.thr = "none" => r'.works = <<>>, Told',
         r'.run = r.run, r'.thr = r.thr, r'.sock = r.sock, h'.freed = h.freed,
         h'.wild = h.wild, Len(r'.jb) <= JbufMax
  PROVE  IInv'
<1>1. \A u \in Threads : at'[u] = IF u = t THEN a ELSE at[u]
  BY Zenon DEF IInv, Types
<1>2. Hands'
  BY <1>1 DEF IInv, Hands
<1>3. Order'
  BY <1>1 DEF IInv, Order, Threads
<1>4. Queue'
  BY <1>1, Zenon DEF IInv, Queue, Threads
<1>5. Gone' /\ (h.freed \/ Told)' /\ ~h'.wild
  BY Zenon DEF IInv, Gone
<1>6. QED
  BY <1>2, <1>3, <1>4, <1>5, Zenon DEF IInv

\* Thread t, which is in a handler or ready for one, goes to a.
GoesTo(t, a) ==
  /\ a \in AtType /\ at' = [at EXCEPT ![t] = a] /\ ~h.freed
  /\ t = "rx" => r.thr = "loop"
  /\ at[t].pc \notin {"stop", "join"} /\ a.pc \notin {"stop", "join"}
  /\ a.pc \in {"flush", "resync", "filter", "put", "lost"} => a.pkt.ssrc \in Ssrcs
  /\ a.pc \in {"flush", "resync", "filter"} => a.pkt.pt \in Pts \cup {Tel}
  /\ a.pc \in {"flush", "resync", "filter", "rtcp"} =>
       IF t = "main" THEN ~r.run ELSE Len(r.works) <= MaxWorks

Untouched ==
  /\ r' \in RType /\ h' \in HType /\ Same(r, r') /\ Len(r'.jb) <= JbufMax
  /\ h'.heard = h.heard /\ h'.freed = h.freed /\ h'.wild = h.wild

LEMMA QuietStep ==
  ASSUME Sizes, IInv, strm' = strm, NEW t \in Threads, NEW a, GoesTo(t, a), Untouched
  PROVE  IInv'
<1>1. Types'
  BY Zenon DEF IInv, Types, GoesTo, Untouched
<1>2. Told'
  BY Zenon DEF IInv, Told, GoesTo, Untouched, Same
<1>3. QED
  BY <1>1, <1>2, Local, ZenonT(30) DEF IInv, Queue, GoesTo, Untouched, Same, Threads

LEMMA InHandler ==
  ASSUME IInv, NEW t \in Threads, at[t].pc # "idle"
  PROVE  at[t] \in AtType /\ ~h.freed /\ (t = "rx" => r.thr = "loop")
  BY DEF IInv, Types, Gone, Order, Idle, Threads

LEMMA RoomInHandler ==
  ASSUME IInv, NEW t \in Threads, at[t].pc \in {"flush", "resync", "filter", "rtcp"}
  PROVE  IF t = "main" THEN ~r.run ELSE Len(r.works) <= MaxWorks
  BY Zenon DEF IInv, Order, Queue, Threads

LEMMA ResyncInv ==
  ASSUME Sizes, IInv, strm' = strm, NEW t \in Threads, resync_flush(t) \/ rtprecv_resync(t)
  PROVE  IInv'
<1> USE InHandler, RoomInHandler
<1>0. at[t].pc \in {"flush", "resync"} /\ r \in RType /\ h \in HType
  BY Zenon DEF resync_flush, rtprecv_resync, IInv, Types
<1>1. CASE resync_flush(t)
  <2>1. GoesTo(t, [pc |-> "resync", pkt |-> at[t].pkt, n |-> 0])
    BY <1>0, <1>1, Zenon DEF resync_flush, Go, GoesTo, AtType, Pcs, IInv, Hands
  <2>2. r' \in RType /\ r'.jb = <<>> /\ Same(r, r')
    <3>1. <<>> \in Seq(Ssrcs)
      OBVIOUS
    <3>2. QED
      BY <1>0, <1>1, <3>1, NewJb, ZenonT(30) DEF resync_flush
  <2>3. QED
    BY <1>0, <1>1, <2>1, <2>2, QuietStep DEF resync_flush, Untouched, Sizes
<1>2. CASE rtprecv_resync(t)
  <2>1. GoesTo(t, [pc |-> "filter", pkt |-> at[t].pkt, n |-> 0])
    BY <1>0, <1>2, Zenon DEF rtprecv_resync, Go, GoesTo, AtType, Pcs, IInv, Hands
  <2>2. at[t].pkt.ssrc \in Ssrcs /\ r' = Resynced(r, at[t].pkt)
    BY <1>0, <1>2, Zenon DEF rtprecv_resync, IInv, Hands
  <2>3. r' \in RType /\ r'.jb = r.jb /\ Same(r, r')
    BY <1>0, <2>2, ZenonT(30) DEF Resynced, RType, Same
  <2>4. QED
    BY <1>0, <1>2, <2>1, <2>3, QuietStep, Zenon DEF rtprecv_resync, Untouched, IInv, Queue
<1>3. QED
  BY <1>1, <1>2, Zenon

\* jbuf_put() keeps the jitter buffer to its size.
LEMMA JbufPut ==
  ASSUME Sizes, NEW l \in Seq(Ssrcs), Len(l) <= JbufMax, NEW s \in Ssrcs
  PROVE  jbuf_put(l, s) \in Seq(Ssrcs) /\ Len(jbuf_put(l, s)) <= JbufMax
<1>1. CASE l # <<>> /\ l[1] # s
  BY <1>1 DEF jbuf_put, Sizes
<1>2. CASE ~(l # <<>> /\ l[1] # s) /\ Len(l) = JbufMax
  <2>1. l # <<>>
    BY <1>2, Zenon DEF Sizes
  <2>2. Tail(l) \in Seq(Ssrcs) /\ Len(Tail(l)) = Len(l) - 1
    BY <2>1
  <2>3. QED
    BY <1>2, <2>2 DEF jbuf_put, Sizes
<1>3. CASE ~(l # <<>> /\ l[1] # s) /\ Len(l) # JbufMax
  BY <1>3 DEF jbuf_put, Sizes
<1>4. QED
  BY <1>1, <1>2, <1>3, Zenon

LEMMA IdleOk == Idle \in AtType
  BY Zenon DEF Idle, NoPacket, From, AtType, Pcs

LEMMA PutInv ==
  ASSUME Sizes, IInv, strm' = strm, NEW t \in Threads, PutPacket(t)
  PROVE  IInv'
<1> USE InHandler
<1>0. at[t].pc = "put" /\ r \in RType /\ h \in HType /\ at[t].pkt.ssrc \in Ssrcs
      /\ h' = h /\ Len(r.jb) <= JbufMax
  BY Zenon DEF PutPacket, IInv, Types, Hands, Queue
<1>1. CASE strm.jbuf
  <2>1. GoesTo(t, Idle)
    BY <1>0, <1>1, IdleOk, Zenon DEF PutPacket, Done, GoesTo, Idle
  <2>2. r.jb \in Seq(Ssrcs)
    BY <1>0, Lists, Zenon
  <2>3. r' = [r EXCEPT !.jb = jbuf_put(r.jb, at[t].pkt.ssrc)]
    BY <1>0, <1>1, Zenon DEF PutPacket
  <2>4. jbuf_put(r.jb, at[t].pkt.ssrc) \in Seq(Ssrcs)
        /\ Len(jbuf_put(r.jb, at[t].pkt.ssrc)) <= JbufMax
    BY <1>0, <2>2, JbufPut, Zenon
  <2>5. Untouched
    BY <1>0, <2>3, <2>4, NewJb, Zenon DEF Untouched
  <2>6. QED
    BY <2>1, <2>5, QuietStep, Zenon
<1>2. CASE ~strm.jbuf
  <2>1. GoesTo(t, [pc |-> "pass", pkt |-> at[t].pkt, n |-> 0])
    BY <1>0, <1>2, Zenon DEF PutPacket, Go, GoesTo, AtType, Pcs
  <2>2. Untouched
    BY <1>0, <1>2, Zenon DEF PutPacket, Untouched, Same
  <2>3. QED
    BY <2>1, <2>2, QuietStep, Zenon
<1>3. QED
  BY <1>1, <1>2, Zenon

\* What an event loop calls: the socket is the one of a loop that may pass works.
LEMMA ReadyLoop ==
  ASSUME IInv, NEW t \in Threads, Ready(t)
  PROVE  /\ at[t] = Idle /\ ~h.freed /\ (t = "rx" => r.thr = "loop")
         /\ t = "main" /\ r.sock = "main" => ~r.run
  BY Zenon DEF IInv, Order, Ready

LEMMA HandleRtcpInv ==
  ASSUME Sizes, IInv, strm' = strm, NEW t \in Threads, rtprecv_handle_rtcp(t)
  PROVE  IInv'
<1> USE ReadyLoop
<1>1. GoesTo(t, [pc |-> "rtcp", pkt |-> NoPacket, n |-> 0])
  BY DEF rtprecv_handle_rtcp, Go, GoesTo, AtType, Pcs, NoPacket, From, Idle, Sizes,
     IInv, Types, RType, Threads
<1>2. Untouched
  BY Zenon DEF rtprecv_handle_rtcp, Untouched, Same, IInv, Types, Queue
<1>3. QED
  BY <1>1, <1>2, QuietStep, Zenon

\* The decode timer and the mark of a new source are nobody else's business.
LEMMA SetDec ==
  ASSUME NEW x \in RType, NEW t \in Threads \cup {"none"}, NEW b \in BOOLEAN,
         NEW q \in Ssrcs \cup {0}
  PROVE  LET z == [x EXCEPT !.dec = t]
             y == [x EXCEPT !.changed = b]
             w == [x EXCEPT !.pseq = q]
         IN  /\ z \in RType /\ Same(x, z) /\ z.jb = x.jb
             /\ y \in RType /\ Same(x, y) /\ y.jb = x.jb
             /\ w \in RType /\ Same(x, w) /\ w.jb = x.jb
<1>1. LET z == [x EXCEPT !.dec = t] IN z \in RType /\ Same(x, z) /\ z.jb = x.jb
  BY DEF RType, Same
<1>2. LET y == [x EXCEPT !.changed = b] IN y \in RType /\ Same(x, y) /\ y.jb = x.jb
  BY DEF RType, Same
<1>3. LET w == [x EXCEPT !.pseq = q] IN w \in RType /\ Same(x, w) /\ w.jb = x.jb
  BY DEF RType, Same
<1>4. QED
  BY <1>1, <1>2, <1>3, Zenon

LEMMA HeardOk ==
  ASSUME NEW g \in HType, NEW x, NEW p, p.ssrc \in Ssrcs \cup {0}
  PROVE  LET z == Heard(g, x, p)
         IN  z \in HType /\ z.heard = g.heard /\ z.freed = g.freed /\ z.wild = g.wild
<1> DEFINE u == g.unflagged \/ (g.last \notin {0, p.ssrc} /\ ~x.changed)
<1>1. u \in BOOLEAN
  BY Zenon
<1>2. Heard(g, x, p) \in {[g EXCEPT !.last = 0],
                         [g EXCEPT !.last = p.ssrc, !.unflagged = u]}
  BY Zenon DEF Heard
<1> HIDE DEF u
<1>3. QED
  BY <1>1, <1>2, ZenonT(30) DEF HType

LEMMA DecodeInv ==
  ASSUME Sizes, IInv, strm' = strm, NEW t \in Threads,
         \/ decode_tmr(t) \/ decode_end(t) \/ decode_get(t) \/ lostcalc(t)
         \/ decode_hand(t) \/ decode_last(t) \/ PassPacket(t)
  PROVE  IInv'
<1>0. r \in RType /\ h \in HType /\ at \in [Threads -> AtType] /\ Len(r.jb) <= JbufMax
      /\ r.jb \in Seq(Ssrcs) /\ JbufMax \in Nat /\ at[t] \in AtType
      /\ at[t].pkt.ssrc \in Ssrcs \cup {0} /\ at[t].n \in Nat
  BY Lists, Zenon DEF IInv, Types, Queue, Sizes, AtType
<1>1. CASE decode_tmr(t)
  <2>1. Untouched
    BY <1>0, <1>1, SetDec, ZenonT(30) DEF decode_tmr, Untouched
  <2>2. PICK a : a \in {Idle, [pc |-> "frames", pkt |-> NoPacket, n |-> Len(r.jb)]}
                 /\ at' = [at EXCEPT ![t] = a]
    BY <1>1, Zenon DEF decode_tmr, Go, Done
  <2>3. Len(r.jb) \in Nat
    BY <1>0
  <2>4. a \in AtType /\ a.pc \in {"idle", "frames"}
    BY <2>2, <2>3, IdleOk DEF AtType, NoPacket, From, Pcs, Idle
  <2>5. GoesTo(t, a)
    BY <1>1, <2>2, <2>4, ReadyLoop DEF decode_tmr, GoesTo, Idle
  <2>6. QED
    BY <2>1, <2>5, QuietStep, Zenon
<1>2. CASE decode_end(t)
  <2>1. Untouched
    BY <1>0, <1>2, SetDec, ZenonT(30) DEF decode_end, FramesEnd, Untouched
  <2>2. GoesTo(t, Idle)
    BY <1>0, <1>2, IdleOk, InHandler, Zenon DEF decode_end, Done, GoesTo, Idle
  <2>3. QED
    BY <2>1, <2>2, QuietStep, Zenon
<1>3. CASE decode_get(t)
  <2>1. Tail(r.jb) \in Seq(Ssrcs) /\ Len(Tail(r.jb)) <= JbufMax /\ Head(r.jb) \in Ssrcs
    BY <1>0, <1>3 DEF decode_get
  <2>2. Untouched
    BY <1>0, <1>3, <2>1, NewJb, ZenonT(30) DEF decode_get, Untouched
  <2>3. GoesTo(t, [pc |-> "lost", pkt |-> From(Head(r.jb)), n |-> at[t].n])
    BY <1>0, <1>3, <2>1, InHandler, Zenon DEF decode_get, Go, GoesTo, From, AtType, Pcs
  <2>4. QED
    BY <2>2, <2>3, QuietStep, Zenon
<1>4. CASE lostcalc(t)
  <2>1. PICK q \in Ssrcs \cup {0} : r' = [r EXCEPT !.pseq = q]
    BY <1>0, <1>4, ZenonT(30) DEF lostcalc, RType
  <2>2. Untouched
    BY <1>0, <1>4, <2>1, SetDec, ZenonT(30) DEF lostcalc, Untouched
  <2>3. GoesTo(t, [pc |-> "hand", pkt |-> at[t].pkt, n |-> at[t].n])
    BY <1>0, <1>4, InHandler, Zenon DEF lostcalc, Go, GoesTo, AtType, Pcs
  <2>4. QED
    BY <2>2, <2>3, QuietStep, Zenon
<1>5. CASE decode_hand(t)
  <2>1. Untouched
    <3>1. r' = [r EXCEPT !.changed = FALSE] /\ h' = Heard(h, r, at[t].pkt)
      BY <1>5, Zenon DEF decode_hand, handle_rtp
    <3>2. r' \in RType /\ Same(r, r') /\ r'.jb = r.jb
      BY <1>0, <3>1, SetDec, ZenonT(30)
    <3>3. QED
      BY <1>0, <3>1, <3>2, HeardOk DEF Untouched
  <2>2. GoesTo(t, [pc |-> "frames", pkt |-> NoPacket, n |-> at[t].n - 1])
    BY <1>0, <1>5, InHandler DEF decode_hand, Go, GoesTo, AtType, Pcs, NoPacket, From
  <2>3. QED
    BY <2>1, <2>2, QuietStep, Zenon
<1>6. CASE decode_last(t)
  <2> DEFINE x == [r EXCEPT !.changed = FALSE]
  <2>1. x \in RType /\ Same(r, x) /\ x.jb = r.jb
    BY <1>0, SetDec, ZenonT(30)
  <2>2. r' = [x EXCEPT !.dec = t] /\ h' = Heard(h, r, at[t].pkt)
    BY <1>6, Zenon DEF decode_last, FramesEnd
  <2> HIDE DEF x
  <2>3. r' \in RType /\ Same(x, r') /\ r'.jb = x.jb
    BY <2>1, <2>2, SetDec, ZenonT(30)
  <2>4. Untouched
    BY <1>0, <2>1, <2>2, <2>3, HeardOk DEF Untouched, Same
  <2>5. GoesTo(t, Idle)
    BY <1>0, <1>6, IdleOk, InHandler, ZenonT(30) DEF decode_last, Done, GoesTo, Idle
  <2>6. QED
    BY <2>4, <2>5, QuietStep, Zenon
<1>7. CASE PassPacket(t)
  <2>1. Untouched
    <3>1. r' = [r EXCEPT !.changed = FALSE] /\ h' = Heard(h, r, at[t].pkt)
      BY <1>7, Zenon DEF PassPacket, handle_rtp
    <3>2. r' \in RType /\ Same(r, r') /\ r'.jb = r.jb
      BY <1>0, <3>1, SetDec, Zenon
    <3>3. QED
      BY <1>0, <3>1, <3>2, HeardOk DEF Untouched
  <2>2. GoesTo(t, Idle)
    BY <1>0, <1>7, IdleOk, InHandler, Zenon DEF PassPacket, Done, GoesTo, Idle
  <2>3. QED
    BY <2>1, <2>2, QuietStep, Zenon
<1>8. QED
  BY <1>1, <1>2, <1>3, <1>4, <1>5, <1>6, <1>7, Zenon

\* A work of thread t: the handlers are called by the main thread, or while it
\* waits.
LEMMA MayPass ==
  ASSUME IInv, NEW t \in Threads, t = "rx" => r.thr = "loop"
  PROVE  r.run \/ t = "main" \/ at["main"].pc = "join"
  BY Zenon DEF IInv, Order, Threads

\* A handler that ends in a work other than "estab".
LEMMA PassOther ==
  ASSUME Sizes, IInv, strm' = strm, NEW t \in Threads, NEW a, GoesTo(t, a),
         NEW x \in RType, Same(r, x), x.jb = r.jb, NEW w \in Works, w[1] # "estab",
         at[t].pc \in {"filter", "rtcp"}, a.pc \in {"put", "idle"},
         Becomes(pass_work(On(x, h), t, w))
  PROVE  IInv'
<1> DEFINE y == On(x, h)
           z == pass_work(y, t, w)
<1>0. h \in HType /\ r \in RType /\ Types
  BY Zenon DEF IInv, Types
<1>1. y \in Pair /\ y.r = x /\ y.h = h
  BY <1>0, Zenon DEF Pair, On
<1>2. x.run \/ t = "main" \/ at["main"].pc = "join"
  BY MayPass, Zenon DEF GoesTo, Same
<1>3. r' = z.r /\ h' = z.h
  BY Zenon DEF Becomes
<1> HIDE DEF y
<1>4. /\ z \in Pair /\ z.r.jb \in {x.jb, <<>>}
      /\ z.r.run = x.run /\ z.r.thr = x.thr /\ z.r.sock = x.sock
      /\ z.r.estab = x.estab
      /\ z.r.works = IF x.run THEN Append(x.works, w) ELSE x.works
      /\ z.h.wild = h.wild /\ z.h.freed = h.freed /\ z.h.heard = h.heard
  BY <1>1, <1>2, PassWork
<1> HIDE DEF z
<1>5. Types'
  BY <1>0, <1>3, <1>4, Zenon DEF Types, GoesTo, Pair
<1>6. r'.works = IF r.run THEN Append(r.works, w) ELSE r.works
  BY <1>3, <1>4, Zenon DEF Same
<1>7. /\ r'.run = r.run /\ r'.thr = r.thr /\ r'.sock = r.sock /\ r'.estab = r.estab
      /\ h'.wild = h.wild /\ h'.freed = h.freed /\ h'.heard = h.heard
      /\ r'.jb \in {r.jb, <<>>}
  BY <1>3, <1>4, Zenon DEF Same
<1>8. r.works \in Seq(Works) /\ Len(r.works) \in Nat
  BY <1>0, Lists
<1>9. Told'
  <2>1. CASE r.run
    BY <1>6, <1>7, <1>8, <2>1, AppendWork, Zenon DEF IInv, Told, GoesTo
  <2>2. CASE ~r.run
    BY <1>6, <1>7, <2>2, Zenon DEF IInv, Told, GoesTo
  <2>3. QED
    BY <2>1, <2>2, Zenon
<1>10. IF t = "main" THEN ~r.run ELSE Len(r.works) <= MaxWorks
  BY RoomInHandler, Zenon
<1>11. Len(r'.works) <= MaxWorks + 1 /\ (r.thr = "none" => r'.works = <<>>)
  <2>1. CASE r.run
    BY <1>6, <1>8, <1>10, <2>1, AppendWork DEF Sizes, IInv, Order
  <2>2. CASE ~r.run
    BY <1>6, <2>2, Zenon DEF IInv, Queue
  <2>3. QED
    BY <2>1, <2>2, Zenon
<1>12. Len(r'.jb) <= JbufMax
  BY <1>7 DEF IInv, Queue, Sizes
<1>13. QED
  BY <1>5, <1>6, <1>7, <1>9, <1>10, <1>11, <1>12, Local, ZenonT(30) DEF GoesTo, Threads

LEMMA FilterInv ==
  ASSUME Sizes, IInv, strm' = strm, NEW t \in Threads, FilterPt(t) \/ pass_rtcp_work(t)
  PROVE  IInv'
<1>0. r \in RType /\ h \in HType /\ Len(r.jb) <= JbufMax
  BY Zenon DEF IInv, Types, Queue
<1>1. CASE FilterPt(t)
  <2> DEFINE p == at[t].pkt
             x == [r EXCEPT !.pt = p.pt]
             w == <<"pt", p.pt>>
             put == [pc |-> "put", pkt |-> From(p.ssrc), n |-> 0]
  <2>1. at[t].pc = "filter" /\ p.ssrc \in Ssrcs /\ p.pt \in Pts \cup {Tel}
    BY <1>1, Zenon DEF FilterPt, IInv, Hands
  <2>2. PICK a : /\ a \in {Idle, put} /\ at' = [at EXCEPT ![t] = a]
                 /\ \/ Becomes(pass_work(On(x, h), t, w))
                    \/ a = put /\ r' = r /\ h' = h
    BY <1>1, ZenonT(30) DEF FilterPt, Go, Done
  <2>3. put \in AtType /\ put.pkt.ssrc \in Ssrcs /\ put.pc = "put"
    BY <2>1, Zenon DEF AtType, Pcs, From
  <2>4. GoesTo(t, a)
    BY <2>1, <2>2, <2>3, IdleOk, InHandler DEF GoesTo, Idle
  <2>5. x \in RType /\ Same(r, x) /\ x.jb = r.jb
    BY <1>0, <2>1 DEF RType, Same
  <2>6. w \in Works /\ w[1] # "estab"
    BY <2>1, Zenon DEF Works
  <2>7. a.pc \in {"put", "idle"}
    BY <2>2, <2>3 DEF Idle
  <2> HIDE DEF p, x, w, put
  <2>8. CASE Becomes(pass_work(On(x, h), t, w))
    BY <2>1, <2>4, <2>5, <2>6, <2>7, <2>8, PassOther, Zenon
  <2>9. CASE r' = r /\ h' = h
    BY <1>0, <2>4, <2>9, QuietStep, Zenon DEF Untouched, Same
  <2>10. QED
    BY <2>2, <2>8, <2>9, Zenon
<1>2. CASE pass_rtcp_work(t)
  <2>1. GoesTo(t, Idle) /\ at[t].pc = "rtcp"
    BY <1>2, IdleOk, InHandler, Zenon DEF pass_rtcp_work, Done, GoesTo, Idle
  <2>2. <<"other", 0>> \in Works /\ <<"other", 0>>[1] # "estab"
    BY Zenon DEF Works
  <2>3. QED
    BY <1>0, <1>2, <2>1, <2>2, PassOther DEF pass_rtcp_work, Same, Idle
<1>3. QED
  BY <1>1, <1>2, Zenon

\* The first packet: one work for the call, or one call of its handler.
LEMMA FirstPacketOk ==
  ASSUME IInv, NEW t \in Threads, t = "rx" => r.thr = "loop", ~h.freed
  PROVE  LET z == FirstPacket(On(r, h), t)
             l == z.r.works
         IN  /\ z \in Pair
             /\ z.r.jb \in {r.jb, <<>>}
             /\ z.r.run = r.run /\ z.r.thr = r.thr /\ z.r.sock = r.sock /\ z.r.estab
             /\ z.h.wild = h.wild /\ z.h.freed = h.freed
             /\ l = r.works \/ (r.run /\ Len(l) = Len(r.works) + 1)
             /\ \/ z.h.heard = 1 /\ NoEstab(l)
                \/ z.h.heard = 0 /\ OneEstab(l)
<1>0. r \in RType /\ h \in HType /\ Told
  BY Zenon DEF IInv, Types
<1>1. CASE r.estab
  <2>1. FirstPacket(On(r, h), t) = On(r, h)
    BY <1>1, Zenon DEF FirstPacket, On
  <2>2. QED
    BY <1>0, <1>1, <2>1 DEF On, Pair, Told
<1>2. CASE ~r.estab
  <2> DEFINE x == [r EXCEPT !.estab = TRUE, !.dec = t]
             y == [On(r, h) EXCEPT !.r.estab = TRUE, !.r.dec = t]
             w == <<"estab", 0>>
             z == pass_work(y, t, w)
  <2>1. /\ x \in RType /\ x.jb = r.jb /\ x.run = r.run /\ x.thr = r.thr
        /\ x.sock = r.sock /\ x.estab /\ x.works = r.works
    BY <1>0, ZenonT(30) DEF RType
  <2>2. FirstPacket(On(r, h), t) = z
    BY <1>2, Zenon DEF FirstPacket, On
  <2>0. y.r = x /\ y.h = h /\ y \in [r : {x}, h : {h}]
    BY <1>0, ZenonT(30) DEF On, RType
  <2> HIDE DEF x, y
  <2>3. y \in Pair /\ y.r = x /\ y.h = h
    BY <1>0, <2>0, <2>1, Zenon DEF Pair
  <2>4. w \in Works /\ w[1] = "estab"
    BY Zenon DEF Works
  <2>5. x.run \/ t = "main" \/ at["main"].pc = "join"
    BY <2>1, MayPass, Zenon
  <2> HIDE DEF w
  <2>6. /\ z \in Pair /\ z.r.jb \in {r.jb, <<>>}
        /\ z.r.run = r.run /\ z.r.thr = r.thr /\ z.r.sock = r.sock
        /\ z.r.estab = x.estab
        /\ z.r.works = IF r.run THEN Append(r.works, w) ELSE r.works
        /\ z.h.wild = h.wild /\ z.h.freed = h.freed
        /\ z.h.heard = IF ~r.run THEN h.heard + 1 ELSE h.heard
    <3>1. y.r.run \/ t = "main" \/ at["main"].pc = "join"
      BY <2>3, <2>5, Zenon
    <3>2. /\ z \in Pair /\ z.r.jb \in {y.r.jb, <<>>}
          /\ z.r.run = y.r.run /\ z.r.thr = y.r.thr /\ z.r.sock = y.r.sock
          /\ z.r.estab = y.r.estab
          /\ z.r.works = IF y.r.run THEN Append(y.r.works, w) ELSE y.r.works
          /\ z.h.wild = y.h.wild /\ z.h.freed = y.h.freed
          /\ z.h.heard = IF w[1] = "estab" /\ ~y.r.run THEN y.h.heard + 1 ELSE y.h.heard
      BY <2>3, <2>4, <3>1, PassWork
    <3> HIDE DEF z
    <3>3. QED
      BY <2>1, <2>3, <2>4, <3>2, Zenon
  <2> HIDE DEF z
  <2>7. h.heard = 0 /\ NoEstab(r.works) /\ r.works \in Seq(Works)
    BY <1>0, <1>2, Lists, ZenonT(30) DEF Told
  <2>8. CASE r.run
    BY <2>1, <2>2, <2>4, <2>6, <2>7, <2>8, AppendWork
  <2>9. CASE ~r.run
    BY <2>1, <2>2, <2>6, <2>7, <2>9
  <2>10. QED
    BY <2>8, <2>9, Zenon
<1>3. QED
  BY <1>1, <1>2, Zenon

LEMMA FirstInv ==
  ASSUME Sizes, IInv, strm' = strm, NEW t \in Threads, rtprecv_decode(t)
  PROVE  IInv'
<1> DEFINE z == FirstPacket(On(r, h), t)
<1>0. r \in RType /\ h \in HType /\ Len(r.works) \in Nat /\ Len(r.works) < MaxWorks
      /\ Len(r.jb) <= JbufMax
  BY Lists DEF IInv, Types, Queue, rtprecv_decode
<1>1. /\ at[t] = Idle /\ ~h.freed /\ (t = "rx" => r.thr = "loop")
      /\ t = "main" => ~r.run
  BY ReadyLoop, Zenon DEF rtprecv_decode
<1>2. PICK p \in Packets :
        /\ Becomes(FirstSource(z, p))
        /\ Go(t, IF r.pseq # 0 /\ p.ssrc # r.ssrc THEN "flush" ELSE "filter", p, 0)
  BY Zenon DEF rtprecv_decode, IInv, Types
<1>3. /\ z \in Pair
      /\ z.r.jb \in {r.jb, <<>>}
      /\ z.r.run = r.run /\ z.r.thr = r.thr /\ z.r.sock = r.sock /\ z.r.estab
      /\ z.h.wild = h.wild /\ z.h.freed = h.freed
      /\ z.r.works = r.works \/ (r.run /\ Len(z.r.works) = Len(r.works) + 1)
      /\ \/ z.h.heard = 1 /\ NoEstab(z.r.works)
         \/ z.h.heard = 0 /\ OneEstab(z.r.works)
  BY <1>1, FirstPacketOk, Zenon
<1> HIDE DEF z
<1>4. p.ssrc \in Ssrcs /\ p.pt \in Pts \cup {Tel}
  BY Zenon DEF Packets
<1>5. /\ r' \in RType /\ h' \in HType /\ Same(z.r, r') /\ r'.jb = z.r.jb
      /\ h'.wild = z.h.wild /\ h'.freed = z.h.freed /\ h'.heard = z.h.heard
  <2>0. z.r \in RType /\ z.h \in HType
    BY <1>3, Zenon DEF Pair
  <2>1. CASE z.r.pseq = 0
    <3>1. /\ r' = [z.r EXCEPT !.ssrc = p.ssrc, !.pseq = p.ssrc] /\ h' = z.h
      BY <1>2, <1>3, <2>1, Zenon DEF FirstSource, Becomes, Pair, RType
    <3>2. QED
      BY <1>4, <2>0, <3>1, ZenonT(30) DEF RType, Same
  <2>2. CASE z.r.pseq # 0
    <3> DEFINE b == z.h.told \/ (p.ssrc = z.r.ssrc /\ p.ssrc # z.r.pseq)
    <3>1. b \in BOOLEAN
      BY <2>0, Zenon DEF HType
    <3>2. r' = z.r /\ h' = [z.h EXCEPT !.told = b]
      BY <1>2, <1>3, <2>2, Zenon DEF FirstSource, Becomes, Pair, HType
    <3> HIDE DEF b
    <3>3. QED
      BY <2>0, <3>1, <3>2, Zenon DEF HType, Same
  <2>3. QED
    BY <2>1, <2>2, Zenon
<1>6. PICK a \in AtType : /\ at' = [at EXCEPT ![t] = a] /\ a.pkt = p
                          /\ a.pc \in {"flush", "filter"}
  <2> DEFINE c == IF r.pseq # 0 /\ p.ssrc # r.ssrc THEN "flush" ELSE "filter"
             a == [pc |-> c, pkt |-> p, n |-> 0]
  <2>1. a \in AtType /\ a.pkt = p /\ a.pc \in {"flush", "filter"}
    BY Zenon DEF AtType, Pcs, Packets
  <2>2. at' = [at EXCEPT ![t] = a]
    BY <1>2, Zenon DEF Go
  <2>3. QED
    BY <2>1, <2>2, ZenonT(30)
<1>7. Types'
  BY <1>5, <1>6, Zenon DEF IInv, Types
<1>8. Told'
  BY <1>3, <1>5, Zenon DEF Told, Same
<1>9. /\ Len(r'.works) <= MaxWorks /\ (t = "main" => r'.works = r.works)
      /\ (r.thr = "none" => r'.works = <<>>)
  BY <1>0, <1>1, <1>3, <1>5 DEF Same, Sizes, IInv, Order, Queue
<1>10. Len(r'.jb) <= JbufMax
  BY <1>0, <1>3, <1>5 DEF Sizes
<1>11. Len(r'.works) <= MaxWorks + 1
  BY <1>5, <1>9, Lists DEF Sizes
<1>12. /\ r'.run = r.run /\ r'.thr = r.thr /\ r'.sock = r.sock
       /\ h'.freed = h.freed /\ h'.wild = h.wild
  BY <1>3, <1>5, Zenon DEF Same
<1>13. /\ at[t].pc \notin {"stop", "join"} /\ a.pc \notin {"stop", "join"}
       /\ a.pkt.ssrc \in Ssrcs /\ a.pkt.pt \in Pts \cup {Tel}
  BY <1>1, <1>4, <1>6 DEF Idle
<1>14. QED
  BY <1>1, <1>6, <1>7, <1>8, <1>9, <1>10, <1>11, <1>12, <1>13, Local, ZenonT(30)

-----------------------------------------------------------------------------
(* The main thread *)

\* A work is done in the main thread.
LEMMA WorkInv ==
  ASSUME Sizes, IInv, strm' = strm, async_work_main
  PROVE  IInv'
<1> DEFINE x == [r EXCEPT !.works = Tail(@)]
           y == On(x, h)
           w == Head(r.works)
           z == Handle(y, "main", w)
<1>0. /\ r \in RType /\ h \in HType /\ r.works \in Seq(Works) /\ r.works # <<>>
      /\ Len(r.works) \in Nat /\ ~h.freed /\ at["main"] = Idle /\ at' = at
  BY Lists DEF IInv, Types, async_work_main, MainFree, Stay
<1>1. /\ Tail(r.works) \in Seq(Works) /\ Len(Tail(r.works)) = Len(r.works) - 1
      /\ w \in Works
      /\ NoEstab(r.works) => NoEstab(Tail(r.works)) /\ w[1] # "estab"
      /\ OneEstab(r.works) /\ w[1] # "estab" => OneEstab(Tail(r.works))
      /\ OneEstab(r.works) /\ w[1] = "estab" => NoEstab(Tail(r.works))
  BY <1>0, TailWork, Zenon
<1>2. /\ x \in RType /\ x.jb = r.jb /\ x.run = r.run /\ x.thr = r.thr
      /\ x.sock = r.sock /\ x.estab = r.estab /\ x.works = Tail(r.works)
  BY <1>0, <1>1, ZenonT(30) DEF RType
<1> HIDE DEF x
<1>3. y \in Pair /\ y.r = x /\ y.h = h
  BY <1>0, <1>2, Zenon DEF Pair, On
<1>4. r' = z.r /\ h' = z.h
  BY Zenon DEF async_work_main, Becomes, x
<1> HIDE DEF y, w
<1>5. /\ z \in Pair /\ z.r.jb \in {y.r.jb, <<>>} /\ Same(y.r, z.r)
      /\ z.h.wild = y.h.wild /\ z.h.freed = y.h.freed
      /\ z.h.heard = IF w[1] = "estab" THEN y.h.heard + 1 ELSE y.h.heard
  BY <1>1, <1>3, HandleWork, Zenon DEF Threads
<1> HIDE DEF z
<1>6. /\ r' \in RType /\ h' \in HType /\ r'.jb \in {r.jb, <<>>}
      /\ r'.run = r.run /\ r'.thr = r.thr /\ r'.sock = r.sock /\ r'.estab = r.estab
      /\ r'.works = Tail(r.works) /\ h'.wild = h.wild /\ h'.freed = h.freed
      /\ h'.heard = IF w[1] = "estab" THEN h.heard + 1 ELSE h.heard
  BY <1>2, <1>3, <1>4, <1>5, Zenon DEF Pair, Same
<1>7. Types' /\ Hands' /\ Order'
  BY <1>0, <1>6, Zenon DEF IInv, Types, Hands, Order
<1>8. Told'
  BY <1>0, <1>1, <1>6 DEF IInv, Told
<1>9. Queue'
  <2>1. r.thr # "none"
    BY <1>0, Zenon DEF IInv, Queue
  <2>2. Len(r'.jb) <= JbufMax
    BY <1>6 DEF IInv, Queue, Sizes
  <2>3. QED
    BY <1>0, <1>1, <1>6, <2>1, <2>2 DEF IInv, Queue, Sizes
<1>10. QED
  BY <1>0, <1>6, <1>7, <1>8, <1>9, Zenon DEF IInv, Gone

LEMMA MnatInv ==
  ASSUME Sizes, IInv, strm' = strm, MnatConnected
  PROVE  IInv'
<1> DEFINE y == On(r, h)
           w == <<"other", 0>>
           z == pass_work(y, "main", w)
<1>0. /\ r \in RType /\ h \in HType /\ r.works \in Seq(Works)
      /\ Len(r.works) \in Nat /\ Len(r.works) < MaxWorks
      /\ ~h.freed /\ at["main"] = Idle /\ at' = at
  BY Lists DEF IInv, Types, MnatConnected, MainFree, Stay
<1>1. y \in Pair /\ y.r = r /\ y.h = h
  BY <1>0, Zenon DEF Pair, On
<1>2. w \in Works /\ w[1] # "estab"
  BY Zenon DEF Works
<1>3. r' = z.r /\ h' = z.h
  BY Zenon DEF MnatConnected, Becomes
<1> HIDE DEF y, w
<1>4. /\ z \in Pair /\ z.r.jb \in {r.jb, <<>>}
      /\ z.r.run = r.run /\ z.r.thr = r.thr /\ z.r.sock = r.sock
      /\ z.r.estab = r.estab
      /\ z.r.works = IF r.run THEN Append(r.works, w) ELSE r.works
      /\ z.h.wild = h.wild /\ z.h.freed = h.freed /\ z.h.heard = h.heard
  BY <1>1, <1>2, PassWork DEF Threads
<1> HIDE DEF z
<1>5. Types' /\ Hands' /\ Order'
  BY <1>0, <1>3, <1>4, Zenon DEF IInv, Types, Hands, Order, Pair
<1>6. Told'
  BY <1>0, <1>2, <1>3, <1>4, AppendWork, Zenon DEF IInv, Told
<1>7. Queue'
  <2>1. Len(r'.jb) <= JbufMax
    BY <1>3, <1>4 DEF IInv, Queue, Sizes
  <2>2. CASE r.run
    BY <1>0, <1>2, <1>3, <1>4, <2>1, <2>2, AppendWork DEF IInv, Queue, Order, Sizes
  <2>3. CASE ~r.run
    BY <1>0, <1>3, <1>4, <2>1, <2>3, Zenon DEF IInv, Queue
  <2>4. QED
    BY <2>2, <2>3, Zenon
<1>8. QED
  BY <1>0, <1>3, <1>4, <1>5, <1>6, <1>7, ZenonT(30) DEF IInv, Gone

\* A freed receiver satisfies the invariant: nothing of it is left.
LEMMA FreedInv ==
  ASSUME Sizes, IInv, strm' = strm, h' = [h EXCEPT !.freed = TRUE],
         r' = [NoReceiver EXCEPT !.sock = "none", !.dec = "none", !.works = <<>>],
         at' = [t \in Threads |-> Idle]
  PROVE  IInv'
<1>0. h \in HType
  BY Zenon DEF IInv, Types
<1>1. <<>> \in Seq(Ssrcs) /\ <<>> \in Seq(Works)
  OBVIOUS
<1>2. /\ r' \in RType /\ ~r'.run /\ r'.thr = "none" /\ r'.sock = "none"
      /\ r'.dec = "none" /\ r'.works = <<>> /\ r'.jb = <<>>
  BY <1>1, ZenonT(30) DEF NoReceiver, RType
<1>3. h' \in HType /\ h'.freed /\ h'.wild = h.wild
  BY <1>0, ZenonT(30) DEF HType
<1>4. Types'
  BY <1>2, <1>3, IdleOk, Zenon DEF IInv, Types
<1>5. Hands' /\ Order' /\ Queue' /\ Gone'
  BY <1>2 DEF Hands, Order, Queue, Gone, Idle, Threads, Sizes
<1>6. QED
  BY <1>3, <1>4, <1>5, Zenon DEF IInv

LEMMA DestructorInv ==
  ASSUME Sizes, IInv, strm' = strm, destructor \/ destructor_stop \/ destructor_join
  PROVE  IInv'
<1>0. r \in RType /\ h \in HType /\ at \in [Threads -> AtType] /\ Types
  BY Zenon DEF IInv, Types
<1> DEFINE Moves(x, c) ==
             /\ r' = x /\ h' = h /\ ~h.freed
             /\ at' = [at EXCEPT !["main"].pc = c]
<1>1. CASE destructor /\ r.run
  <2>1. Moves([r EXCEPT !.enabled = FALSE], "stop") /\ at["main"] = Idle
    BY <1>1, Zenon DEF destructor, MainFree
  <2>2. r' \in RType /\ Same(r, r') /\ r'.jb = r.jb /\ r'.dec = r.dec
    BY <1>0, <2>1, ZenonT(30) DEF RType, Same
  <2>3. /\ at' \in [Threads -> AtType] /\ at'["main"].pc = "stop"
        /\ at'["rx"] = at["rx"]
    BY <1>0, <2>1, Zenon DEF AtType, Pcs, Threads
  <2>4. Types'
    BY <1>0, <2>1, <2>2, <2>3, Zenon DEF Types
  <2>5. QED
    BY <1>1, <2>1, <2>2, <2>3, <2>4, Zenon DEF IInv, Hands, Order, Queue, Told, Gone, Same, Threads,
       Idle
<1>2. CASE destructor /\ ~r.run
  <2>1. r.thr = "none" /\ at["main"] = Idle
    BY <1>2 DEF destructor, MainFree, IInv, Order, Idle
  <2>2. r.works = <<>> /\ at["rx"] = Idle
    BY <2>1, Zenon DEF IInv, Order, Queue
  <2>3. at' = [t \in Threads |-> Idle]
    BY <1>0, <1>2, <2>1, <2>2, Zenon DEF destructor, Stay, Threads
  <2>4. r' = [NoReceiver EXCEPT !.sock = "none", !.dec = "none", !.works = <<>>]
    BY <1>0, <1>2, <2>2, ZenonT(30) DEF destructor, Freed, RType
  <2>5. QED
    BY <1>2, <2>3, <2>4, FreedInv, Zenon DEF destructor
<1>3. CASE destructor_stop
  <2>0. at["main"].pc = "stop" /\ ~h.freed
    BY <1>3, InHandler, Zenon DEF destructor_stop, Threads
  <2>1. Moves([r EXCEPT !.run = FALSE], "join")
    BY <1>3, <2>0, Zenon DEF destructor_stop
  <2>2. /\ r' \in RType /\ ~r'.run /\ r'.jb = r.jb /\ r'.works = r.works
        /\ r'.thr = r.thr /\ r'.sock = r.sock /\ r'.estab = r.estab
    BY <1>0, <2>1, ZenonT(30) DEF RType
  <2>3. /\ at' \in [Threads -> AtType] /\ at'["main"].pc = "join"
        /\ at'["rx"] = at["rx"]
    BY <1>0, <2>1, ZenonT(30) DEF AtType, Pcs, Threads
  <2>4. Types'
    BY <1>0, <2>1, <2>2, <2>3, Zenon DEF Types
  <2>5. QED
    BY <2>0, <2>1, <2>2, <2>3, <2>4, ZenonT(30) DEF IInv, Hands, Order, Queue, Told, Gone, Threads
<1>4. CASE destructor_join
  <2>1. at["rx"] = Idle /\ r.sock = "none"
    BY <1>4, Zenon DEF destructor_join, IInv, Order
  <2>2. at' = [t \in Threads |-> Idle]
    BY <1>0, <1>4, <2>1, ZenonT(30) DEF destructor_join, Threads
  <2>3. r' = [NoReceiver EXCEPT !.sock = "none", !.dec = "none", !.works = <<>>]
    BY <1>0, <1>4, <2>1, ZenonT(30) DEF destructor_join, Released, Freed, RType
  <2>4. QED
    BY <1>4, <2>2, <2>3, FreedInv, ZenonT(30) DEF destructor_join
<1>5. QED
  BY <1>1, <1>2, <1>3, <1>4, Zenon

\* The RX thread starts its loop, or leaves it when it is told to.
LEMMA ThreadInv ==
  ASSUME Sizes, IInv, strm' = strm, rtprecv_thread \/ rtprecv_periodic
  PROVE  IInv'
<1>0. r \in RType /\ at' = at /\ h' = h /\ Types /\ r.thr \in {"new", "loop"}
  BY Zenon DEF IInv, Types, rtprecv_thread, rtprecv_periodic
<1>1. /\ r' \in RType /\ r'.run = r.run /\ r'.works = r.works /\ r'.jb = r.jb
      /\ r'.estab = r.estab
      /\ \/ r'.thr = "loop" /\ r'.sock \in {"rx", r.sock}
         \/ r'.thr = "failed" /\ r'.sock = r.sock /\ r.thr = "new"
         \/ r'.thr = "done" /\ r'.sock = "none" /\ ~r.run /\ at["rx"] = Idle
  <2>1. CASE rtprecv_thread
    <3>1. CASE r' = [r EXCEPT !.thr = "loop", !.sock = "rx"]
      BY <1>0, <3>1, ZenonT(30) DEF RType, Threads
    <3>2. CASE r.thr = "new" /\ r' = [r EXCEPT !.thr = "failed"]
      BY <1>0, <3>2, Zenon DEF RType
    <3>3. QED
      BY <2>1, <3>1, <3>2, Zenon DEF rtprecv_thread
  <2>2. CASE rtprecv_periodic /\ r.run
    <3>1. r' = [r EXCEPT !.start_rtcp = FALSE] /\ r.thr = "loop"
      BY <2>2, Zenon DEF rtprecv_periodic, PeriodicRun
    <3>2. r' \in RType /\ Same(r, r') /\ r'.jb = r.jb
      BY <1>0, <3>1, ZenonT(30) DEF RType, Same
    <3>3. QED
      BY <3>1, <3>2, Zenon DEF Same
  <2>3. CASE rtprecv_periodic /\ ~r.run
    BY <1>0, <2>3, ZenonT(30) DEF rtprecv_periodic, PeriodicEnd, RType
  <2>4. QED
    BY <2>1, <2>2, <2>3, Zenon
<1>2. Types'
  BY <1>0, <1>1, Zenon DEF Types
<1>3. Hands' /\ Order'
  BY <1>0, <1>1, Zenon DEF IInv, Hands, Order
<1>4. Queue' /\ (h.freed \/ Told)' /\ Gone' /\ ~h'.wild
  BY <1>0, <1>1, Zenon DEF IInv, Queue, Told, Gone
<1>5. QED
  BY <1>2, <1>3, <1>4, Zenon DEF IInv

-----------------------------------------------------------------------------
(* The theorem *)

LEMMA StepInv ==
  ASSUME Sizes, IInv, [Next]_vars
  PROVE  IInv'
<1>1. CASE UNCHANGED vars
  BY <1>1, ZenonT(30) DEF vars, IInv, Types, Hands, Order, Queue, Told, Gone
<1>2. ASSUME Next PROVE IInv'
  <2>0. strm' = strm
    BY <1>2, Zenon DEF Next
  <2>1. ASSUME NEW t \in Threads, Handler(t) PROVE IInv'
    BY <2>0, <2>1, ResyncInv, FilterInv, PutInv, DecodeInv, Zenon DEF Handler
  <2>2. ASSUME NEW t \in Threads, Loop(t) PROVE IInv'
    BY <2>0, <2>2, FirstInv, HandleRtcpInv, DecodeInv, Zenon DEF Loop
  <2>3. CASE Command
    BY <2>0, <2>3, MainInv, Zenon
  <2>4. CASE async_work_main \/ MnatConnected
    BY <2>0, <2>4, WorkInv, MnatInv, Zenon
  <2>5. CASE destructor \/ destructor_stop \/ destructor_join
    BY <2>0, <2>5, DestructorInv, Zenon
  <2>6. CASE rtprecv_thread \/ rtprecv_periodic
    BY <2>0, <2>6, ThreadInv, Zenon
  <2>7. QED
    BY <1>2, <2>1, <2>2, <2>3, <2>4, <2>5, <2>6, Zenon DEF Next, MainStep, RxStep, Command, Threads
<1>3. QED
  BY <1>1, <1>2, Zenon

\* One work of a kind, or none: what EstabOnce counts.
LEMMA CountWorks ==
  ASSUME Types
  PROVE  /\ NoEstab(r.works) => Cardinality(Pending("estab")) = 0
         /\ OneEstab(r.works) => Cardinality(Pending("estab")) = 1
<1>1. DOMAIN r.works = 1 .. Len(r.works)
  BY Lists DEF Types
<1>2. ASSUME NoEstab(r.works) PROVE Pending("estab") = {}
  BY <1>1, <1>2, Zenon DEF NoEstab, Pending
<1>3. ASSUME OneEstab(r.works) PROVE \E j : Pending("estab") = {j}
  <2>1. PICK j \in 1 .. Len(r.works) :
          /\ r.works[j][1] = "estab"
          /\ \A i \in 1 .. Len(r.works) : r.works[i][1] = "estab" => i = j
    BY <1>3, ZenonT(30) DEF OneEstab
  <2>2. Pending("estab") = {j}
    BY <1>1, <2>1, Zenon DEF Pending
  <2>3. QED
    BY <2>2, Zenon
<1>4. QED
  BY <1>2, <1>3, FS_EmptySet, FS_Singleton, ZenonT(30)

\* Whatever the two threads do and however they interleave, and for every size of
\* the jitter buffer and of the queue of works: the handlers of the stream and the
\* call run in the main thread, or while it waits for the RX thread; the call hears
\* exactly once that RTP is established; and after destructor() no work, timer,
\* socket or handler of the receiver is left.
THEOREM CallbacksSafe == Spec => []Callbacks
<1>1. Init => IInv
  BY SizesHold, InitInv, Zenon
<1>2. IInv /\ [Next]_vars => IInv'
  BY SizesHold, StepInv, Zenon
<1>3. IInv => Callbacks
  <2> SUFFICES ASSUME IInv PROVE Callbacks
    BY Zenon
  <2>1. TypeOK
    BY Zenon DEF IInv, Types, RType, AtType, Queue, TypeOK
  <2>2. HandlersOnMain /\ FreedQuiet
    BY Zenon DEF IInv, Gone, HandlersOnMain, FreedQuiet
  <2>3. EstabOnce
    BY CountWorks DEF IInv, Told, EstabOnce
  <2>4. QED
    BY <2>1, <2>2, <2>3, Zenon DEF Callbacks
<1>4. QED
  BY <1>1, <1>2, <1>3, PTL DEF Spec
-----------------------------------------------------------------------------
(* The decoder follows the peer *)

\* A work that sets a format: pass_pt_work() other than of a telephone event.
Fmt(w) == w[1] = "pt" /\ w[2] \in Pts
\* No work of a list sets a format, or the last one that does sets p.
NoFmt(l) == \A i \in 1 .. Len(l) : ~Fmt(l[i])
LastFmt(l, p) ==
  \E i \in 1 .. Len(l) :
    l[i] = <<"pt", p>> /\ \A j \in 1 .. Len(l) : Fmt(l[j]) => j <= i

\* The decoder has the format of the packets, or the last work about a format
\* will set it.  The RX thread that the main thread waits for sets it itself.
Format ==
  r.pt \in Pts =>
    IF at["main"].pc = "join"
    THEN h.reset \/ r.aupt = r.pt \/ ~NoFmt(r.works)
    ELSE LastFmt(r.works, r.pt) \/ (NoFmt(r.works) /\ (h.reset \/ r.aupt = r.pt))

\* Packets are in the hands of one thread, and of the source whose sequence
\* numbers are followed; the decoder has heard that source last, or will be told.
Sourced ==
  \/ h.freed \/ h.told \/ h.split
  \/ /\ \A i \in 1 .. Len(r.jb) : r.jb[i] = r.pseq
     /\ h.last \notin {0, r.pseq} => r.changed
     /\ \A t \in Threads :
          /\ at[t].pc \in {"filter", "put", "lost", "hand", "pass"} =>
               at[t].pkt.ssrc = r.pseq
          /\ at[t].pc = "resync" => r.jb = <<>>
     /\ r.dec = "main" \/ at["main"].pc \in {"frames", "lost", "hand"} => r.thr = "none"

\* The sockets are the main thread's only while there is no RX thread.
Alone ==
  /\ at["main"].pc \in {"flush", "resync", "filter", "put", "pass"} => r.thr = "none"
  /\ h.split => h.freed \/ r.thr # "none"

\* What every step keeps, given IInv.
Follow == DecodeKept /\ Format /\ Sourced /\ Alone /\ ~h.unflagged

-----------------------------------------------------------------------------
\* A flushed buffer has no element.
LEMMA NoElements == \A i \in 1 .. Len(<<>>) : FALSE
OBVIOUS

LEMMA AppendFmt ==
  ASSUME NEW l \in Seq(Works), NEW w \in Works, NEW p \in Pts
  PROVE  /\ Fmt(w) => LastFmt(Append(l, w), w[2])
         /\ ~Fmt(w) /\ NoFmt(l) => NoFmt(Append(l, w))
         /\ ~Fmt(w) /\ LastFmt(l, p) => LastFmt(Append(l, w), p)
<1> DEFINE m == Append(l, w)
<1>1. /\ m \in Seq(Works) /\ Len(m) = Len(l) + 1 /\ Len(l) \in Nat
      /\ m[Len(l) + 1] = w /\ \A i \in 1 .. Len(l) : m[i] = l[i]
  OBVIOUS
<1> HIDE DEF m
<1>2. ASSUME Fmt(w) PROVE LastFmt(m, w[2])
  <2>1. w = <<"pt", w[2]>>
    BY <1>2 DEF Fmt, Works
  <2>2. Len(l) + 1 \in 1 .. Len(m) /\ m[Len(l) + 1] = <<"pt", w[2]>>
    BY <1>1, <2>1
  <2>3. \A j \in 1 .. Len(m) : j <= Len(l) + 1
    BY <1>1
  <2>4. QED
    BY <2>2, <2>3, Zenon DEF LastFmt
<1>3. ASSUME ~Fmt(w), NoFmt(l) PROVE NoFmt(m)
  BY <1>1, <1>3 DEF NoFmt
<1>4. ASSUME ~Fmt(w), LastFmt(l, p) PROVE LastFmt(m, p)
  <2>1. PICK i \in 1 .. Len(l) :
          l[i] = <<"pt", p>> /\ \A j \in 1 .. Len(l) : Fmt(l[j]) => j <= i
    BY <1>4, Zenon DEF LastFmt
  <2>2. i \in 1 .. Len(m) /\ m[i] = <<"pt", p>>
    BY <1>1, <2>1
  <2>3. ASSUME NEW j \in 1 .. Len(m), Fmt(m[j]) PROVE j <= i
    BY <1>1, <1>4, <2>1, <2>3
  <2>4. QED
    BY <2>2, <2>3, Zenon DEF LastFmt
<1>5. QED
  BY <1>2, <1>3, <1>4, Zenon DEF m

LEMMA TailFmt ==
  ASSUME NEW l \in Seq(Works), l # <<>>, NEW p \in Pts
  PROVE  /\ NoFmt(l) => NoFmt(Tail(l)) /\ ~Fmt(Head(l))
         /\ LastFmt(l, p) => \/ LastFmt(Tail(l), p)
                             \/ NoFmt(Tail(l)) /\ Head(l) = <<"pt", p>>
<1> DEFINE m == Tail(l)
<1>1. /\ m \in Seq(Works) /\ Len(m) = Len(l) - 1 /\ Len(l) \in Nat \ {0}
      /\ \A i \in 1 .. Len(m) : m[i] = l[i + 1]
      /\ Head(l) = l[1]
  OBVIOUS
<1> HIDE DEF m
<1>2. NoFmt(l) => NoFmt(m) /\ ~Fmt(l[1])
  BY <1>1 DEF NoFmt
<1>3. ASSUME LastFmt(l, p) PROVE LastFmt(m, p) \/ (NoFmt(m) /\ l[1] = <<"pt", p>>)
  <2>1. PICK i \in 1 .. Len(l) :
          l[i] = <<"pt", p>> /\ \A j \in 1 .. Len(l) : Fmt(l[j]) => j <= i
    BY <1>3, Zenon DEF LastFmt
  <2>0. \A j \in 1 .. Len(m) : j + 1 \in 1 .. Len(l) /\ m[j] = l[j + 1]
    BY <1>1
  <2>2. CASE i = 1
    <3>1. ASSUME NEW j \in 1 .. Len(m), Fmt(m[j]) PROVE FALSE
      <4>1. j + 1 \in 1 .. Len(l) /\ Fmt(l[j + 1])
        BY <2>0, <3>1, Zenon
      <4>2. j + 1 <= 1
        BY <2>1, <2>2, <4>1, Zenon
      <4>3. QED
        BY <1>1, <4>2
    <3>2. QED
      BY <2>1, <2>2, <3>1, Zenon DEF NoFmt
  <2>3. CASE i # 1
    <3>1. i - 1 \in 1 .. Len(m) /\ (i - 1) + 1 = i
      BY <1>1, <2>1, <2>3
    <3>4. m[i - 1] = <<"pt", p>>
      BY <1>1, <2>1, <3>1, Zenon
    <3>2. ASSUME NEW j \in 1 .. Len(m), Fmt(m[j]) PROVE j <= i - 1
      <4>1. j + 1 \in 1 .. Len(l) /\ Fmt(l[j + 1])
        BY <2>0, <3>2, Zenon
      <4>2. j + 1 <= i
        BY <2>1, <4>1, Zenon
      <4>3. QED
        BY <1>1, <4>2
    <3>3. QED
      BY <3>1, <3>2, <3>4, Zenon DEF LastFmt
  <2>4. QED
    BY <2>2, <2>3, Zenon
<1>4. QED
  BY <1>1, <1>2, <1>3, Zenon DEF m

-----------------------------------------------------------------------------
\* What the handlers of the application leave alone.
Aside(y, z) ==
  /\ z.r.dec = y.r.dec /\ z.r.pseq = y.r.pseq /\ z.r.ssrc = y.r.ssrc
  /\ z.r.changed = y.r.changed /\ z.r.pt = y.r.pt
  /\ z.h.split = y.h.split /\ z.h.told = y.h.told /\ z.h.last = y.h.last
  /\ z.h.unflagged = y.h.unflagged

LEMMA HandleAside ==
  ASSUME NEW y \in Pair, NEW t \in Threads, NEW w \in Works,
         t = "main" \/ at["main"].pc = "join"
  PROVE  LET z == Handle(y, t, w)
         IN  /\ Aside(y, z)
             /\ IF Fmt(w) THEN z.r.aupt = w[2] /\ ~z.h.reset
                ELSE z.r.aupt = y.r.aupt /\ z.h.reset = y.h.reset
<1>1. CASE Fmt(w)
  <2>1. w[1] = "pt" /\ w[2] \in Pts /\ w[2] # Tel
    BY <1>1 DEF Fmt, Pts, Tel
  <2> DEFINE x == audio_decoder_set(y.r, w[2])
             z == [y EXCEPT !.r = x, !.h.reset = FALSE]
             j == IF w[2] = y.r.aupt THEN y.r.jb ELSE <<>>
  <2>2. y.r \in RType /\ y.h \in HType /\ j \in {y.r.jb, <<>>}
    BY Zenon DEF Pair
  <2>3. x = [y.r EXCEPT !.aupt = w[2], !.jb = j]
    BY Zenon DEF audio_decoder_set
  <2>4. /\ x \in RType /\ x.dec = y.r.dec /\ x.pseq = y.r.pseq /\ x.ssrc = y.r.ssrc
        /\ x.changed = y.r.changed /\ x.pt = y.r.pt /\ x.aupt = w[2]
    <3>0. w[2] \in Pts \cup {0}
      BY <2>1, Zenon
    <3> HIDE DEF j, x
    <3>1. x \in RType
      BY <2>2, <2>3, <3>0, SetJb, Zenon
    <3>2. QED
      BY <2>2, <2>3, <3>1 DEF RType
  <2> HIDE DEF x, j
  <2>5. z \in Pair /\ z.r = x /\ z.h = [y.h EXCEPT !.reset = FALSE]
    BY <2>2, <2>4, ZenonT(30) DEF Pair, HType
  <2>6. Handle(y, t, w) = z
    BY <2>1, <2>5, CalledSame, Zenon DEF Handle, stream_pt_handler, x
  <2> HIDE DEF z
  <2>7. QED
    BY <1>1, <2>2, <2>4, <2>5, <2>6, Zenon DEF HType, Aside
<1>2. CASE ~Fmt(w) /\ w[1] = "estab"
  <2> DEFINE z == [y EXCEPT !.h.heard = @ + 1]
  <2>1. z \in Pair /\ z.r = y.r /\ z.h = [y.h EXCEPT !.heard = @ + 1]
    BY DEF Pair, HType
  <2>2. Handle(y, t, w) = z
    BY <1>2, <2>1, CalledSame, Zenon DEF Handle
  <2> HIDE DEF z
  <2>3. QED
    BY <1>2, <2>1, <2>2, Zenon DEF Pair, HType, Aside
<1>3. CASE ~Fmt(w) /\ w[1] # "estab"
  <2>1. Handle(y, t, w) = y
    BY <1>3, CalledSame DEF Handle, stream_pt_handler, Fmt, Works, Pts, Tel
  <2>2. QED
    BY <1>3, <2>1, Zenon DEF Aside
<1>4. QED
  BY <1>1, <1>2, <1>3, Zenon

LEMMA PassAside ==
  ASSUME NEW y \in Pair, NEW t \in Threads, NEW w \in Works,
         y.r.run \/ t = "main" \/ at["main"].pc = "join"
  PROVE  LET z == pass_work(y, t, w)
         IN  /\ Aside(y, z)
             /\ IF Fmt(w) /\ ~y.r.run THEN z.r.aupt = w[2] /\ ~z.h.reset
                ELSE z.r.aupt = y.r.aupt /\ z.h.reset = y.h.reset
<1>1. CASE y.r.run
  <2> DEFINE x == [y.r EXCEPT !.works = Append(@, w)]
  <2>1. y.r \in RType /\ y.h \in HType /\ Append(y.r.works, w) \in Seq(Works)
    BY DEF Pair, RType
  <2>2. /\ x.dec = y.r.dec /\ x.pseq = y.r.pseq /\ x.ssrc = y.r.ssrc
        /\ x.changed = y.r.changed /\ x.pt = y.r.pt /\ x.aupt = y.r.aupt
    BY <2>1, Zenon DEF RType
  <2> HIDE DEF x
  <2>3. pass_work(y, t, w) = [y EXCEPT !.r = x]
    BY <1>1, Zenon DEF pass_work, x, Pair, RType
  <2>4. QED
    BY <1>1, <2>2, <2>3, Zenon DEF Pair, Aside
<1>2. CASE ~y.r.run
  <2>1. pass_work(y, t, w) = Handle(y, t, w)
    BY <1>2, Zenon DEF pass_work
  <2>2. QED
    BY <1>2, <2>1, HandleAside
<1>3. QED
  BY <1>1, <1>2, Zenon

-----------------------------------------------------------------------------
(* The steps of a handler *)

Decoding == {"frames", "lost", "hand"}
Receiving == {"flush", "resync", "filter", "put", "pass"}

LEMMA Moved ==
  ASSUME IInv, NEW t \in Threads, NEW a, GoesTo(t, a)
  PROVE  /\ \A u \in Threads : at'[u] = IF u = t THEN a ELSE at[u]
         /\ at'["main"].pc = "join" <=> at["main"].pc = "join"
         /\ ~h.freed
  BY Zenon DEF GoesTo, IInv, Types, Threads

\* The timer stays, or the thread that decodes goes on or sets it.
LEMMA KeepDecode ==
  ASSUME IInv, DecodeKept, strm' = strm, NEW t \in Threads, NEW a, GoesTo(t, a),
         r'.thr = r.thr, r'.dec = r.dec \/ r'.dec # "none",
         (r'.estab => r.estab) \/ r'.dec # "none",
         at[t].pc \in Decoding => a.pc \in Decoding \/ r'.dec # "none"
  PROVE  DecodeKept'
  BY Moved DEF DecodeKept, InFrames, Decoding

LEMMA KeepFormat ==
  ASSUME IInv, Format, NEW t \in Threads, NEW a, GoesTo(t, a),
         r'.pt = r.pt, r'.aupt = r.aupt, r'.works = r.works, h'.reset = h.reset
  PROVE  Format'
  BY Moved, Zenon DEF Format

LEMMA KeepAlone ==
  ASSUME IInv, Alone, NEW t \in Threads, NEW a, GoesTo(t, a),
         r'.thr = r.thr, h'.split = h.split,
         t = "main" /\ a.pc \in Receiving => r.thr = "none"
  PROVE  Alone'
  BY Moved, Zenon DEF Alone, Receiving, Threads

\* The handlers of one thread have all the packets.
Clear == ~h.freed /\ ~h.told /\ ~h.split

LEMMA OneHand ==
  ASSUME IInv, Sourced, Alone, Clear, NEW t \in Threads, NEW u \in Threads, t # u,
         t = "rx" => r.thr = "loop", t = "main" => r.thr = "none"
  PROVE  at[u].pc \in {"idle", "stop", "join", "rtcp"}
<1>1. CASE t = "main"
  BY <1>1 DEF IInv, Order, Idle, Threads
<1>2. CASE t = "rx"
  BY <1>2, Zenon DEF IInv, Types, AtType, Pcs, Sourced, Alone, Clear, Threads
<1>3. QED
  BY <1>1, <1>2, Zenon DEF Threads

\* A handler of the main thread that has a packet has it alone.
LEMMA MainAlone ==
  ASSUME IInv, Sourced, Alone, Clear, NEW t \in Threads,
         at[t].pc \in Receiving \cup Decoding
  PROVE  /\ t = "main" => r.thr = "none"
         /\ t = "rx" => r.thr = "loop"
  BY InHandler, Zenon DEF Sourced, Alone, Clear, Receiving, Decoding

\* What a step shows of the sources, if they can be told apart.
LEMMA KeepSourced ==
  ASSUME IInv, Sourced, Alone, NEW t \in Threads, NEW a, GoesTo(t, a),
         h.told => h'.told, h'.split = h.split, r'.thr = r.thr,
         Clear /\ ~h'.told =>
           /\ t = "main" => r.thr = "none"
           /\ \A i \in 1 .. Len(r'.jb) : r'.jb[i] = r'.pseq
           /\ h'.last \notin {0, r'.pseq} => r'.changed
           /\ a.pc \in {"filter", "put", "lost", "hand", "pass"} => a.pkt.ssrc = r'.pseq
           /\ a.pc = "resync" => r'.jb = <<>>
           /\ r'.dec = "main" => r.dec = "main" \/ t = "main"
  PROVE  Sourced'
<1>1. CASE ~Clear \/ h'.told
  <2>1. h'.told \/ h'.split
    BY <1>1, Zenon DEF Clear, GoesTo
  <2>2. QED
    BY <2>1, Zenon DEF Sourced
<1>2. CASE Clear /\ ~h'.told
  <2>1. /\ t = "main" => r.thr = "none"
        /\ \A i \in 1 .. Len(r'.jb) : r'.jb[i] = r'.pseq
        /\ h'.last \notin {0, r'.pseq} => r'.changed
        /\ a.pc \in {"filter", "put", "lost", "hand", "pass"} => a.pkt.ssrc = r'.pseq
        /\ a.pc = "resync" => r'.jb = <<>>
        /\ r'.dec = "main" => r.dec = "main" \/ t = "main"
    BY <1>2, Zenon
  <2>2. t = "rx" => r.thr = "loop"
    BY Zenon DEF GoesTo
  <2>3. \A u \in Threads : u # t => at'[u].pc \in {"idle", "stop", "join", "rtcp"}
    BY <1>2, <2>1, <2>2, OneHand, Moved, ZenonT(30)
  <2>4. at'[t] = a
    BY Moved, Zenon
  <2>5. r'.dec = "main" \/ at'["main"].pc \in {"frames", "lost", "hand"} => r'.thr = "none"
    BY <1>2, <2>1, <2>3, <2>4, Zenon DEF Sourced, Clear, Threads
  <2>6. QED
    BY <2>1, <2>3, <2>4, <2>5, Zenon DEF Sourced
<1>3. QED
  BY <1>1, <1>2, Zenon

LEMMA ResyncFollow ==
  ASSUME IInv, Follow, strm' = strm, NEW t \in Threads, resync_flush(t) \/ rtprecv_resync(t)
  PROVE  Follow'
<1> USE InHandler, RoomInHandler DEF Follow
<1>0. at[t].pc \in {"flush", "resync"} /\ r \in RType /\ h \in HType /\ h' = h
      /\ at[t].pkt.ssrc \in Ssrcs
  BY Zenon DEF resync_flush, rtprecv_resync, IInv, Types, Hands
<1>1. Clear => (t = "main" => r.thr = "none")
  BY <1>0, MainAlone, Zenon DEF Receiving
<1>2. CASE resync_flush(t)
  <2> DEFINE a == [pc |-> "resync", pkt |-> at[t].pkt, n |-> 0]
  <2>1. GoesTo(t, a)
    BY <1>0, <1>2, Zenon DEF resync_flush, Go, GoesTo, AtType, Pcs, IInv, Hands
  <2>2. a.pc = "resync"
    BY Zenon
  <2> HIDE DEF a
  <2>3. /\ r'.jb = <<>> /\ Same(r, r') /\ r'.dec = r.dec /\ r'.pt = r.pt
        /\ r'.aupt = r.aupt /\ r'.pseq = r.pseq /\ r'.changed = r.changed
    BY <1>0, <1>2, Zenon DEF resync_flush, RType, Same
  <2>4. DecodeKept'
    BY <1>0, <2>1, <2>3, KeepDecode, Zenon DEF Same, Decoding
  <2>5. Format' /\ Alone'
    BY <1>0, <2>1, <2>2, <2>3, KeepFormat, KeepAlone, ZenonT(30) DEF Same, Receiving, Alone
  <2>6. Sourced'
    BY <1>0, <1>1, <2>1, <2>2, <2>3, KeepSourced DEF Same, Sourced, Clear
  <2>7. QED
    BY <1>0, <2>4, <2>5, <2>6, Zenon
<1>3. CASE rtprecv_resync(t)
  <2> DEFINE a == [pc |-> "filter", pkt |-> at[t].pkt, n |-> 0]
  <2>1. GoesTo(t, a)
    BY <1>0, <1>3, Zenon DEF rtprecv_resync, Go, GoesTo, AtType, Pcs, IInv, Hands
  <2>2. a.pc = "filter" /\ a.pkt = at[t].pkt
    BY Zenon
  <2> HIDE DEF a
  <2>3. /\ r'.jb = r.jb /\ Same(r, r') /\ r'.dec = r.dec /\ r'.pt = 0
        /\ r'.pseq = at[t].pkt.ssrc /\ r'.changed
    BY <1>0, <1>3, Zenon DEF rtprecv_resync, Resynced, RType, Same
  <2>4. DecodeKept'
    BY <1>0, <2>1, <2>3, KeepDecode, ZenonT(30) DEF Same, Decoding
  <2>5. Format'
    BY <2>3 DEF Format, Pts
  <2>6. Alone'
    BY <1>0, <2>1, <2>2, <2>3, KeepAlone, ZenonT(30) DEF Same, Receiving, Alone
  <2>7. at[t].pc = "resync"
    BY <1>3, Zenon DEF rtprecv_resync
  <2>8. Clear => r'.jb = <<>>
    BY <2>3, <2>7, ZenonT(30) DEF Sourced, Clear
  <2>9. Sourced'
    BY <1>0, <1>1, <2>1, <2>2, <2>3, <2>8, KeepSourced DEF Same, Clear
  <2>10. QED
    BY <1>0, <2>4, <2>5, <2>6, <2>9, ZenonT(30)
<1>4. QED
  BY <1>2, <1>3, Zenon

\* jbuf_put() of a source the buffer has, or into an empty one.
LEMMA JbufOneSource ==
  ASSUME Sizes, NEW s \in Ssrcs, NEW l \in Seq(Ssrcs), Len(l) <= JbufMax,
         \A i \in 1 .. Len(l) : l[i] = s
  PROVE  \A i \in 1 .. Len(jbuf_put(l, s)) : jbuf_put(l, s)[i] = s
<1>1. ~(l # <<>> /\ l[1] # s)
  OBVIOUS
<1>2. CASE Len(l) = JbufMax
  <2>1. l # <<>>
    BY <1>2, Zenon DEF Sizes
  <2>2. /\ Tail(l) \in Seq(Ssrcs) /\ Len(Tail(l)) = Len(l) - 1
        /\ \A i \in 1 .. Len(Tail(l)) : Tail(l)[i] = l[i + 1]
    BY <2>1
  <2>3. \A i \in 1 .. Len(Tail(l)) : Tail(l)[i] = s
    BY <2>2
  <2> DEFINE m == Tail(l)
  <2>4. jbuf_put(l, s) = Append(m, s)
    BY <1>1, <1>2, Zenon DEF jbuf_put
  <2>7. m \in Seq(Ssrcs) /\ \A i \in 1 .. Len(m) : m[i] = s
    BY <2>2, <2>3, Zenon
  <2> HIDE DEF m
  <2>5. \A i \in 1 .. Len(Append(m, s)) : Append(m, s)[i] = s
    BY <2>7
  <2>6. QED
    BY <2>4, <2>5, Zenon
<1>3. CASE Len(l) # JbufMax
  BY <1>1, <1>3 DEF jbuf_put
<1>4. QED
  BY <1>2, <1>3, Zenon

LEMMA PutFollow ==
  ASSUME Sizes, IInv, Follow, strm' = strm, NEW t \in Threads, PutPacket(t)
  PROVE  Follow'
<1> USE InHandler DEF Follow
<1>0. at[t].pc = "put" /\ r \in RType /\ h \in HType /\ at[t].pkt.ssrc \in Ssrcs
      /\ h' = h /\ Len(r.jb) <= JbufMax /\ r.jb \in Seq(Ssrcs)
  BY Lists, Zenon DEF PutPacket, IInv, Types, Hands, Queue
<1>1. Clear => (t = "main" => r.thr = "none") /\ at[t].pkt.ssrc = r.pseq
  BY <1>0, MainAlone, Zenon DEF Receiving, Sourced, Clear
<1>2. CASE strm.jbuf
  <2>1. GoesTo(t, Idle)
    BY <1>0, <1>2, IdleOk, Zenon DEF PutPacket, Done, GoesTo, Idle
  <2>3. r' = [r EXCEPT !.jb = jbuf_put(r.jb, at[t].pkt.ssrc)]
    BY <1>0, <1>2, Zenon DEF PutPacket
  <2>4. /\ Same(r, r') /\ r'.dec = r.dec /\ r'.pt = r.pt /\ r'.aupt = r.aupt
        /\ r'.pseq = r.pseq /\ r'.changed = r.changed
        /\ r'.jb = jbuf_put(r.jb, at[t].pkt.ssrc)
    BY <1>0, <2>3, Zenon DEF RType, Same
  <2>5. DecodeKept' /\ Format' /\ Alone'
    BY <1>0, <2>1, <2>4, KeepDecode, KeepFormat, KeepAlone, ZenonT(30) DEF Same, Decoding, Receiving, Idle
  <2>6. ASSUME Clear PROVE \A i \in 1 .. Len(r'.jb) : r'.jb[i] = r'.pseq
    <3>1. \A i \in 1 .. Len(r.jb) : r.jb[i] = at[t].pkt.ssrc
      BY <1>1, <2>6, ZenonT(30) DEF Sourced, Clear
    <3>2. \A i \in 1 .. Len(r'.jb) : r'.jb[i] = at[t].pkt.ssrc
      BY <1>0, <2>4, <3>1, JbufOneSource
    <3>3. QED
      BY <1>1, <2>4, <2>6, <3>2, ZenonT(30)
  <2>7. Sourced'
    BY <1>0, <1>1, <2>1, <2>4, <2>6, KeepSourced, ZenonT(30) DEF Same, Idle, Sourced, Clear
  <2>8. QED
    BY <1>0, <2>5, <2>7, Zenon
<1>3. CASE ~strm.jbuf
  <2> DEFINE a == [pc |-> "pass", pkt |-> at[t].pkt, n |-> 0]
  <2>1. GoesTo(t, a) /\ r' = r
    BY <1>0, <1>3, Zenon DEF PutPacket, Go, GoesTo, AtType, Pcs
  <2>2. a.pc = "pass" /\ a.pkt = at[t].pkt
    BY Zenon
  <2> HIDE DEF a
  <2>3. t = "main" => r.thr = "none"
    BY <1>0, Zenon DEF Alone
  <2>4. DecodeKept' /\ Format' /\ Alone'
    BY <1>0, <2>1, <2>3, KeepDecode, KeepFormat, KeepAlone, ZenonT(30) DEF Decoding
  <2>5. Sourced'
    BY <1>0, <1>1, <2>1, <2>2, KeepSourced, ZenonT(30) DEF Sourced, Clear
  <2>6. QED
    BY <1>0, <2>1, <2>4, <2>5, ZenonT(30)
<1>4. QED
  BY <1>2, <1>3, Zenon

LEMMA HandleRtcpFollow ==
  ASSUME Sizes, IInv, Follow, strm' = strm, NEW t \in Threads, rtprecv_handle_rtcp(t)
  PROVE  Follow'
<1> USE ReadyLoop DEF Follow
<1> DEFINE a == [pc |-> "rtcp", pkt |-> NoPacket, n |-> 0]
<1>1. GoesTo(t, a)
  BY DEF rtprecv_handle_rtcp, Go, GoesTo, AtType, Pcs, NoPacket, From, Idle, Sizes,
     IInv, Types, RType, Threads
<1>2. r' = r /\ h' = h /\ at[t] = Idle /\ (t = "main" => r.thr = "none") /\ a.pc = "rtcp"
  BY ZenonT(30) DEF rtprecv_handle_rtcp, IInv, Order
<1> HIDE DEF a
<1>3. DecodeKept' /\ Format' /\ Alone'
  BY <1>1, <1>2, KeepDecode, KeepFormat, KeepAlone DEF Decoding, Idle, Receiving
<1>4. Sourced'
  BY <1>1, <1>2, KeepSourced, ZenonT(30) DEF Sourced, Clear
<1>5. QED
  BY <1>2, <1>3, <1>4, ZenonT(30)

\* The decoder is handed a packet of the source in h.pseq, and is told if it has
\* heard another one before.
LEMMA HeardFollow ==
  ASSUME IInv, Sourced, ~h.unflagged, NEW t \in Threads, at[t].pc \in {"hand", "pass"},
         h' = Heard(h, r, at[t].pkt)
  PROVE  /\ h'.split = h.split /\ h'.told = h.told /\ h'.reset = h.reset
         /\ h'.freed = h.freed /\ ~h'.unflagged
         /\ Clear => h'.last = r.pseq
<1>0. h \in HType /\ ~h.freed
  BY InHandler, Zenon DEF IInv, Types
<1>1. CASE h.split \/ h.told
  <2>1. h' = [h EXCEPT !.last = 0]
    BY <1>1, Zenon DEF Heard
  <2>2. QED
    BY <1>0, <1>1, <2>1, Zenon DEF HType, Clear
<1>2. CASE ~(h.split \/ h.told)
  <2> DEFINE b == h.unflagged \/ (h.last \notin {0, at[t].pkt.ssrc} /\ ~r.changed)
  <2>1. at[t].pkt.ssrc = r.pseq /\ (h.last \notin {0, r.pseq} => r.changed)
    BY <1>0, <1>2, Zenon DEF Sourced
  <2>2. b = FALSE
    BY <2>1, Zenon
  <2>3. h' = [h EXCEPT !.last = at[t].pkt.ssrc, !.unflagged = b]
    BY <1>2, Zenon DEF Heard
  <2> HIDE DEF b
  <2>4. QED
    BY <1>0, <2>1, <2>2, <2>3, ZenonT(30) DEF HType
<1>3. QED
  BY <1>1, <1>2, Zenon

LEMMA DecodeFollow ==
  ASSUME Sizes, IInv, Follow, strm' = strm, NEW t \in Threads,
         \/ decode_tmr(t) \/ decode_end(t) \/ decode_get(t) \/ lostcalc(t)
         \/ decode_hand(t) \/ decode_last(t) \/ PassPacket(t)
  PROVE  Follow'
<1> USE DEF Follow, Same
<1>0. r \in RType /\ h \in HType /\ at \in [Threads -> AtType] /\ Len(r.jb) <= JbufMax
      /\ r.jb \in Seq(Ssrcs) /\ JbufMax \in Nat /\ at[t] \in AtType
      /\ at[t].pkt.ssrc \in Ssrcs \cup {0} /\ at[t].n \in Nat
  BY Lists, Zenon DEF IInv, Types, Queue, Sizes, AtType
<1>9. ASSUME Clear, at[t].pc \in Receiving \cup Decoding PROVE t = "main" => r.thr = "none"
  BY <1>9, MainAlone, Zenon
<1>1. CASE decode_tmr(t)
  <2>1. /\ Same(r, r') /\ r'.dec = "none" /\ r'.jb = r.jb /\ r'.pt = r.pt /\ r'.aupt = r.aupt
        /\ r'.pseq = r.pseq /\ r'.changed = r.changed /\ h' = h /\ r.dec = t
    BY <1>0, <1>1, Zenon DEF decode_tmr, RType
  <2>2. PICK a : /\ a \in {Idle, [pc |-> "frames", pkt |-> NoPacket, n |-> Len(r.jb)]}
                 /\ at' = [at EXCEPT ![t] = a] /\ (strm.jbuf => a.pc = "frames")
    BY <1>1, ZenonT(30) DEF decode_tmr, Go, Done
  <2>3. Len(r.jb) \in Nat
    BY <1>0
  <2>4. a \in AtType /\ a.pc \in {"idle", "frames"}
    BY <2>2, <2>3, IdleOk DEF AtType, NoPacket, From, Pcs, Idle
  <2>5. GoesTo(t, a)
    BY <1>1, <2>2, <2>4, ReadyLoop DEF decode_tmr, GoesTo, Idle
  <2>6. DecodeKept'
    BY <2>2, <2>5, Moved DEF DecodeKept, InFrames
  <2>7. Format' /\ Alone'
    BY <2>1, <2>4, <2>5, KeepFormat, KeepAlone, ZenonT(30) DEF Receiving
  <2>8. Clear => (t = "main" => r.thr = "none")
    BY <2>1, Zenon DEF Clear, Sourced
  <2>9. Sourced'
    BY <2>1, <2>4, <2>5, <2>8, KeepSourced, ZenonT(30) DEF Clear, Sourced
  <2>10. QED
    BY <2>1, <2>6, <2>7, <2>9, ZenonT(30)
<1>2. CASE decode_end(t)
  <2>1. /\ Same(r, r') /\ r'.dec = t /\ r'.jb = r.jb /\ r'.pt = r.pt /\ r'.aupt = r.aupt
        /\ r'.pseq = r.pseq /\ r'.changed = r.changed /\ h' = h /\ at[t].pc = "frames"
    BY <1>0, <1>2, ZenonT(30) DEF decode_end, FramesEnd, RType
  <2>2. GoesTo(t, Idle) /\ t # "none" /\ Idle.pc = "idle"
    BY <1>0, <1>2, IdleOk, InHandler, ZenonT(30) DEF decode_end, Done, GoesTo, Idle, Threads
  <2>3. DecodeKept' /\ Format' /\ Alone'
    BY <2>1, <2>2, KeepDecode, KeepFormat, KeepAlone, ZenonT(30) DEF Receiving
  <2>4. Sourced'
    BY <1>9, <2>1, <2>2, KeepSourced, ZenonT(30) DEF Clear, Sourced, Decoding
  <2>5. QED
    BY <2>1, <2>3, <2>4, ZenonT(30)
<1>3. CASE decode_get(t)
  <2> DEFINE a == [pc |-> "lost", pkt |-> From(Head(r.jb)), n |-> at[t].n]
  <2>0. /\ r.jb # <<>> /\ Tail(r.jb) \in Seq(Ssrcs) /\ Head(r.jb) \in Ssrcs
        /\ Head(r.jb) = r.jb[1] /\ Len(r.jb) \in Nat \ {0} /\ Len(Tail(r.jb)) = Len(r.jb) - 1
        /\ \A i \in 1 .. Len(Tail(r.jb)) : Tail(r.jb)[i] = r.jb[i + 1]
    BY <1>0, <1>3 DEF decode_get
  <2>1. /\ Same(r, r') /\ r'.dec = r.dec /\ r'.jb = Tail(r.jb) /\ r'.pt = r.pt
        /\ r'.aupt = r.aupt /\ r'.pseq = r.pseq /\ r'.changed = r.changed /\ h' = h
        /\ at[t].pc = "frames"
    BY <1>0, <1>3, <2>0, Zenon DEF decode_get, RType
  <2>2. GoesTo(t, a)
    BY <1>0, <1>3, <2>0, InHandler, ZenonT(30) DEF decode_get, Go, GoesTo, From, AtType, Pcs
  <2>3. a.pc = "lost" /\ a.pkt.ssrc = Head(r.jb)
    BY Zenon DEF From
  <2> HIDE DEF a
  <2>4. DecodeKept' /\ Format' /\ Alone'
    BY <2>1, <2>2, <2>3, KeepDecode, KeepFormat, KeepAlone, ZenonT(30) DEF Receiving, Decoding
  <2>5. ASSUME Clear PROVE /\ a.pkt.ssrc = r.pseq
                           /\ \A i \in 1 .. Len(r'.jb) : r'.jb[i] = r.pseq
    <3>1. \A i \in 1 .. Len(r.jb) : r.jb[i] = r.pseq
      BY <2>5, Zenon DEF Clear, Sourced
    <3>2. QED
      BY <2>0, <2>1, <2>3, <3>1
  <2>6. Sourced'
    BY <1>9, <2>1, <2>2, <2>3, <2>5, KeepSourced, ZenonT(30) DEF Clear, Sourced, Decoding
  <2>7. QED
    BY <2>1, <2>4, <2>6, Zenon
<1>4. CASE lostcalc(t)
  <2> DEFINE a == [pc |-> "hand", pkt |-> at[t].pkt, n |-> at[t].n]
  <2>0. PICK q \in Ssrcs \cup {0} :
          r' = [r EXCEPT !.pseq = q] /\ q \in {r.pseq, at[t].pkt.ssrc}
    BY <1>0, <1>4, ZenonT(30) DEF lostcalc, RType
  <2>1. /\ Same(r, r') /\ r'.dec = r.dec /\ r'.jb = r.jb /\ r'.pt = r.pt
        /\ r'.aupt = r.aupt /\ r'.pseq = q /\ r'.changed = r.changed /\ h' = h
        /\ at[t].pc = "lost"
    BY <1>0, <1>4, <2>0, Zenon DEF lostcalc, RType
  <2>2. GoesTo(t, a)
    BY <1>0, <1>4, InHandler, ZenonT(30) DEF lostcalc, Go, GoesTo, AtType, Pcs
  <2>3. a.pc = "hand" /\ a.pkt = at[t].pkt
    BY Zenon
  <2> HIDE DEF a
  <2>4. DecodeKept' /\ Format' /\ Alone'
    BY <2>1, <2>2, <2>3, KeepDecode, KeepFormat, KeepAlone, ZenonT(30) DEF Receiving, Decoding
  <2>5. Clear => q = r.pseq /\ a.pkt.ssrc = r.pseq
    BY <2>0, <2>1, <2>3, Zenon DEF Clear, Sourced
  <2>6. Sourced'
    BY <1>9, <2>1, <2>2, <2>3, <2>5, KeepSourced, ZenonT(30) DEF Clear, Sourced, Decoding
  <2>7. QED
    BY <2>1, <2>4, <2>6, Zenon
<1>5. CASE decode_hand(t)
  <2> DEFINE a == [pc |-> "frames", pkt |-> NoPacket, n |-> at[t].n - 1]
  <2>0. h' = Heard(h, r, at[t].pkt) /\ at[t].pc = "hand"
    BY <1>5, Zenon DEF decode_hand, handle_rtp
  <2>1. /\ Same(r, r') /\ r'.dec = r.dec /\ r'.jb = r.jb /\ r'.pt = r.pt
        /\ r'.aupt = r.aupt /\ r'.pseq = r.pseq
    BY <1>0, <1>5, ZenonT(30) DEF decode_hand, handle_rtp, RType
  <2>2. GoesTo(t, a)
    BY <1>0, <1>5, InHandler DEF decode_hand, Go, GoesTo, AtType, Pcs, NoPacket, From
  <2>3. a.pc = "frames"
    BY Zenon
  <2> HIDE DEF a
  <2>4. /\ h'.split = h.split /\ h'.told = h.told /\ h'.reset = h.reset
        /\ ~h'.unflagged /\ (Clear => h'.last = r.pseq)
    BY <2>0, HeardFollow, Zenon
  <2>5. DecodeKept' /\ Format' /\ Alone'
    BY <2>0, <2>1, <2>2, <2>3, <2>4, KeepDecode, KeepFormat, KeepAlone, ZenonT(30) DEF Receiving, Decoding
  <2>6. Sourced'
    BY <1>9, <2>0, <2>1, <2>2, <2>3, <2>4, KeepSourced, ZenonT(30)
       DEF Clear, Sourced, Decoding
  <2>7. QED
    BY <2>4, <2>5, <2>6, Zenon
<1>6. CASE decode_last(t) \/ PassPacket(t)
  <2>0. h' = Heard(h, r, at[t].pkt) /\ at[t].pc \in {"hand", "pass"}
    BY <1>6, Zenon DEF decode_last, PassPacket, handle_rtp
  <2>1. /\ Same(r, r') /\ r'.jb = r.jb /\ r'.pt = r.pt
        /\ r'.aupt = r.aupt /\ r'.pseq = r.pseq
        /\ r'.dec = t \/ (r'.dec = r.dec /\ at[t].pc = "pass")
    <3>1. CASE decode_last(t)
      BY <1>0, <3>1, Zenon DEF decode_last, FramesEnd, RType
    <3>2. CASE PassPacket(t)
      BY <1>0, <3>2, Zenon DEF PassPacket, handle_rtp, RType
    <3>3. QED
      BY <1>6, <3>1, <3>2, Zenon
  <2>2. GoesTo(t, Idle) /\ Idle.pc = "idle" /\ t # "none"
    BY <1>0, <1>6, IdleOk, InHandler, ZenonT(30) DEF decode_last, PassPacket, Done, GoesTo, Idle, Threads
  <2>4. /\ h'.split = h.split /\ h'.told = h.told /\ h'.reset = h.reset
        /\ ~h'.unflagged /\ (Clear => h'.last = r.pseq)
    BY <2>0, HeardFollow, Zenon
  <2>5. DecodeKept' /\ Format' /\ Alone'
    BY <2>0, <2>1, <2>2, <2>4, KeepDecode, KeepFormat, KeepAlone, ZenonT(30) DEF Receiving, Decoding
  <2>6. Sourced'
    BY <1>9, <2>0, <2>1, <2>2, <2>4, KeepSourced, ZenonT(30)
       DEF Clear, Sourced, Decoding, Receiving
  <2>7. QED
    BY <2>4, <2>5, <2>6, Zenon
<1>8. QED
  BY <1>1, <1>2, <1>3, <1>4, <1>5, <1>6, ZenonT(30)

\* A work other than one about a format leaves the format where it is.
LEMMA OtherWork ==
  ASSUME IInv, Format, NEW w \in Works, ~Fmt(w),
         at'["main"].pc = "join" <=> at["main"].pc = "join",
         r'.pt = r.pt, r'.aupt = r.aupt, h'.reset = h.reset,
         r'.works = IF r.run THEN Append(r.works, w) ELSE r.works
  PROVE  Format'
<1>1. r.works \in Seq(Works)
  BY Lists, Zenon DEF IInv, Types
<1>2. CASE r.run
  <2>1. at["main"].pc # "join"
    BY <1>2, Zenon DEF IInv, Order
  <2>2. QED
    BY <1>1, <1>2, <2>1, AppendFmt, ZenonT(30) DEF Format
<1>3. CASE ~r.run
  BY <1>3, Zenon DEF Format
<1>4. QED
  BY <1>2, <1>3, Zenon

LEMMA FilterFollow ==
  ASSUME Sizes, IInv, Follow, strm' = strm, NEW t \in Threads, FilterPt(t) \/ pass_rtcp_work(t)
  PROVE  Follow'
<1> USE DEF Follow
<1>0. r \in RType /\ h \in HType /\ Len(r.jb) <= JbufMax /\ r.works \in Seq(Works)
  BY Lists, Zenon DEF IInv, Types, Queue
<1>1. CASE FilterPt(t)
  <2> DEFINE p == at[t].pkt
             x == [r EXCEPT !.pt = p.pt]
             w == <<"pt", p.pt>>
             put == [pc |-> "put", pkt |-> From(p.ssrc), n |-> 0]
             y == On(x, h)
             z == pass_work(y, t, w)
  <2>1. at[t].pc = "filter" /\ p.ssrc \in Ssrcs /\ p.pt \in Pts \cup {Tel}
    BY <1>1, Zenon DEF FilterPt, IInv, Hands
  <2>2. PICK a : /\ a \in {Idle, put} /\ at' = [at EXCEPT ![t] = a]
                 /\ \/ Becomes(z)
                    \/ a = put /\ r' = r /\ h' = h
    BY <1>1, ZenonT(30) DEF FilterPt, Go, Done
  <2>3. put \in AtType /\ put.pkt.ssrc = p.ssrc /\ put.pc = "put"
    BY <2>1, Zenon DEF AtType, Pcs, From
  <2>4. GoesTo(t, a)
    BY <2>1, <2>2, <2>3, IdleOk, InHandler DEF GoesTo, Idle
  <2>5. x \in RType /\ Same(r, x) /\ x.jb = r.jb /\ x.dec = r.dec /\ x.pseq = r.pseq
        /\ x.changed = r.changed /\ x.pt = p.pt /\ x.aupt = r.aupt
    BY <1>0, <2>1 DEF RType, Same
  <2>6. w \in Works /\ w[1] # "estab" /\ w[2] = p.pt /\ (Fmt(w) <=> p.pt \in Pts)
    BY <2>1, Zenon DEF Works, Fmt
  <2>7. a.pc \in {"put", "idle"} /\ (a.pc = "put" => a.pkt.ssrc = p.ssrc)
    BY <2>2, <2>3 DEF Idle
  <2>8. Clear => (t = "main" => r.thr = "none") /\ p.ssrc = r.pseq
    BY <2>1, MainAlone, Zenon DEF Receiving, Sourced, Clear
  <2>9. t = "main" => r.thr = "none"
    BY <2>1, Zenon DEF Alone
  <2> HIDE DEF p, x, w, put
  <2>10. CASE Becomes(z)
    <3>1. y \in Pair /\ y.r = x /\ y.h = h
      BY <1>0, <2>5, Zenon DEF Pair, On
    <3>2. y.r.run \/ t = "main" \/ at["main"].pc = "join"
      BY <2>4, <2>5, <3>1, MayPass, ZenonT(30) DEF GoesTo, Same
    <3> HIDE DEF y
    <3>3. /\ z.r.jb \in {y.r.jb, <<>>} /\ z.r.thr = y.r.thr
          /\ z.r.estab = y.r.estab
          /\ z.r.works = IF y.r.run THEN Append(y.r.works, w) ELSE y.r.works
      BY <2>6, <3>1, <3>2, PassWork, ZenonT(30)
    <3>4. /\ Aside(y, z)
          /\ IF Fmt(w) /\ ~y.r.run THEN z.r.aupt = w[2] /\ ~z.h.reset
             ELSE z.r.aupt = y.r.aupt /\ z.h.reset = y.h.reset
      BY <2>6, <3>1, <3>2, PassAside, ZenonT(30)
    <3>5. r' = z.r /\ h' = z.h
      BY <2>10, Zenon DEF Becomes
    <3> HIDE DEF z
    <3>6. /\ r'.jb \in {r.jb, <<>>} /\ r'.thr = r.thr /\ r'.estab = r.estab
          /\ r'.dec = r.dec /\ r'.pseq = r.pseq /\ r'.changed = r.changed
          /\ r'.works = IF r.run THEN Append(r.works, w) ELSE r.works
          /\ r'.pt = p.pt
          /\ h'.split = h.split /\ h'.told = h.told /\ h'.last = h.last
          /\ h'.unflagged = h.unflagged
      BY <2>5, <3>1, <3>3, <3>4, <3>5, ZenonT(30) DEF Aside, Same
    <3>7. Fmt(w) /\ ~r.run => r'.aupt = p.pt /\ ~h'.reset
      BY <2>5, <2>6, <3>1, <3>4, <3>5, ZenonT(30) DEF Same
    <3>8. DecodeKept' /\ Alone'
      BY <2>1, <2>4, <2>9, <3>6, KeepDecode, KeepAlone, ZenonT(30) DEF Decoding
    <3>9. Format'
      <4>1. CASE p.pt \notin Pts
        BY <3>6, <4>1, Zenon DEF Format
      <4>2. CASE p.pt \in Pts /\ r.run
        <5>1. at["main"].pc # "join" /\ at'["main"].pc # "join"
          BY <2>4, <4>2, Moved, ZenonT(30) DEF IInv, Order
        <5>2. LastFmt(r'.works, r'.pt)
          BY <1>0, <2>6, <3>6, <4>2, AppendFmt, ZenonT(30)
        <5>3. QED
          BY <5>1, <5>2, Zenon DEF Format
      <4>3. CASE p.pt \in Pts /\ ~r.run
        <5>1. at["main"].pc # "join" => r.works = <<>>
          BY <4>3, ZenonT(30) DEF IInv, Order, Queue
        <5>2. at["main"].pc # "join" => NoFmt(r'.works)
          BY <3>6, <4>3, <5>1 DEF NoFmt
        <5>3. QED
          BY <2>4, <2>6, <3>6, <3>7, <4>3, <5>2, Moved, ZenonT(30) DEF Format
      <4>4. QED
        BY <4>1, <4>2, <4>3, Zenon
    <3>10. Sourced'
      <4>1. Clear => /\ \A i \in 1 .. Len(r'.jb) : r'.jb[i] = r'.pseq
                     /\ h'.last \notin {0, r'.pseq} => r'.changed
        BY <3>6 DEF Clear, Sourced
      <4>2. QED
        BY <2>4, <2>7, <2>8, <3>6, <4>1, KeepSourced, ZenonT(30)
    <3>11. QED
      BY <3>6, <3>8, <3>9, <3>10, ZenonT(30)
  <2>11. CASE r' = r /\ h' = h
    <3>1. DecodeKept' /\ Format' /\ Alone'
      BY <2>1, <2>4, <2>7, <2>9, <2>11, KeepDecode, KeepFormat, KeepAlone, ZenonT(30) DEF Decoding
    <3>2. Sourced'
      BY <2>4, <2>7, <2>8, <2>11, KeepSourced, ZenonT(30) DEF Sourced, Clear
    <3>3. QED
      BY <2>11, <3>1, <3>2, ZenonT(30)
  <2>12. QED
    BY <2>2, <2>10, <2>11, Zenon
<1>2. CASE pass_rtcp_work(t)
  <2> DEFINE y == On(r, h)
             w == <<"other", 0>>
             z == pass_work(y, t, w)
  <2>1. GoesTo(t, Idle) /\ at[t].pc = "rtcp" /\ Idle.pc = "idle" /\ (t = "main" => r.thr = "none")
    BY <1>2, IdleOk, InHandler, ZenonT(30) DEF pass_rtcp_work, Done, GoesTo, Idle, IInv, Order
  <2>2. w \in Works /\ w[1] # "estab" /\ ~Fmt(w)
    BY Zenon DEF Works, Fmt
  <2>3. y \in Pair /\ y.r = r /\ y.h = h
    BY <1>0, Zenon DEF Pair, On
  <2>4. y.r.run \/ t = "main" \/ at["main"].pc = "join"
    BY <2>1, <2>3, MayPass, Zenon DEF GoesTo
  <2>5. r' = z.r /\ h' = z.h
    BY <1>2, ZenonT(30) DEF pass_rtcp_work, Becomes
  <2> HIDE DEF y, w
  <2>6. /\ z.r.jb \in {r.jb, <<>>} /\ z.r.thr = r.thr /\ z.r.estab = r.estab
        /\ z.r.works = IF r.run THEN Append(r.works, w) ELSE r.works
    <3>1. /\ z.r.jb \in {y.r.jb, <<>>} /\ z.r.thr = y.r.thr /\ z.r.estab = y.r.estab
          /\ z.r.works = IF y.r.run THEN Append(y.r.works, w) ELSE y.r.works
      BY <2>2, <2>4, <2>3, PassWork, ZenonT(30)
    <3>2. QED
      BY <2>3, <3>1, Zenon
  <2>7. Aside(y, z) /\ z.r.aupt = r.aupt /\ z.h.reset = h.reset
    BY <2>2, <2>3, <2>4, PassAside
  <2> HIDE DEF z
  <2>8. /\ r'.jb \in {r.jb, <<>>} /\ r'.thr = r.thr /\ r'.estab = r.estab
        /\ r'.works = IF r.run THEN Append(r.works, w) ELSE r.works
        /\ r'.dec = r.dec /\ r'.pseq = r.pseq /\ r'.changed = r.changed
        /\ r'.pt = r.pt /\ r'.aupt = r.aupt /\ h'.reset = h.reset
        /\ h'.split = h.split /\ h'.told = h.told /\ h'.last = h.last
        /\ h'.unflagged = h.unflagged
    BY <2>3, <2>5, <2>6, <2>7, Zenon DEF Aside
  <2>9. DecodeKept' /\ Alone'
    BY <2>1, <2>8, KeepDecode, KeepAlone, ZenonT(30) DEF Decoding
  <2>10. Format'
    BY <2>1, <2>2, <2>8, Moved, OtherWork, ZenonT(30)
  <2>11. Sourced'
    <3>1. Clear => /\ \A i \in 1 .. Len(r'.jb) : r'.jb[i] = r'.pseq
                   /\ h'.last \notin {0, r'.pseq} => r'.changed
      BY <2>8 DEF Clear, Sourced
    <3>2. QED
      BY <2>1, <2>8, <3>1, KeepSourced, ZenonT(30)
  <2>12. QED
    BY <2>8, <2>9, <2>10, <2>11, ZenonT(30)
<1>3. QED
  BY <1>1, <1>2, Zenon

\* The first packet starts the timer of the decoder on the loop that has it.
LEMMA FirstPacketAside ==
  ASSUME IInv, Follow, NEW t \in Threads, t = "rx" => r.thr = "loop", ~h.freed
  PROVE  LET z == FirstPacket(On(r, h), t)
         IN  /\ (z.r.dec = r.dec /\ r.estab) \/ z.r.dec = t
             /\ z.r.pseq = r.pseq /\ z.r.ssrc = r.ssrc /\ z.r.changed = r.changed
             /\ z.r.pt = r.pt /\ z.r.aupt = r.aupt /\ z.h.reset = h.reset
             /\ z.h.split = h.split /\ z.h.told = h.told /\ z.h.last = h.last
             /\ z.h.unflagged = h.unflagged
             /\ \/ z.r.works = r.works
                \/ r.run /\ z.r.works = Append(r.works, <<"estab", 0>>)
<1>0. r \in RType /\ h \in HType
  BY Zenon DEF IInv, Types
<1>1. CASE r.estab
  <2>1. FirstPacket(On(r, h), t) = On(r, h)
    BY <1>1, ZenonT(30) DEF FirstPacket, On
  <2>2. QED
    BY <1>1, <2>1 DEF On
<1>2. CASE ~r.estab
  <2> DEFINE x == [r EXCEPT !.estab = TRUE, !.dec = t]
             y == [On(r, h) EXCEPT !.r.estab = TRUE, !.r.dec = t]
             w == <<"estab", 0>>
             z == pass_work(y, t, w)
  <2>1. /\ x \in RType /\ x.run = r.run /\ x.works = r.works
        /\ x.dec = t /\ x.pseq = r.pseq /\ x.ssrc = r.ssrc /\ x.changed = r.changed
        /\ x.pt = r.pt /\ x.aupt = r.aupt
    BY <1>0, ZenonT(30) DEF RType
  <2>2. FirstPacket(On(r, h), t) = z
    BY <1>2, Zenon DEF FirstPacket, On
  <2>0. y.r = x /\ y.h = h /\ y \in [r : {x}, h : {h}]
    BY <1>0, Zenon DEF On, RType
  <2> HIDE DEF x, y
  <2>3. y \in Pair /\ y.r = x /\ y.h = h
    BY <1>0, <2>0, <2>1, ZenonT(30) DEF Pair
  <2>4. w \in Works /\ w[1] = "estab" /\ ~Fmt(w)
    BY Zenon DEF Works, Fmt
  <2>5. y.r.run \/ t = "main" \/ at["main"].pc = "join"
    BY <2>1, <2>3, MayPass, Zenon
  <2> HIDE DEF w
  <2>6. z.r.works = IF y.r.run THEN Append(y.r.works, w) ELSE y.r.works
    BY <2>3, <2>4, <2>5, PassWork, ZenonT(30)
  <2>7. Aside(y, z) /\ z.r.aupt = y.r.aupt /\ z.h.reset = y.h.reset
    BY <2>3, <2>4, <2>5, PassAside, ZenonT(30)
  <2> HIDE DEF z
  <2>8. QED
    BY <1>2, <2>1, <2>2, <2>3, <2>6, <2>7 DEF Aside, w
<1>3. QED
  BY <1>1, <1>2, Zenon

LEMMA FirstFollow ==
  ASSUME Sizes, IInv, Follow, strm' = strm, NEW t \in Threads, rtprecv_decode(t)
  PROVE  Follow'
<1> USE DEF Follow
<1> DEFINE z == FirstPacket(On(r, h), t)
<1>0. r \in RType /\ h \in HType /\ Len(r.works) \in Nat /\ Len(r.works) < MaxWorks
      /\ r.works \in Seq(Works) /\ r.jb \in Seq(Ssrcs)
  BY Lists DEF IInv, Types, Queue, rtprecv_decode
<1>1. /\ at[t] = Idle /\ ~h.freed /\ (t = "rx" => r.thr = "loop")
      /\ t = "main" => ~r.run /\ r.thr = "none"
  BY ReadyLoop, Zenon DEF rtprecv_decode, IInv, Order
<1>2. PICK p \in Packets :
        /\ Becomes(FirstSource(z, p))
        /\ Go(t, IF r.pseq # 0 /\ p.ssrc # r.ssrc THEN "flush" ELSE "filter", p, 0)
  BY Zenon DEF rtprecv_decode, IInv, Types
<1>3. /\ z \in Pair /\ z.r.jb \in {r.jb, <<>>}
      /\ z.r.run = r.run /\ z.r.thr = r.thr /\ z.r.sock = r.sock /\ z.r.estab
      /\ z.h.wild = h.wild /\ z.h.freed = h.freed
  BY <1>1, FirstPacketOk, Zenon
<1>4. /\ (z.r.dec = r.dec /\ r.estab) \/ z.r.dec = t
      /\ z.r.pseq = r.pseq /\ z.r.ssrc = r.ssrc /\ z.r.changed = r.changed
      /\ z.r.pt = r.pt /\ z.r.aupt = r.aupt /\ z.h.reset = h.reset
      /\ z.h.split = h.split /\ z.h.told = h.told /\ z.h.last = h.last
      /\ z.h.unflagged = h.unflagged
      /\ \/ z.r.works = r.works
         \/ r.run /\ z.r.works = Append(r.works, <<"estab", 0>>)
  BY <1>1, FirstPacketAside, ZenonT(30)
<1> HIDE DEF z
<1>5. p.ssrc \in Ssrcs /\ p.pt \in Pts \cup {Tel} /\ p.ssrc # 0
  BY DEF Packets, Ssrcs
<1>6. /\ Same(z.r, r') /\ r'.jb = z.r.jb /\ r'.dec = z.r.dec
      /\ r'.changed = z.r.changed /\ r'.pt = z.r.pt /\ r'.aupt = z.r.aupt
      /\ h'.reset = z.h.reset /\ h'.split = z.h.split /\ h'.last = z.h.last
      /\ h'.unflagged = z.h.unflagged /\ (h.told => h'.told)
      /\ IF r.pseq = 0 THEN r'.pseq = p.ssrc
         ELSE r'.pseq = r.pseq /\ (p.ssrc = r.ssrc /\ p.ssrc # r.pseq => h'.told)
  <2>0. z.r \in RType /\ z.h \in HType
    BY <1>3, Zenon DEF Pair
  <2>1. CASE z.r.pseq = 0
    <3>1. /\ r' = [z.r EXCEPT !.ssrc = p.ssrc, !.pseq = p.ssrc] /\ h' = z.h
      BY <1>2, <1>3, <2>1, ZenonT(30) DEF FirstSource, Becomes, Pair, RType
    <3>2. QED
      BY <1>4, <2>0, <2>1, <3>1, ZenonT(30) DEF RType, Same
  <2>2. CASE z.r.pseq # 0
    <3> DEFINE b == z.h.told \/ (p.ssrc = z.r.ssrc /\ p.ssrc # z.r.pseq)
    <3>1. b \in BOOLEAN /\ (h.told => b) /\ (p.ssrc = r.ssrc /\ p.ssrc # r.pseq => b)
      BY <1>4, <2>0, Zenon DEF HType
    <3>2. r' = z.r /\ h' = [z.h EXCEPT !.told = b]
      BY <1>2, <1>3, <2>2, ZenonT(30) DEF FirstSource, Becomes, Pair, HType
    <3> HIDE DEF b
    <3>3. QED
      BY <1>4, <2>0, <2>2, <3>1, <3>2, ZenonT(30) DEF HType, Same
  <2>3. QED
    BY <2>1, <2>2, Zenon
<1>7. PICK a \in AtType : /\ at' = [at EXCEPT ![t] = a] /\ a.pkt = p
                          /\ a.pc = IF r.pseq # 0 /\ p.ssrc # r.ssrc THEN "flush" ELSE "filter"
  <2> DEFINE c == IF r.pseq # 0 /\ p.ssrc # r.ssrc THEN "flush" ELSE "filter"
             a == [pc |-> c, pkt |-> p, n |-> 0]
  <2>1. a \in AtType /\ a.pkt = p /\ a.pc = c
    BY Zenon DEF AtType, Pcs, Packets
  <2>2. at' = [at EXCEPT ![t] = a]
    BY <1>2, ZenonT(30) DEF Go
  <2>3. QED
    BY <2>1, <2>2, ZenonT(30)
<1>8. GoesTo(t, a)
  BY <1>0, <1>1, <1>5, <1>7 DEF GoesTo, Idle, Sizes
<1>9. t # "none" /\ at[t].pc \notin Decoding
  BY <1>1 DEF Threads, Idle, Decoding
<1>10. DecodeKept'
  <2>1. r'.thr = r.thr
    BY <1>3, <1>6, Zenon DEF Same
  <2>2. /\ r'.dec = r.dec \/ r'.dec # "none"
        /\ (r'.estab => r.estab) \/ r'.dec # "none"
    BY <1>4, <1>6, <1>9, ZenonT(30)
  <2>3. QED
    BY <1>8, <1>9, <2>1, <2>2, KeepDecode, ZenonT(30)
<1>11. Alone'
  <2>1. r'.thr = r.thr /\ h'.split = h.split /\ (t = "main" => r.thr = "none")
    BY <1>1, <1>3, <1>4, <1>6, ZenonT(30) DEF Same
  <2>2. QED
    BY <1>8, <2>1, KeepAlone, ZenonT(30)
<1>12. Format'
  <2>1. CASE r'.works = r.works
    BY <1>4, <1>6, <1>8, <2>1, KeepFormat, ZenonT(30)
  <2>2. CASE r.run /\ r'.works = Append(r.works, <<"estab", 0>>)
    <3>1. <<"estab", 0>> \in Works /\ ~Fmt(<<"estab", 0>>)
      BY Zenon DEF Works, Fmt
    <3>2. QED
      BY <1>4, <1>6, <1>8, <2>2, <3>1, Moved, OtherWork, ZenonT(30)
  <2>3. QED
    BY <1>4, <1>6, <2>1, <2>2, ZenonT(30) DEF Same
<1>13. ASSUME Clear, ~h'.told
       PROVE  /\ \A i \in 1 .. Len(r'.jb) : r'.jb[i] = r'.pseq
              /\ h'.last \notin {0, r'.pseq} => r'.changed
              /\ a.pc = "filter" => a.pkt.ssrc = r'.pseq
  <2>1. /\ \A i \in 1 .. Len(r.jb) : r.jb[i] = r.pseq
        /\ h.last \notin {0, r.pseq} => r.changed
    BY <1>13, Zenon DEF Clear, Sourced
  <2>2. CASE r.pseq = 0
    <3>1. \A i \in 1 .. Len(r.jb) : r.jb[i] \in Ssrcs /\ r.jb[i] # 0
      BY <1>0 DEF Ssrcs
    <3>2. r'.jb \in {r.jb, <<>>}
      BY <1>3, <1>6, Zenon
    <3>3. \A i \in 1 .. Len(r'.jb) : FALSE
      BY <2>1, <2>2, <3>1, <3>2, NoElements, ZenonT(30)
    <3>4. QED
      BY <1>4, <1>6, <1>7, <2>1, <2>2, <3>3, ZenonT(30)
  <2>3. CASE r.pseq # 0
    <3>1. r'.jb \in {r.jb, <<>>} /\ r'.pseq = r.pseq
      BY <1>3, <1>6, <2>3, Zenon
    <3>2. \A i \in 1 .. Len(r'.jb) : r'.jb[i] = r'.pseq
      BY <2>1, <3>1, NoElements, ZenonT(30)
    <3>3. QED
      BY <1>4, <1>6, <1>7, <1>13, <2>1, <2>3, <3>1, <3>2
  <2>4. QED
    BY <2>2, <2>3, Zenon
<1>14. a.pc \in {"flush", "filter"} /\ (r'.dec = "main" => r.dec = "main" \/ t = "main")
  BY <1>4, <1>6, <1>7, ZenonT(30)
<1>15. Sourced'
  BY <1>1, <1>3, <1>4, <1>6, <1>8, <1>13, <1>14, KeepSourced, ZenonT(30) DEF Same
<1>16. QED
  BY <1>4, <1>6, <1>10, <1>11, <1>12, <1>15, ZenonT(30)

-----------------------------------------------------------------------------
(* The main thread *)

\* A step of the main thread between its handlers that leaves the decoder's timer
\* and the sources alone, and at most flushes the jitter buffer.
LEMMA MainStays ==
  ASSUME IInv, Follow, strm' = strm, at' = at,
         r'.thr = r.thr, r'.estab = r.estab, r'.dec = r.dec, r'.pseq = r.pseq,
         r'.changed = r.changed, r'.jb \in {r.jb, <<>>},
         h'.split = h.split, h'.told = h.told, h'.last = h.last, h'.freed = h.freed,
         h'.unflagged = h.unflagged
  PROVE  DecodeKept' /\ Sourced' /\ Alone' /\ ~h'.unflagged
<1>1. DecodeKept' /\ Alone' /\ ~h'.unflagged
  BY ZenonT(30) DEF Follow, DecodeKept, Alone, InFrames
<1>2. Sourced'
  BY DEF Follow, Sourced
<1>3. QED
  BY <1>1, <1>2, Zenon

LEMMA SetWorks ==
  ASSUME NEW y \in RType, NEW l \in Seq(Works), NEW x, x = [y EXCEPT !.works = l]
  PROVE  /\ x \in RType /\ Len(l) \in Nat
         /\ x.jb = y.jb /\ x.run = y.run /\ x.thr = y.thr
         /\ x.sock = y.sock /\ x.estab = y.estab /\ x.works = l
         /\ x.dec = y.dec /\ x.pseq = y.pseq /\ x.changed = y.changed /\ x.pt = y.pt
         /\ x.aupt = y.aupt
<1>1. x \in RType
  BY ZenonT(30) DEF RType
<1>2. QED
  BY <1>1 DEF RType

\* The main thread sets the format of a work.
LEMMA WorkFollow ==
  ASSUME Sizes, IInv, Follow, strm' = strm, async_work_main
  PROVE  Follow'
<1> DEFINE x == [r EXCEPT !.works = Tail(@)]
           y == On(x, h)
           w == Head(r.works)
           z == Handle(y, "main", w)
<1>0. /\ r \in RType /\ h \in HType /\ r.works \in Seq(Works) /\ r.works # <<>>
      /\ ~h.freed /\ at["main"] = Idle /\ at' = at
  BY Lists, Zenon DEF IInv, Types, async_work_main, MainFree, Stay
<1>1. Tail(r.works) \in Seq(Works) /\ w \in Works
  BY <1>0, TailWork, Zenon
<1>2. /\ x \in RType /\ x.jb = r.jb /\ x.run = r.run /\ x.thr = r.thr
      /\ x.sock = r.sock /\ x.estab = r.estab /\ x.works = Tail(r.works)
      /\ x.dec = r.dec /\ x.pseq = r.pseq /\ x.changed = r.changed /\ x.pt = r.pt
      /\ x.aupt = r.aupt
  BY <1>0, <1>1, SetWorks
<1> HIDE DEF x
<1>3. y \in Pair /\ y.r = x /\ y.h = h
  BY <1>0, <1>2, Zenon DEF Pair, On
<1>4. r' = z.r /\ h' = z.h
  BY Zenon DEF async_work_main, Becomes, x
<1> HIDE DEF y, w
<1>5. /\ z.r.jb \in {y.r.jb, <<>>} /\ Same(y.r, z.r) /\ z.h.freed = y.h.freed
  BY <1>1, <1>3, HandleWork, ZenonT(30) DEF Threads
<1>6. /\ Aside(y, z)
      /\ IF Fmt(w) THEN z.r.aupt = w[2] /\ ~z.h.reset
         ELSE z.r.aupt = y.r.aupt /\ z.h.reset = y.h.reset
  BY <1>1, <1>3, HandleAside, Zenon DEF Threads
<1> HIDE DEF z
<1> USE DEF w
<1>7. /\ r'.jb \in {r.jb, <<>>} /\ r'.thr = r.thr /\ r'.estab = r.estab
      /\ r'.works = Tail(r.works) /\ h'.freed = h.freed /\ r'.pt = r.pt
      /\ r'.dec = r.dec /\ r'.pseq = r.pseq /\ r'.changed = r.changed
      /\ h'.split = h.split /\ h'.told = h.told /\ h'.last = h.last
      /\ h'.unflagged = h.unflagged
      /\ IF Fmt(w) THEN r'.aupt = w[2] /\ ~h'.reset
         ELSE r'.aupt = r.aupt /\ h'.reset = h.reset
  BY <1>2, <1>3, <1>4, <1>5, <1>6, ZenonT(30) DEF Aside, Same
<1>8. DecodeKept' /\ Sourced' /\ Alone' /\ ~h'.unflagged
  BY <1>0, <1>7, MainStays, Zenon
<1>9. Format'
  <2> SUFFICES ASSUME r.pt \in Pts
               PROVE  \/ LastFmt(r'.works, r.pt)
                      \/ NoFmt(r'.works) /\ (h'.reset \/ r'.aupt = r.pt)
    BY <1>0, <1>7 DEF Format, Idle
  <2>1. LastFmt(r.works, r.pt) \/ (NoFmt(r.works) /\ (h.reset \/ r.aupt = r.pt))
    <3>1. at["main"].pc # "join"
      BY <1>0 DEF Idle
    <3>2. QED
      BY <3>1, Zenon DEF Follow, Format
  <2>2. CASE LastFmt(r.works, r.pt)
    <3>1. CASE NoFmt(Tail(r.works)) /\ w = <<"pt", r.pt>>
      <4>1. Fmt(w) /\ w[2] = r.pt
        BY <3>1 DEF Fmt
      <4>2. QED
        BY <1>7, <3>1, <4>1, ZenonT(30)
    <3>2. CASE LastFmt(Tail(r.works), r.pt)
      BY <1>7, <3>2, Zenon
    <3>3. QED
      BY <1>0, <2>2, <3>1, <3>2, TailFmt, ZenonT(30)
  <2>3. CASE NoFmt(r.works) /\ (h.reset \/ r.aupt = r.pt)
    BY <1>0, <1>7, <2>3, TailFmt, ZenonT(30)
  <2>4. QED
    BY <2>1, <2>2, <2>3, ZenonT(30)
<1>10. QED
  BY <1>8, <1>9, Zenon DEF Follow

LEMMA MnatFollow ==
  ASSUME Sizes, IInv, Follow, strm' = strm, MnatConnected
  PROVE  Follow'
<1> DEFINE y == On(r, h)
           w == <<"other", 0>>
           z == pass_work(y, "main", w)
<1>0. /\ r \in RType /\ h \in HType /\ r.works \in Seq(Works)
      /\ ~h.freed /\ at["main"] = Idle /\ at' = at
  BY Lists, Zenon DEF IInv, Types, MnatConnected, MainFree, Stay
<1>1. y \in Pair /\ y.r = r /\ y.h = h
  BY <1>0, Zenon DEF Pair, On
<1>2. w \in Works /\ w[1] # "estab" /\ ~Fmt(w)
  BY Zenon DEF Works, Fmt
<1>3. r' = z.r /\ h' = z.h
  BY ZenonT(30) DEF MnatConnected, Becomes
<1> HIDE DEF y, w
<1>4. /\ z.r.jb \in {r.jb, <<>>} /\ z.r.thr = r.thr /\ z.r.estab = r.estab
      /\ z.r.works = IF r.run THEN Append(r.works, w) ELSE r.works
      /\ z.h.freed = h.freed
  BY <1>1, <1>2, PassWork DEF Threads
<1>5. Aside(y, z) /\ z.r.aupt = r.aupt /\ z.h.reset = h.reset
  BY <1>1, <1>2, PassAside, ZenonT(30) DEF Threads
<1> HIDE DEF z
<1>6. /\ r'.jb \in {r.jb, <<>>} /\ r'.thr = r.thr /\ r'.estab = r.estab
      /\ r'.works = IF r.run THEN Append(r.works, w) ELSE r.works
      /\ r'.dec = r.dec /\ r'.pseq = r.pseq /\ r'.changed = r.changed
      /\ r'.pt = r.pt /\ r'.aupt = r.aupt /\ h'.reset = h.reset
      /\ h'.split = h.split /\ h'.told = h.told /\ h'.last = h.last
      /\ h'.unflagged = h.unflagged /\ h'.freed = h.freed
  BY <1>1, <1>3, <1>4, <1>5, ZenonT(30) DEF Aside
<1>7. DecodeKept' /\ Sourced' /\ Alone' /\ ~h'.unflagged
  BY <1>0, <1>6, MainStays, ZenonT(30)
<1>8. Format'
  BY <1>0, <1>2, <1>6, OtherWork, ZenonT(30) DEF Follow
<1>9. QED
  BY <1>7, <1>8, Zenon DEF Follow

\* A decoder that was given the format of the SDP is not the one of the packets
\* until the next work: h.reset.
LEMMA UpdateFollow ==
  ASSUME Sizes, IInv, Follow, strm' = strm, audio_update
  PROVE  Follow'
<1>0. /\ r \in RType /\ h \in HType /\ ~h.freed /\ at["main"] = Idle /\ at' = at
  BY Zenon DEF IInv, Types, audio_update, MainFree, Stay
<1>1. PICK recv \in BOOLEAN :
        LET d == IF recv THEN audio_decoder_set(r, 1) ELSE r
        IN  /\ r' = stream_enable_rx(d, recv)
            /\ h' = [h EXCEPT !.reset = @ \/ (recv /\ r.pt = 2)]
  BY Zenon DEF audio_update, Becomes, On
<1> DEFINE d == IF recv THEN audio_decoder_set(r, 1) ELSE r
           a == IF recv THEN 1 ELSE r.aupt
           j == IF recv /\ r.aupt # 1 THEN <<>> ELSE r.jb
           start == recv /\ ~d.run
           u == d.use_rxthread \/ start
           v == d.tmr_rec \/ start
           b == h.reset \/ (recv /\ r.pt = 2)
<1>2. d = [r EXCEPT !.aupt = a, !.jb = j]
  BY ZenonT(30) DEF audio_decoder_set, IInv, Types, RType
<1>3. r' = [d EXCEPT !.enabled = recv, !.use_rxthread = u, !.tmr_rec = v]
  BY <1>1, Zenon DEF stream_enable_rx
<1>4. a \in Pts \cup {0} /\ j \in {r.jb, <<>>} /\ (IF recv THEN a = 1 ELSE a = r.aupt)
  BY <1>0, Zenon DEF RType, Pts
<1>5. u \in BOOLEAN /\ v \in BOOLEAN /\ b \in BOOLEAN
      /\ (h.reset => b) /\ (recv /\ r.pt = 2 => b)
  BY <1>0, Zenon DEF HType
<1>6. h' = [h EXCEPT !.reset = b]
  BY <1>1, Zenon
<1> HIDE DEF d, a, j, start, u, v, b
<1>7. /\ d \in RType /\ Same(r, d) /\ d.jb = j /\ d.aupt = a /\ d.dec = r.dec
      /\ d.pseq = r.pseq /\ d.changed = r.changed /\ d.pt = r.pt
  <2>1. d \in RType
    BY <1>0, <1>2, <1>4, SetJb, ZenonT(30)
  <2>2. QED
    BY <1>0, <1>2, <2>1 DEF RType, Same
<1>8. /\ Same(d, r') /\ r'.jb = d.jb /\ r'.aupt = d.aupt /\ r'.dec = d.dec
      /\ r'.pseq = d.pseq /\ r'.changed = d.changed /\ r'.pt = d.pt
  BY <1>3, <1>5, <1>7, ZenonT(30) DEF RType, Same
<1>9. /\ h'.split = h.split /\ h'.told = h.told /\ h'.last = h.last
      /\ h'.unflagged = h.unflagged /\ h'.freed = h.freed /\ h'.reset = b
  BY <1>0, <1>6, Zenon DEF HType
<1>10. DecodeKept' /\ Sourced' /\ Alone' /\ ~h'.unflagged
  BY <1>0, <1>4, <1>7, <1>8, <1>9, MainStays, ZenonT(30) DEF Same
<1>11. Format'
  BY <1>0, <1>4, <1>5, <1>7, <1>8, <1>9, ZenonT(30) DEF Follow, Format, Same, Idle, Pts
<1>12. QED
  BY <1>10, <1>11, ZenonT(30) DEF Follow

LEMMA CommandFollow ==
  ASSUME Sizes, IInv, Follow, strm' = strm, Command
  PROVE  Follow'
<1>0. /\ r \in RType /\ h \in HType /\ ~h.freed /\ at["main"] = Idle /\ at' = at
  BY Zenon DEF IInv, Types, Command, rtprecv_start_thread, audio_update, rtprecv_set_ssrc,
     rtprecv_flush, stream_start_rtcp, Stay, MainFree
<1> DEFINE Small == /\ Same(r, r') /\ r'.jb \in {r.jb, <<>>} /\ r'.aupt = r.aupt
                    /\ r'.dec = r.dec /\ r'.pseq = r.pseq /\ r'.changed = r.changed
                    /\ r'.pt = r.pt /\ h' = h
<1>1. ASSUME Small PROVE Follow'
  <2>1. DecodeKept' /\ Sourced' /\ Alone' /\ ~h'.unflagged
    BY <1>0, <1>1, MainStays, ZenonT(30) DEF Same
  <2>2. Format'
    BY <1>0, <1>1, ZenonT(30) DEF Follow, Format, Same
  <2>3. QED
    BY <2>1, <2>2, Zenon DEF Follow
<1>2. CASE rtprecv_set_ssrc
  <2>1. PICK s \in Ssrcs : r' = [r EXCEPT !.ssrc = s] /\ h' = h
    BY <1>2, Zenon DEF IInv, Types, rtprecv_set_ssrc, Becomes, On, Packets
  <2>2. Small
    BY <1>0, <2>1, Zenon DEF RType, Same
  <2>3. QED
    BY <1>1, <2>2, Zenon
<1>3. CASE rtprecv_flush
  <2>1. r' = [r EXCEPT !.jb = <<>>] /\ h' = h
    BY <1>3, Zenon DEF rtprecv_flush, Becomes, On
  <2>2. Small
    BY <1>0, <2>1, Zenon DEF RType, Same
  <2>3. QED
    BY <1>1, <2>2, Zenon
<1>4. CASE stream_start_rtcp
  <2>1. PICK b \in BOOLEAN : r' = [r EXCEPT !.start_rtcp = b] /\ h' = h
    BY <1>4, ZenonT(30) DEF stream_start_rtcp, Becomes, On
  <2>2. Small
    BY <1>0, <2>1, Zenon DEF RType, Same
  <2>3. QED
    BY <1>1, <2>2, Zenon
<1>5. CASE rtprecv_start_thread
  <2>1. CASE r' = [r EXCEPT !.tmr_rec = FALSE] /\ h' = h
    <3>1. Small
      BY <1>0, <2>1, Zenon DEF RType, Same
    <3>2. QED
      BY <1>1, <3>1, Zenon
  <2>2. CASE /\ ~r.run
             /\ r' = [r EXCEPT !.tmr_rec = FALSE, !.sock = "none", !.run = TRUE,
                               !.thr = "new"]
             /\ h' = [h EXCEPT !.split = r.dec = "main"]
    <3>1. r.thr = "none" /\ ~h.split
      BY <1>0, <2>2 DEF IInv, Order, Idle, Follow, Alone
    <3>2. /\ r'.works = r.works /\ r'.estab = r.estab /\ r'.jb = r.jb
          /\ r'.thr = "new" /\ r'.aupt = r.aupt
          /\ r'.dec = r.dec /\ r'.pseq = r.pseq /\ r'.changed = r.changed
          /\ r'.pt = r.pt
      BY <1>0, <2>2, Zenon DEF RType
    <3>3. /\ h'.told = h.told /\ h'.last = h.last /\ h'.unflagged = h.unflagged
          /\ h'.freed = h.freed /\ h'.reset = h.reset /\ (r.dec = "main" => h'.split)
      BY <1>0, <2>2, ZenonT(30) DEF HType
    <3>4. DecodeKept' /\ ~h'.unflagged
      BY <1>0, <3>1, <3>2, <3>3 DEF Follow, DecodeKept, InFrames, Idle
    <3>5. Alone'
      BY <1>0, <3>1, <3>2, <3>3 DEF Follow, Alone, Idle
    <3>6. Format'
      BY <1>0, <3>2, <3>3, ZenonT(30) DEF Follow, Format
    <3>7. Sourced'
      BY <1>0, <3>1, <3>2, <3>3 DEF Follow, Sourced, Idle
    <3>8. QED
      BY <3>4, <3>5, <3>6, <3>7, ZenonT(30) DEF Follow
  <2>3. QED
    <3>1. CASE r.run
      BY <1>5, <2>1, <3>1, ZenonT(30) DEF rtprecv_start_thread, Becomes, On
    <3>2. CASE ~r.run
      BY <1>5, <2>1, <2>2, <3>2, ZenonT(30) DEF rtprecv_start_thread, Becomes, On
    <3>3. QED
      BY <3>1, <3>2, Zenon
<1>6. QED
  BY <1>2, <1>3, <1>4, <1>5, UpdateFollow, ZenonT(30) DEF Command

\* The end of the receiver: what is freed is followed by nobody.
LEMMA FreedFollow ==
  ASSUME Follow, at' = [t \in Threads |-> Idle],
         r' = [NoReceiver EXCEPT !.sock = "none", !.dec = "none", !.works = <<>>],
         h' = [h EXCEPT !.freed = TRUE], h \in HType
  PROVE  Follow'
<1>1. ~r'.estab /\ r'.pt = 0 /\ h'.freed /\ ~h'.unflagged /\ at'["main"] = Idle
  BY Zenon DEF NoReceiver, Follow, HType, Threads
<1>2. DecodeKept' /\ Format' /\ Sourced' /\ Alone'
  BY <1>1 DEF DecodeKept, Format, Sourced, Alone, Idle, Pts
<1>3. QED
  BY <1>1, <1>2, Zenon DEF Follow

LEMMA DestructorFollow ==
  ASSUME Sizes, IInv, Follow, strm' = strm, destructor \/ destructor_stop \/ destructor_join
  PROVE  Follow'
<1>0. r \in RType /\ h \in HType /\ at \in [Threads -> AtType] /\ Types
  BY Zenon DEF IInv, Types
<1>1. CASE destructor /\ r.run
  <2>1. /\ r' = [r EXCEPT !.enabled = FALSE] /\ h' = h /\ at["main"] = Idle
        /\ at' = [at EXCEPT !["main"].pc = "stop"]
    BY <1>1, Zenon DEF destructor, MainFree
  <2>2. /\ Same(r, r') /\ r'.jb = r.jb /\ r'.dec = r.dec /\ r'.pseq = r.pseq
        /\ r'.changed = r.changed /\ r'.pt = r.pt /\ r'.aupt = r.aupt
    BY <1>0, <2>1, Zenon DEF RType, Same
  <2>3. at'["main"].pc = "stop" /\ at'["rx"] = at["rx"]
    BY <1>0, <2>1, Zenon DEF AtType, Threads
  <2>4. DecodeKept' /\ Alone' /\ ~h'.unflagged
    BY <2>1, <2>2, <2>3 DEF Follow, DecodeKept, InFrames, Alone, Same, Idle, Threads
  <2>5. Format'
    BY <2>1, <2>2, <2>3 DEF Follow, Format, Same, Idle
  <2>6. Sourced'
    BY <2>1, <2>2, <2>3 DEF Follow, Sourced, Same, Idle, Threads
  <2>7. QED
    BY <2>4, <2>5, <2>6, ZenonT(30) DEF Follow
<1>2. CASE destructor /\ ~r.run
  <2>1. r.thr = "none" /\ at["main"] = Idle
    BY <1>2 DEF destructor, MainFree, IInv, Order, Idle
  <2>2. r.works = <<>> /\ at["rx"] = Idle
    BY <2>1, ZenonT(30) DEF IInv, Order, Queue
  <2>3. at' = [t \in Threads |-> Idle]
    BY <1>0, <1>2, <2>1, <2>2, ZenonT(30) DEF destructor, Stay, Threads
  <2>4. r' = [NoReceiver EXCEPT !.sock = "none", !.dec = "none", !.works = <<>>]
    BY <1>0, <1>2, <2>2, ZenonT(30) DEF destructor, Freed, RType
  <2>5. QED
    BY <1>0, <1>2, <2>3, <2>4, FreedFollow, ZenonT(30) DEF destructor
<1>3. CASE destructor_stop
  <2>1. /\ at["main"].pc = "stop" /\ h' = h /\ r' = [r EXCEPT !.run = FALSE]
        /\ at' = [at EXCEPT !["main"].pc = "join"]
    BY <1>3, Zenon DEF destructor_stop
  <2>2. /\ r'.jb = r.jb /\ r'.works = r.works /\ r'.thr = r.thr /\ r'.estab = r.estab
        /\ r'.dec = r.dec /\ r'.pseq = r.pseq /\ r'.changed = r.changed
        /\ r'.pt = r.pt /\ r'.aupt = r.aupt
    BY <1>0, <2>1, Zenon DEF RType
  <2>3. at'["main"].pc = "join" /\ at'["rx"] = at["rx"]
    BY <1>0, <2>1, ZenonT(30) DEF AtType, Threads
  <2>4. DecodeKept' /\ Alone' /\ ~h'.unflagged
    BY <2>1, <2>2, <2>3, ZenonT(30) DEF Follow, DecodeKept, InFrames, Alone, Threads
  <2>5. Format'
    <3>1. r.pt \in Pts /\ LastFmt(r.works, r.pt) => ~NoFmt(r.works)
      BY DEF LastFmt, NoFmt, Fmt
    <3>2. QED
      BY <2>1, <2>2, <2>3, <3>1, ZenonT(30) DEF Follow, Format
  <2>6. Sourced'
    BY <2>1, <2>2, <2>3 DEF Follow, Sourced, Threads
  <2>7. QED
    BY <2>4, <2>5, <2>6, Zenon DEF Follow
<1>4. CASE destructor_join
  <2>1. at["rx"] = Idle /\ r.sock = "none"
    BY <1>4, Zenon DEF destructor_join, IInv, Order
  <2>2. at' = [t \in Threads |-> Idle]
    BY <1>0, <1>4, <2>1, ZenonT(30) DEF destructor_join, Threads
  <2>3. r' = [NoReceiver EXCEPT !.sock = "none", !.dec = "none", !.works = <<>>]
    BY <1>0, <1>4, <2>1, ZenonT(30) DEF destructor_join, Released, Freed, RType
  <2>4. QED
    BY <1>0, <1>4, <2>2, <2>3, FreedFollow, ZenonT(30) DEF destructor_join
<1>5. QED
  BY <1>1, <1>2, <1>3, <1>4, ZenonT(30)

LEMMA ThreadFollow ==
  ASSUME Sizes, IInv, Follow, strm' = strm, rtprecv_thread \/ rtprecv_periodic
  PROVE  Follow'
<1>0. r \in RType /\ at' = at /\ h' = h /\ r.thr \in {"new", "loop"}
  BY Zenon DEF IInv, Types, rtprecv_thread, rtprecv_periodic
<1>1. /\ r'.works = r.works /\ r'.jb = r.jb /\ r'.estab = r.estab
      /\ r'.pseq = r.pseq /\ r'.changed = r.changed /\ r'.pt = r.pt
      /\ r'.aupt = r.aupt /\ r'.thr # "none"
      /\ r'.dec = r.dec \/ (r'.dec = "none" /\ r'.thr = "done")
  <2>1. CASE rtprecv_thread
    <3>1. CASE r' = [r EXCEPT !.thr = "loop", !.sock = "rx"]
      BY <1>0, <3>1, ZenonT(30) DEF RType
    <3>2. CASE r' = [r EXCEPT !.thr = "failed"]
      BY <1>0, <3>2, Zenon DEF RType
    <3>3. QED
      BY <2>1, <3>1, <3>2, ZenonT(30) DEF rtprecv_thread
  <2>2. CASE rtprecv_periodic /\ r.run
    BY <1>0, <2>2, ZenonT(30) DEF rtprecv_periodic, PeriodicRun, RType
  <2>3. CASE rtprecv_periodic /\ ~r.run
    BY <1>0, <2>3, Zenon DEF rtprecv_periodic, PeriodicEnd, RType
  <2>4. QED
    BY <2>1, <2>2, <2>3, ZenonT(30)
<1>2. DecodeKept' /\ Alone' /\ Format' /\ ~h'.unflagged
  BY <1>0, <1>1, Zenon DEF Follow, DecodeKept, InFrames, Alone, Format
<1>3. Sourced'
  BY <1>0, <1>1, Zenon DEF Follow, Sourced
<1>4. QED
  BY <1>2, <1>3, Zenon DEF Follow

LEMMA FollowStep ==
  ASSUME Sizes, IInv, Follow, [Next]_vars
  PROVE  Follow'
<1>1. CASE UNCHANGED vars
  BY <1>1, ZenonT(30) DEF vars, Follow, DecodeKept, InFrames, Format, Sourced, Alone
<1>2. ASSUME Next PROVE Follow'
  <2>0. strm' = strm
    BY <1>2, Zenon DEF Next
  <2>1. ASSUME NEW t \in Threads, Handler(t) PROVE Follow'
    BY <2>0, <2>1, ResyncFollow, FilterFollow, PutFollow, DecodeFollow, ZenonT(30) DEF Handler
  <2>2. ASSUME NEW t \in Threads, Loop(t) PROVE Follow'
    BY <2>0, <2>2, FirstFollow, HandleRtcpFollow, DecodeFollow, ZenonT(30) DEF Loop
  <2>3. CASE Command
    BY <2>0, <2>3, CommandFollow, ZenonT(30)
  <2>4. CASE async_work_main \/ MnatConnected
    BY <2>0, <2>4, WorkFollow, MnatFollow, ZenonT(30)
  <2>5. CASE destructor \/ destructor_stop \/ destructor_join
    BY <2>0, <2>5, DestructorFollow, ZenonT(30)
  <2>6. CASE rtprecv_thread \/ rtprecv_periodic
    BY <2>0, <2>6, ThreadFollow, ZenonT(30)
  <2>7. QED
    BY <1>2, <2>1, <2>2, <2>3, <2>4, <2>5, <2>6, Zenon DEF Next, MainStep, RxStep, Command, Threads
<1>3. QED
  BY <1>1, <1>2, Zenon

\* Whatever the two threads do and however they interleave, and for every size of
\* the jitter buffer and of the queue of works: once packets come the jitter buffer
\* is emptied again and again until the receiver ends; the decoder is told of a new
\* source with its first packet (but for the two exceptions of SourceFlagged); and
\* when no change of the payload type is on its way it has the format of the
\* packets, or the one audio_update() has set since.
THEOREM DecoderFollowed == Spec => []DecoderFollows
<1>1. Init => IInv /\ Follow
  <2> SUFFICES ASSUME Init PROVE IInv /\ Follow
    BY Zenon
  <2>1. IInv
    BY SizesHold, InitInv, ZenonT(30)
  <2>2. /\ ~r.estab /\ r.pt = 0 /\ r.thr = "none" /\ r.jb = <<>> /\ r.dec = "none"
        /\ ~h.split /\ h.last = 0 /\ ~h.unflagged /\ at = [t \in Threads |-> Idle]
    BY Zenon DEF Init, NoReceiver
  <2>3. DecodeKept /\ Format
    BY <2>2 DEF DecodeKept, Format, Pts
  <2>4. \A t \in Threads : at[t].pc = "idle"
    BY <2>2, Zenon DEF Idle
  <2>5. Sourced /\ Alone
    BY <2>2, <2>4 DEF Sourced, Alone, Threads
  <2>6. QED
    BY <2>1, <2>2, <2>3, <2>5, ZenonT(30) DEF Follow
<1>2. IInv /\ Follow /\ [Next]_vars => (IInv /\ Follow)'
  BY SizesHold, StepInv, FollowStep, ZenonT(30)
<1>3. IInv /\ Follow => DecoderFollows
  <2> SUFFICES ASSUME IInv, Follow PROVE DecoderFollows
    BY Zenon
  <2>1. DecodeKept /\ SourceFlagged
    BY Zenon DEF Follow, SourceFlagged
  <2>2. ASSUME r.pt \in Pts, ~h.reset, Pending("pt") = {} PROVE r.aupt = r.pt
    <3>1. DOMAIN r.works = 1 .. Len(r.works)
      BY Lists DEF IInv, Types
    <3>2. \A i \in 1 .. Len(r.works) : r.works[i][1] # "pt"
      BY <2>2, <3>1, Zenon DEF Pending
    <3>3. NoFmt(r.works) /\ ~LastFmt(r.works, r.pt)
      BY <3>2 DEF NoFmt, LastFmt, Fmt
    <3>4. QED
      BY <2>2, <3>3, ZenonT(30) DEF Follow, Format
  <2>3. QED
    BY <2>1, <2>2, Zenon DEF DecoderFollows, FormatFollows
<1>4. QED
  BY <1>1, <1>2, <1>3, PTL DEF Spec
=============================================================================
