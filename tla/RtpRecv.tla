------------------------------ MODULE RtpRecv ------------------------------
(***************************************************************************)
(* The receiver of the RTP of an audio stream (src/rtprecv.c) between the  *)
(* main thread and the RX thread of "rxmode thread", with the functions of *)
(* src/stream.c that start, watch and end it and the decoder of            *)
(* src/audio.c that it feeds.                                              *)
(*                                                                         *)
(* Each thread runs an event loop: a handler runs to its end before the    *)
(* next one of the same thread.  A step ends where the other thread may    *)
(* come in between: at the mutex of the receiver, at the one of the jitter *)
(* buffer, at the read of `run` and at the join.  A packet is its source   *)
(* and its payload type; `pseq` is the source whose sequence number it is. *)
(***************************************************************************)
EXTENDS Naturals, Sequences, FiniteSets

CONSTANTS
  Streams,    \* whether there is a jitter buffer, and the packets the peer sends
  JbufMax,    \* bound: packets in the jitter buffer
  MaxWorks,   \* bound: works on their way to the main thread
  Faults      \* threads and sockets may fail

\* Payload types: two formats of the SDP, the first one is the one audio_update()
\* takes, and the telephone event.  0 is none, as in the source of a packet.
Pts == {1, 2}
Tel == 9
Ssrcs == {1, 2}
Packets == [ssrc : Ssrcs, pt : Pts \cup {Tel}]
From(s) == [ssrc |-> s, pt |-> 0]
NoPacket == From(0)

\* A jitter buffer has room for a packet.
ASSUME SizesAssumption ==
  /\ JbufMax \in Nat \ {0} /\ MaxWorks \in Nat
  /\ Streams \subseteq [jbuf : BOOLEAN, packets : SUBSET Packets]

Threads == {"main", "rx"}

\* WORK_RTCP and WORK_MNATCONNH ("other") leave the receiver as it is.
Works == {<<"other", 0>>, <<"estab", 0>>} \cup {<<"pt", p>> : p \in Pts \cup {Tel}}

VARIABLES
  strm,  \* the stream
  r,     \* struct rtp_receiver with what stream.c and audio.c keep for it
  at,    \* of each thread: where it is in a handler, with which packet
  h      \* history

vars == <<strm, r, at, h>>

Idle == [pc |-> "idle", pkt |-> NoPacket, n |-> 0]

\* sock: the loop that reads the sockets.  dec: the loop that has tmr_decode.
\* jb: the sources of the packets in the jitter buffer.  aupt: the payload type of
\* the decoder.
NoReceiver ==
  [enabled |-> FALSE, run |-> FALSE, estab |-> FALSE, ssrc |-> 0, pseq |-> 0,
   changed |-> FALSE, pt |-> 0, start_rtcp |-> FALSE,
   sock |-> "main", dec |-> "none", thr |-> "none", tmr_rec |-> FALSE,
   use_rxthread |-> FALSE, jb |-> <<>>, works |-> <<>>, aupt |-> 0]

Init ==
  /\ strm \in Streams /\ r = NoReceiver
  /\ at = [t \in Threads |-> Idle]
  /\ h = [split |-> FALSE, told |-> FALSE, reset |-> FALSE, wild |-> FALSE,
          last |-> 0, unflagged |-> FALSE, heard |-> 0, freed |-> FALSE]

On(x, g) == [r |-> x, h |-> g]

-----------------------------------------------------------------------------
(* The handlers of the main thread *)

\* audio_decoder_set(), for a codec that can be set up: another one also flushes
\* the stream.
audio_decoder_set(x, p) ==
  [x EXCEPT !.aupt = p, !.jb = IF p = x.aupt THEN @ ELSE <<>>]

\* A handler of the application was called by thread t.
Called(y, t) == [y EXCEPT !.h.wild = @ \/ (t = "rx" /\ at["main"].pc # "join")]

\* stream_pt_handler(): a telephone event is decoded, a format is set.
stream_pt_handler(y, t, p) ==
  IF p = Tel THEN Called(y, t)
  ELSE Called([y EXCEPT !.r = audio_decoder_set(y.r, p), !.h.reset = FALSE], t)

\* stream_process_rtcp(), rtpestabh, stream_mnat_connected() and the pt handler.
Handle(y, t, w) ==
  CASE w[1] = "pt" -> stream_pt_handler(y, t, w[2])
    [] w[1] = "estab" -> Called([y EXCEPT !.h.heard = @ + 1], t)
    [] OTHER -> Called(y, t)

\* Mutant: the handler is called by the thread that has the packet.
pass_work_Direct(y, t, w) == Handle(y, t, w)

\* pass_rtcp_work(), pass_pt_work(), pass_rtpestab_work() and pass_mnat_work():
\* queued for the main thread while the RX thread runs.
pass_work(y, t, w) ==
  IF y.r.run THEN [y EXCEPT !.r.works = Append(@, w)] ELSE Handle(y, t, w)

Becomes(y) == r' = y.r /\ h' = y.h
MainFree == at["main"] = Idle /\ ~h.freed
Stay == UNCHANGED at

\* async_work_main()
async_work_main ==
  /\ MainFree /\ r.works # <<>>
  /\ Becomes(Handle(On([r EXCEPT !.works = Tail(@)], h), "main", Head(r.works)))
  /\ Stay

MnatConnected ==
  /\ MainFree /\ Len(r.works) < MaxWorks
  /\ Becomes(pass_work(On(r, h), "main", <<"other", 0>>)) /\ Stay

\* stream_start_receiver() of the timer, rtprecv_start_thread().
rtprecv_start_thread ==
  /\ MainFree /\ r.tmr_rec
  /\ LET x == [r EXCEPT !.tmr_rec = FALSE]
     IN  IF r.run THEN Becomes(On(x, h))
         ELSE \/ Becomes(On([x EXCEPT !.sock = "none", !.run = TRUE, !.thr = "new"],
                            [h EXCEPT !.split = r.dec = "main"]))
              \/ Faults /\ Becomes(On(x, h))
  /\ Stay

stream_enable_rx(x, enable) ==
  LET start == enable /\ ~x.run
  IN  [x EXCEPT !.enabled = enable, !.use_rxthread = @ \/ start,
                !.tmr_rec = @ \/ start]

\* audio_update() for a session that receives, or for one that is on hold.
audio_update ==
  /\ MainFree
  /\ \E recv \in BOOLEAN :
       LET d == IF recv THEN audio_decoder_set(r, 1) ELSE r
       IN  Becomes(On(stream_enable_rx(d, recv),
                      [h EXCEPT !.reset = @ \/ (recv /\ r.pt = 2)]))
  /\ Stay

\* An SDP attribute names the source.
rtprecv_set_ssrc ==
  /\ MainFree
  /\ \E p \in strm.packets : Becomes(On([r EXCEPT !.ssrc = p.ssrc], h))
  /\ Stay

rtprecv_flush == MainFree /\ Becomes(On([r EXCEPT !.jb = <<>>], h)) /\ Stay

\* stream_start_rtcp(): left to the RX thread where there is one.
stream_start_rtcp ==
  /\ MainFree
  /\ Becomes(On([r EXCEPT !.start_rtcp = @ \/ r.use_rxthread], h))
  /\ Stay

-----------------------------------------------------------------------------
(* The end of the receiver *)

\* What is left of the receiver when its memory is freed.
Freed(x) == [NoReceiver EXCEPT !.sock = x.sock, !.dec = x.dec, !.works = x.works]

\* stream_close() after an RTP timeout, or stream_destructor(): destructor() up to
\* what a running RX thread can see.
destructor ==
  /\ MainFree
  /\ IF r.run
     THEN /\ r' = [r EXCEPT !.enabled = FALSE]
          /\ at' = [at EXCEPT !["main"].pc = "stop"]
          /\ UNCHANGED h
     ELSE /\ r' = Freed([r EXCEPT !.sock = "none", !.dec = "none"])
          /\ h' = [h EXCEPT !.freed = TRUE]
          /\ Stay

destructor_stop ==
  /\ at["main"].pc = "stop"
  /\ r' = [r EXCEPT !.run = FALSE]
  /\ at' = [at EXCEPT !["main"].pc = "join"]
  /\ UNCHANGED h

\* re_thread_async_main_cancel() and the rest of the destructor.
Released(x) == Freed([x EXCEPT !.works = <<>>, !.dec = "none"])

destructor_join ==
  /\ at["main"].pc = "join" /\ r.thr \in {"done", "failed"}
  /\ r' = Released(r) /\ at' = [at EXCEPT !["main"] = Idle]
  /\ h' = [h EXCEPT !.freed = TRUE]

-----------------------------------------------------------------------------
(* The RX thread *)

\* rtprecv_thread() up to re_main().
rtprecv_thread ==
  /\ r.thr = "new"
  /\ \/ r' = [r EXCEPT !.thr = "loop", !.sock = "rx"]
     \/ Faults /\ r' = [r EXCEPT !.thr = "failed"]
  /\ UNCHANGED <<at, h>>

\* Mutant: the loop is not left.
PeriodicEnd_Loops(x) == [x EXCEPT !.sock = "none"]

PeriodicEnd(x) == [x EXCEPT !.dec = "none", !.sock = "none", !.thr = "done"]

\* rtcp_start() if it was asked for.
PeriodicRun(x) == [x EXCEPT !.start_rtcp = FALSE]

rtprecv_periodic ==
  /\ r.thr = "loop" /\ at["rx"] = Idle
  /\ r' = IF r.run THEN PeriodicRun(r) ELSE PeriodicEnd(r)
  /\ UNCHANGED <<at, h>>

-----------------------------------------------------------------------------
(* The sockets and the jitter buffer, on either thread *)

\* The loop of the thread can call a handler.
Ready(t) ==
  /\ at[t] = Idle /\ ~h.freed
  /\ t = "rx" => r.thr = "loop"

Go(t, pc, p, n) == at' = [at EXCEPT ![t] = [pc |-> pc, pkt |-> p, n |-> n]]
Done(t) == at' = [at EXCEPT ![t] = Idle]

\* The first packet: the application is told and the decode timer started.
FirstPacket(y, t) ==
  IF y.r.estab THEN y
  ELSE pass_work([y EXCEPT !.r.estab = TRUE, !.r.dec = t], t, <<"estab", 0>>)

FirstSource(y, p) ==
  IF y.r.pseq = 0 THEN [y EXCEPT !.r.ssrc = p.ssrc, !.r.pseq = p.ssrc]
  ELSE [y EXCEPT !.h.told = @ \/ (p.ssrc = y.r.ssrc /\ p.ssrc # y.r.pseq)]

\* rtprecv_decode(), what the mutex protects.
rtprecv_decode(t) ==
  /\ Ready(t) /\ r.sock = t /\ r.enabled /\ Len(r.works) < MaxWorks
  /\ \E p \in strm.packets :
       /\ Becomes(FirstSource(FirstPacket(On(r, h), t), p))
       /\ Go(t, IF r.pseq # 0 /\ p.ssrc # r.ssrc THEN "flush" ELSE "filter", p, 0)

\* rtprecv_resync(): jbuf_flush(), then the rest under the mutex.
resync_flush(t) ==
  /\ at[t].pc = "flush"
  /\ r' = [r EXCEPT !.jb = <<>>] /\ Go(t, "resync", at[t].pkt, 0)
  /\ UNCHANGED h

\* Mutant: ssrc_changed is not set.
Resynced_Silent(x, p) ==
  [x EXCEPT !.ssrc = p.ssrc, !.pseq = p.ssrc, !.pt = 0]

Resynced(x, p) ==
  [x EXCEPT !.ssrc = p.ssrc, !.pseq = p.ssrc, !.pt = 0,
            !.changed = TRUE]

rtprecv_resync(t) ==
  /\ at[t].pc = "resync"
  /\ r' = Resynced(r, at[t].pkt) /\ Go(t, "filter", at[t].pkt, 0)
  /\ UNCHANGED h

\* Telephone events (pt_tel) are all passed on, formats when they change.
rtprecv_filter_pt(x, p) == p.pt # x.pt \/ p.pt = Tel

\* rtprecv_filter_pt() with pass_pt_work(); the handler's error ends the packet.
FilterPt(t) ==
  /\ at[t].pc = "filter"
  /\ LET p == at[t].pkt
         x == [r EXCEPT !.pt = p.pt]
     IN  IF rtprecv_filter_pt(r, p)
         THEN /\ Becomes(pass_work(On(x, h), t, <<"pt", p.pt>>))
              /\ IF ~r.run /\ p.pt = Tel THEN Done(t) ELSE Go(t, "put", From(p.ssrc), 0)
         ELSE UNCHANGED <<r, h>> /\ Go(t, "put", From(p.ssrc), 0)

\* jbuf_put(): a packet of another source flushes, the oldest one makes room.
jbuf_put(l, s) ==
  IF l # <<>> /\ l[1] # s THEN <<s>>
  ELSE IF Len(l) = JbufMax THEN Append(Tail(l), s) ELSE Append(l, s)

PutPacket(t) ==
  /\ at[t].pc = "put"
  /\ IF strm.jbuf THEN r' = [r EXCEPT !.jb = jbuf_put(@, at[t].pkt.ssrc)] /\ Done(t)
     ELSE r' = r /\ Go(t, "pass", at[t].pkt, 0)
  /\ UNCHANGED h

\* rtprecv_handle_rtcp(): the mutex, then the work.
rtprecv_handle_rtcp(t) ==
  /\ Ready(t) /\ r.sock = t /\ r.enabled /\ Len(r.works) < MaxWorks
  /\ UNCHANGED <<r, h>> /\ Go(t, "rtcp", NoPacket, 0)

pass_rtcp_work(t) ==
  /\ at[t].pc = "rtcp"
  /\ Becomes(pass_work(On(r, h), t, <<"other", 0>>)) /\ Done(t)

-----------------------------------------------------------------------------
(* Decoding *)

\* decode_tmr() and decode_frames(); without a jitter buffer it does nothing.
decode_tmr(t) ==
  /\ Ready(t) /\ r.dec = t
  /\ r' = [r EXCEPT !.dec = "none"]
  /\ IF strm.jbuf THEN Go(t, "frames", NoPacket, Len(r.jb)) ELSE Done(t)
  /\ UNCHANGED h

FramesEnd(x, t) == [x EXCEPT !.dec = t]

\* No packet is due, or the buffer is empty.
decode_end(t) ==
  /\ at[t].pc = "frames"
  /\ r' = FramesEnd(r, t) /\ Done(t)
  /\ UNCHANGED h

decode_get(t) ==
  /\ at[t].pc = "frames" /\ r.jb # <<>>
  /\ r' = [r EXCEPT !.jb = Tail(@)] /\ Go(t, "lost", From(Head(r.jb)), at[t].n)
  /\ UNCHANGED h

\* lostcalc(): a late or a doubled packet does not count.
lostcalc(t) ==
  /\ at[t].pc = "lost"
  /\ \E new \in BOOLEAN : r' = [r EXCEPT !.pseq = IF new THEN at[t].pkt.ssrc ELSE @]
  /\ Go(t, "hand", at[t].pkt, at[t].n)
  /\ UNCHANGED h

\* A packet of another source than the last one must be marked; not looked at when
\* the sources cannot be told apart any more.
Heard(g, x, p) ==
  IF g.split \/ g.told THEN [g EXCEPT !.last = 0]
  ELSE [g EXCEPT !.last = p.ssrc,
                 !.unflagged = @ \/ (g.last \notin {0, p.ssrc} /\ ~x.changed)]

\* handle_rtp() with rtprecv_consume_ssrc_change(): the audio decoder is reset
\* for a new source.
handle_rtp(p) ==
  /\ r' = [r EXCEPT !.changed = FALSE]
  /\ h' = Heard(h, r, p)

decode_hand(t) ==
  /\ at[t].pc = "hand" /\ at[t].n > 0
  /\ handle_rtp(at[t].pkt) /\ Go(t, "frames", NoPacket, at[t].n - 1)

\* while (n--): the last one, and the timer.
decode_last(t) ==
  /\ at[t].pc = "hand" /\ at[t].n = 0
  /\ r' = FramesEnd([r EXCEPT !.changed = FALSE], t)
  /\ h' = Heard(h, r, at[t].pkt)
  /\ Done(t)

PassPacket(t) ==
  /\ at[t].pc = "pass" /\ handle_rtp(at[t].pkt) /\ Done(t)

Loop(t) ==
  \/ rtprecv_decode(t) \/ rtprecv_handle_rtcp(t) \/ decode_tmr(t)

Handler(t) ==
  \/ resync_flush(t) \/ rtprecv_resync(t) \/ FilterPt(t) \/ PutPacket(t)
  \/ pass_rtcp_work(t) \/ decode_end(t) \/ decode_get(t) \/ lostcalc(t)
  \/ decode_hand(t) \/ decode_last(t) \/ PassPacket(t)

\* The rest of what the main thread has begun.
MainStep == Handler("main") \/ destructor_stop \/ destructor_join

RxStep == Handler("rx") \/ rtprecv_thread

Next ==
  /\ \/ async_work_main \/ MnatConnected \/ rtprecv_start_thread \/ audio_update
     \/ rtprecv_set_ssrc \/ rtprecv_flush \/ stream_start_rtcp \/ destructor
     \/ rtprecv_periodic \/ MainStep \/ RxStep
     \/ \E t \in Threads : Loop(t)
  /\ UNCHANGED strm

Spec == Init /\ [][Next]_vars

\* A thread finishes its handlers; an event loop looks at its timers in every
\* round, however many packets there are.
FairSpec ==
  Spec /\ WF_vars(MainStep) /\ WF_vars(RxStep) /\ SF_vars(rtprecv_periodic)

-----------------------------------------------------------------------------
(* Properties *)

\* The queue of works and the jitter buffer keep to their bounds and types, the
\* sockets and the decode timer belong to one loop or to none.
TypeOK ==
  /\ r.works \in Seq(Works) /\ Len(r.works) <= MaxWorks + 1
  /\ r.jb \in Seq(Ssrcs) /\ Len(r.jb) <= JbufMax
  /\ r.sock \in Threads \cup {"none"} /\ r.dec \in Threads \cup {"none"}
  /\ \A t \in Threads : at[t].pkt.ssrc \in Ssrcs \cup {0}

\* Nothing reaches a receiver that was freed (destructor()): no work is queued for
\* the main thread, neither loop has its decode timer or its sockets, and the RX
\* thread is in none of its handlers.
FreedQuiet ==
  h.freed => /\ r.works = <<>> /\ r.dec = "none" /\ r.sock = "none"
             /\ at = [t \in Threads |-> Idle]

\* The handlers of the stream and the call (payload type, RTP established, RTCP,
\* media-NAT) are called by the main thread; by the RX thread only while the main
\* thread waits for it in the destructor, where `run` is false already.
HandlersOnMain == ~h.wild

\* The decoder is told of a new source with the first packet that is handed to it
\* from there (ssrc_changed), whatever the other thread does; unless decode_tmr
\* stayed with the main thread, since the first packet came before the RX thread
\* was started, or the SDP had named the source (rtprecv_set_ssrc()).
SourceFlagged == ~h.unflagged

Pending(k) == {i \in DOMAIN r.works : r.works[i][1] = k}

\* When no change of the payload type is on its way to the main thread the decoder
\* has the format of the packets, else aurecv_receive() ignores them all; unless
\* audio_update() has set the format of the SDP since.
FormatFollows ==
  r.pt \in Pts /\ ~h.reset /\ Pending("pt") = {} => r.aupt = r.pt

\* The application hears exactly once that RTP is established: the work is on its
\* way or was done, and there is no second one.
EstabOnce ==
  ~h.freed =>
    h.heard + Cardinality(Pending("estab")) = IF r.estab THEN 1 ELSE 0

InFrames(t) == at[t].pc \in {"frames", "lost", "hand"}

\* Once packets come the jitter buffer is emptied again and again, by whichever
\* thread, until the receiver ends.
DecodeKept ==
  r.estab /\ strm.jbuf /\ r.thr # "done" =>
    r.dec # "none" \/ \E t \in Threads : InFrames(t)

\* The destructor, with its join of the RX thread, returns.
ReceiverEnds == (at["main"].pc \in {"stop", "join"}) ~> h.freed

\* RTCP that the main thread asks for is started by the RX thread, unless there is
\* none: it is not started yet, or it could not be.
RtcpStarts ==
  r.start_rtcp ~> (~r.start_rtcp \/ r.thr \in {"failed", "none"})

\* The handlers of the stream and the call hear from the main thread, of RTP once,
\* and not at all from a receiver that is freed; the works keep to their queue.
Callbacks == TypeOK /\ HandlersOnMain /\ EstabOnce /\ FreedQuiet

\* The decoder gets what the peer sends: it is called again and again, told of a
\* new source and given the format of the packets.
DecoderFollows == DecodeKept /\ SourceFlagged /\ FormatFollows

\* The RX thread does what the main thread asks of it: it starts RTCP, and ends.
ReceiverServes == ReceiverEnds /\ RtcpStarts
=============================================================================
