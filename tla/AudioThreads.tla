---------------------------- MODULE AudioThreads ----------------------------
(***************************************************************************)
(* The two parts of an audio stream that share an object with a thread     *)
(* other than the main one: the mixing filter on the way out (Mixausrc)    *)
(* and the RTP receiver on the way in (RtpRecv).  They have nothing in     *)
(* common, so a behaviour is one of the one or one of the other.           *)
(***************************************************************************)
EXTENDS Mixausrc, RtpRecv

VARIABLE side   \* the direction that is looked at

Packet(s, p) == [ssrc |-> s, pt |-> p]

\* Another source, another format, and telephone events without jitter buffer.
MCStreams ==
  {[jbuf |-> TRUE, packets |-> {Packet(1, 1), Packet(2, 1)}],
   [jbuf |-> TRUE, packets |-> {Packet(1, 1), Packet(1, 2)}],
   [jbuf |-> FALSE, packets |-> {Packet(1, 1), Packet(1, 9)}]}

InitThreads == mixstatus_init /\ Init /\ side \in {"out", "in"}

Outward == side = "out" /\ UNCHANGED <<vars, side>>
Inward == side = "in" /\ UNCHANGED <<mixvars, strm, side>>

NextThreads == (Outward /\ MixNext) \/ (Inward /\ Next)

\* The fairness of MixFairSpec on the way out, that of FairSpec on the way in.
SpecThreads ==
  /\ InitThreads /\ [][NextThreads]_<<mixvars, vars, side>>
  /\ WF_<<mixvars, vars>>((Outward /\ join) \/ (Inward /\ MainStep))
  /\ WF_<<mixvars, vars>>((Outward /\ Source) \/ (Inward /\ RxStep))
  /\ SF_<<mixvars, vars>>((Outward /\ Frames) \/ (Inward /\ rtprecv_periodic))
  /\ SF_<<mixvars, vars>>(Outward /\ free)
=============================================================================
