------------------------------- MODULE CallOps -------------------------------
(***************************************************************************)
(* The operations of src/call.c on one `struct call`, as functions from    *)
(* the record before the operation to the record after it.  A C function   *)
(* that calls another one is the composition of the two operators, so that *)
(* a handler is translated with everything it calls, in the order it calls *)
(* it.  The specification Call takes its steps from here.                  *)
(*                                                                         *)
(* The SIP session (struct sipsess, in libre) is external: `sess` is what  *)
(* the code can observe of it.                                             *)
(***************************************************************************)
EXTENDS Naturals

CONSTANTS
  LocalTimeout,   \* config call.local_timeout is not 0
  Mnat,           \* the account uses a media-NAT module (acc->mnat)
  Rel100,         \* the account and the peer support 100rel
  Early,          \* the account's answermode is one of the early modes
  Refer,          \* the account accepts REFER (acc->refer)
  RtpTimeout,     \* config avt.rtp_timeout is not 0
  Faults          \* SDP, media and subscription functions may fail

ASSUME ConfigAssumption ==
  /\ LocalTimeout \in BOOLEAN
  /\ Mnat \in BOOLEAN
  /\ Rel100 \in BOOLEAN
  /\ Early \in BOOLEAN
  /\ Refer \in BOOLEAN
  /\ RtpTimeout \in BOOLEAN
  /\ Faults \in BOOLEAN

\* The result of a library function that may fail.
Outcome == IF Faults THEN BOOLEAN ELSE {TRUE}

CallStates == {"IDLE", "INCOMING", "OUTGOING", "RINGING", "EARLY",
               "ESTABLISHED", "TERMINATED", "TRANSFER"}

\* No object yet, and the object after its destructor.
NoObject == {"NONE", "FREED"}

\* What the code can tell of call->sess: there is none, an INVITE of the peer
\* waits for a final response, our 200 waits for the ACK, our INVITE waits for a
\* final response, the session is established.
SessStates == {"none", "invited", "answered", "inviting", "estab"}

\* The reliable provisional response that waits for its PRACK, if any.
Rel1xxStates == {"none", "nosdp", "sdp"}

\* remote: an SDP of the peer was decoded; negotiated: the session has handed us
\* the SDP answer to our offer.
\* announced, estab and closed count the events the application was given: the
\* first one that names the call (INCOMING or OUTGOING), ESTABLISHED, CLOSED.
CallRec == [state : CallStates \cup NoObject, sess : SessStates,
            rel1xx : Rel1xxStates, outgoing : BOOLEAN, answered : BOOLEAN,
            ans_queued : BOOLEAN, progr_queued : BOOLEAN, mnat_wait : BOOLEAN,
            got_offer : BOOLEAN, remote : BOOLEAN, negotiated : BOOLEAN,
            tmr_inv : BOOLEAN, tmr_answ : BOOLEAN, tmr_reinv : BOOLEAN,
            media : BOOLEAN, on_hold : BOOLEAN, xnot : BOOLEAN, xsub : BOOLEAN,
            xcall : BOOLEAN, refused : BOOLEAN, announced : Nat, estab : Nat, closed : Nat]

NoCall == [state |-> "NONE", sess |-> "none",
           rel1xx |-> "none", outgoing |-> FALSE, answered |-> FALSE,
           ans_queued |-> FALSE, progr_queued |-> FALSE, mnat_wait |-> FALSE,
           got_offer |-> FALSE, remote |-> FALSE, negotiated |-> FALSE,
           tmr_inv |-> FALSE, tmr_answ |-> FALSE, tmr_reinv |-> FALSE,
           media |-> FALSE, on_hold |-> FALSE, xnot |-> FALSE, xsub |-> FALSE,
           xcall |-> FALSE, refused |-> FALSE, announced |-> 0, estab |-> 0, closed |-> 0]

Live(c) == c.state \notin NoObject

-----------------------------------------------------------------------------
(* Building blocks *)

\* The application is told of the call for the first time.
Announce(c) == [c EXCEPT !.announced = @ + 1]

call_alloc(offer) ==
  [NoCall EXCEPT !.state = "IDLE", !.got_offer = offer, !.remote = offer,
                 !.mnat_wait = TRUE]

call_stream_stop(c) == [c EXCEPT !.media = FALSE, !.tmr_inv = FALSE]

\* The media functions start the streams that know the address of the peer.
call_update_media(c, ok) == [c EXCEPT !.media = @ \/ (c.remote /\ ok)]

\* Mutant: tmr_cancel(&call->tmr_inv) is forgotten.
call_timer_start_kept(c) == c

call_timer_start(c) == [c EXCEPT !.tmr_inv = FALSE]

\* The destructor stops the streams and every timer and drops the session and
\* the subscriptions; only what the application was told remains.
call_destructor(c) ==
  [NoCall EXCEPT !.state = "FREED", !.announced = c.announced,
                 !.estab = c.estab, !.closed = c.closed]

\* Mutant: the event is emitted, mem_deref(call) is forgotten.
EvClosed_kept(c) == [c EXCEPT !.closed = @ + 1]

\* CALL_EVENT_CLOSED: the user agent tells the application and drops the call.
EvClosed(c) == call_destructor([c EXCEPT !.closed = @ + 1])

\* A NOTIFY with a final status ends the implicit subscription of the REFER.
call_notify_sipfrag(c, scode) ==
  IF scode >= 200 THEN [c EXCEPT !.xnot = FALSE] ELSE c

-----------------------------------------------------------------------------
(* Answering *)

sipsess_awaiting_prack(c) == c.rel1xx = "sdp"

\* Mutant: sipsess_awaiting_prack() is not asked.
call_answer_unchecked(c, ok) ==
  IF c.state = "INCOMING" /\ c.sess = "invited" /\ ok
  THEN [c EXCEPT !.tmr_answ = FALSE, !.sess = "answered", !.answered = TRUE,
                 !.ans_queued = FALSE]
  ELSE c

\* call_answer() with the result `ok` of the SDP functions.  The timer of the
\* delayed answer is cancelled before the checks that may refuse the answer.
call_answer(c, ok) ==
  LET a == [c EXCEPT !.tmr_answ = FALSE]
  IN  IF c.sess = "none" THEN c
      ELSE IF \/ c.state # "INCOMING"
              \/ sipsess_awaiting_prack(c)
              \/ ~ok
              \/ c.sess # "invited"
           THEN a
           ELSE [a EXCEPT !.sess = "answered", !.answered = TRUE,
                          !.ans_queued = FALSE]

\* call_progress(): a 183 with SDP, sent reliably when `rel`.  The session says
\* EAGAIN while a reliable response waits for its PRACK.
call_progress(c, rel, ok) ==
  LET p == [c EXCEPT !.tmr_inv = FALSE]
  IN  IF ~ok THEN p
      ELSE IF c.sess # "invited" THEN [p EXCEPT !.progr_queued = FALSE]
      ELSE IF c.rel1xx # "none" THEN [p EXCEPT !.progr_queued = TRUE]
      ELSE call_update_media(
             [p EXCEPT !.progr_queued = FALSE,
                       !.rel1xx = IF rel THEN "sdp" ELSE "none"],
             c.got_offer)

delayed_answer_handler(c, ok) ==
  LET f == [c EXCEPT !.tmr_answ = FALSE]
  IN  IF sipsess_awaiting_prack(c) THEN [f EXCEPT !.ans_queued = TRUE]
      ELSE call_answer(f, ok)

\* Mutant: the queued answer is taken off the queue and not sent.
prack_handler_lost(c, rel, ok) ==
  IF c.ans_queued /\ ~c.answered THEN [c EXCEPT !.ans_queued = FALSE]
  ELSE IF c.progr_queued /\ ~c.answered THEN call_progress(c, rel, ok)
  ELSE c

prack_handler(c, rel, ok) ==
  IF c.ans_queued /\ ~c.answered THEN call_answer(c, ok)
  ELSE IF c.progr_queued /\ ~c.answered THEN call_progress(c, rel, ok)
  ELSE c

call_start_answtmr(c) == [c EXCEPT !.tmr_answ = TRUE]

-----------------------------------------------------------------------------
(* Incoming calls *)

\* Mutant: BEVENT_CALL_INCOMING is not emitted.
EvIncoming_silent(c, blocked, rel, ok) ==
  IF blocked THEN EvClosed(c) ELSE IF Early THEN call_progress(c, rel, ok) ELSE c

\* CALL_EVENT_INCOMING in the user agent: a blocked contact is closed at once,
\* otherwise the application is told and the early modes send a 183.
EvIncoming(c, blocked, rel, ok) ==
  IF blocked THEN EvClosed(c)
  ELSE IF Early THEN call_progress(Announce(c), rel, ok)
  ELSE Announce(c)

\* The branches of call_accept() that answer 488 or 481 and close the call.
call_accept_refuse(c) == EvClosed(c)

\* call_accept(): the 180 goes out (reliably when `rel`), the call is INCOMING
\* and, unless media-NAT candidates are still gathered, the user agent is told.
call_accept(c, blocked, rel, ok) ==
  LET a == [c EXCEPT !.outgoing = FALSE, !.sess = "invited",
                     !.rel1xx = IF rel THEN "nosdp" ELSE "none",
                     !.state = "INCOMING", !.tmr_inv = LocalTimeout]
  IN  IF Mnat THEN a ELSE EvIncoming(a, blocked, rel, ok)

\* call_accept() of another call whose Replaces header names this one.
call_replaced(c) == EvClosed(call_stream_stop(c))

invite_timeout(c) == EvClosed([c EXCEPT !.tmr_inv = FALSE])

-----------------------------------------------------------------------------
(* Outgoing calls *)

\* send_invite(): without a session when sipsess_connect() fails.
send_invite(c, ok) == [c EXCEPT !.sess = IF ok THEN "inviting" ELSE @]

\* call_connect(): the application is told, and the INVITE is sent now or, with
\* media-NAT, when the candidates are gathered.  A failure is returned to
\* ua_connect_dir(), which drops the call.
call_connect(c, ok) ==
  LET o == Announce([c EXCEPT !.outgoing = TRUE, !.state = "OUTGOING"])
  IN  IF ~ok THEN call_destructor(o)
      ELSE IF Mnat THEN o ELSE send_invite(o, TRUE)

\* sipsess_progr_handler(): 180 and 183 set the state.  SDP is decoded and the
\* application told, which may start the media (`start`, limit_earlymedia() of
\* the menu); without SDP the media is stopped.
sipsess_progr_handler(c, scode, sdp, start) ==
  LET s == [c EXCEPT !.state = CASE scode = 180 -> "RINGING"
                                 [] scode = 183 -> "EARLY"
                                 [] OTHER -> @]
  IN  IF scode <= 100 THEN c
      ELSE IF sdp THEN call_update_media([s EXCEPT !.remote = TRUE], start)
      ELSE call_stream_stop(s)

\* Mutant: the answer is decoded, update_media() is not called.
sipsess_answer_handler_idle(c) ==
  [c EXCEPT !.got_offer = FALSE, !.negotiated = TRUE, !.remote = TRUE]

\* sipsess_answer_handler(), for an SDP answer that can be decoded and applied.
sipsess_answer_handler(c) ==
  call_update_media([c EXCEPT !.got_offer = FALSE, !.negotiated = TRUE,
                              !.remote = TRUE], TRUE)

\* sipsess_offer_handler(), for an offer that can be decoded and applied.
sipsess_offer_handler(c) ==
  call_update_media([c EXCEPT !.got_offer = TRUE, !.remote = TRUE], TRUE)

-----------------------------------------------------------------------------
(* Both directions *)

\* call_modify(): re-INVITE or UPDATE when the session allows it, then media.
call_modify(c, ok) == call_update_media(c, ok)

call_hold(c, hold, ok) ==
  IF c.sess = "none" \/ hold = c.on_hold THEN c
  ELSE call_modify([c EXCEPT !.on_hold = hold], ok)

\* mnat_handler(): candidates are gathered, or gathering failed.
mnat_handler(c, failed, blocked, rel, ok) ==
  LET g == [c EXCEPT !.mnat_wait = FALSE]
  IN  IF failed THEN EvClosed(c)
      ELSE IF ~c.mnat_wait THEN call_modify(c, ok)
      ELSE CASE c.state = "OUTGOING" -> send_invite(g, ok)
             [] c.state = "INCOMING" -> EvIncoming(g, blocked, rel, ok)
             [] OTHER -> g

\* sipsess_estab_handler(): the first time, whatever the state was.
sipsess_estab_handler(c) ==
  LET s == [c EXCEPT !.state = "ESTABLISHED", !.media = @ \/ c.got_offer]
      t == call_timer_start(s)
      n == IF c.xnot THEN call_notify_sipfrag(t, 200) ELSE t
  IN  IF c.state = "ESTABLISHED" THEN c
      ELSE [n EXCEPT !.tmr_reinv = TRUE, !.estab = @ + 1]

\* set_established_mdir(): a re-INVITE if the directions differ (`need`).
set_established_mdir(c, need, ok) ==
  LET f == [c EXCEPT !.tmr_reinv = FALSE]
  IN  IF need THEN call_modify(f, ok) ELSE f

\* sipsess_close_handler() up to the event; xfer_cleanup() acts on the other
\* call of a transfer.
sipsess_close_handler(c) ==
  EvClosed(call_stream_stop([c EXCEPT !.xnot = FALSE, !.xcall = FALSE]))

\* call_hangupf(): reject or abort an incoming call, terminate any other.
call_hangupf(c) ==
  LET n == IF c.state # "INCOMING"
           THEN [c EXCEPT !.xnot = FALSE, !.sess = "none"] ELSE c
  IN  call_stream_stop([n EXCEPT !.state = "TERMINATED"])

\* Mutant: CLOSED is not emitted and the call not dropped.
ua_hangupf_silent(c) == call_hangupf(c)

\* ua_hangupf(): hang up, tell the application, drop the call.
ua_hangupf(c) == EvClosed(call_hangupf(c))

stream_error_handler(c) ==
  EvClosed(call_stream_stop([c EXCEPT !.state = "TERMINATED"]))

menc_error_handler(c) == EvClosed(call_stream_stop(c))

-----------------------------------------------------------------------------
(* Call transfer *)

\* CALL_EVENT_TRANSFER_FAILED: the application resumes the call.
EvTransferFailed(c, ok) == call_hold(c, FALSE, ok)

\* sipsess_refer_handler() with the application's answer to CALL_EVENT_TRANSFER:
\* a second call is connected, or the failure is notified.
sipsess_refer_handler(c, accepted, connected) ==
  LET n == [c EXCEPT !.xnot = TRUE, !.state = "TRANSFER"]
  IN  IF ~accepted THEN [c EXCEPT !.xnot = FALSE]
      ELSE IF connected THEN [n EXCEPT !.xcall = TRUE]
      ELSE call_notify_sipfrag(n, 500)

\* xfer_cleanup(), run by the close handler of the second call: c is the first.
xfer_cleanup(c, ok) ==
  LET e == [c EXCEPT !.state = "ESTABLISHED"]
      f == IF c.state = "TRANSFER" THEN EvTransferFailed(e, ok) ELSE c
  IN  [f EXCEPT !.xcall = FALSE]

\* sipnot_close_handler(): the subscription of the REFER ended, badly if `bad`.
sipnot_close_handler(c, bad, ok) ==
  LET n == [c EXCEPT !.xnot = FALSE]
  IN  IF bad THEN EvTransferFailed(n, ok) ELSE n

call_transfer(c, ok) == [c EXCEPT !.xsub = ok]

\* sipsub_notify_handler(): a 2xx fragment closes the call, a higher one says
\* that the transfer failed.
sipsub_notify_handler(c, scode, ok) ==
  IF scode >= 300 THEN EvTransferFailed(c, ok)
  ELSE IF scode >= 200 THEN EvClosed(c)
  ELSE c

sipsub_close_handler(c, bad, ok) ==
  LET n == [c EXCEPT !.xsub = FALSE]
  IN  IF bad THEN EvTransferFailed(n, ok) ELSE n
=============================================================================
