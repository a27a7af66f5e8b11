-------------------------------- MODULE Call --------------------------------
(***************************************************************************)
(* One call of a user agent: the handlers of the SIP session, the timers   *)
(* of the call, the media callbacks and the functions the application      *)
(* calls, each one run to completion by the event loop and interleaved in  *)
(* any order the session allows.  The operations are those of CallOps.     *)
(***************************************************************************)
EXTENDS CallOps

CONSTANTS
  DenyAutoAnswer,  \* the account does not allow the peer's auto-answer header
  RequireRel100    \* rel100_mode is "required" and the peer may not support it

ASSUME AdmissionAssumption ==
  DenyAutoAnswer \in BOOLEAN /\ RequireRel100 \in BOOLEAN

VARIABLE call      \* struct call, and what the application was told of it

Init == call = NoCall

Alive == Live(call)

\* A response is sent reliably if both sides support 100rel and want to.
Reliable == IF Rel100 THEN BOOLEAN ELSE {FALSE}

-----------------------------------------------------------------------------
(* INVITE of the peer *)

\* The header "Answer-Mode: Auto" where it is not allowed: call_alloc() hangs up
\* a call that has no session yet, and goes on.
call_rfc5373_autoanswer(c, denied) ==
  IF denied THEN [call_hangupf(c) EXCEPT !.refused = TRUE] ELSE c

\* A peer without 100rel, where it is required, is answered 421.
check_rel100(c, missing) == [c EXCEPT !.refused = @ \/ missing]

sipsess_conn_handler ==
  /\ call.state = "NONE"
  /\ \E offer \in BOOLEAN, blocked \in BOOLEAN, rel \in Reliable, ok \in Outcome,
        denied \in {FALSE, DenyAutoAnswer}, missing \in {FALSE, RequireRel100} :
       LET c == check_rel100(call_rfc5373_autoanswer(call_alloc(offer), denied),
                             missing)
       IN  \/ call' = call_accept(c, blocked, rel, ok)
           \/ call' = call_accept_refuse(c)
           \/ Faults /\ call' = call_destructor(c)

\* An INVITE whose Replaces header names this call.
RecvReplaces == Alive /\ call' = call_replaced(call)

\* PRACK: the session forgets the provisional response and tells the call.
RecvPrack ==
  /\ Alive /\ call.rel1xx # "none"
  /\ \E rel \in Reliable, ok \in Outcome :
       call' = prack_handler([call EXCEPT !.rel1xx = "none"], rel, ok)

\* ACK to our 200: the answer to an offer we made comes with it.  An answer that
\* cannot be used ends the session.
RecvAck ==
  /\ Alive /\ call.sess = "answered"
  /\ LET e == [call EXCEPT !.sess = "estab"]
     IN  IF call.got_offer THEN call' = sipsess_estab_handler(e)
         ELSE \/ call' = sipsess_estab_handler(sipsess_answer_handler(e))
              \/ Faults /\ call' = sipsess_close_handler(e)

-----------------------------------------------------------------------------
(* Responses to our INVITE *)

\* A provisional response; SDP in a reliable one is the answer to our offer.
Recv1xx ==
  /\ Alive /\ call.sess = "inviting"
  /\ \E scode \in {180, 181, 183}, sdp \in BOOLEAN, rel \in Reliable,
        start \in BOOLEAN :
       LET c == IF sdp /\ rel /\ ~call.negotiated
                THEN sipsess_answer_handler(call) ELSE call
       IN  call' = sipsess_progr_handler(c, scode, sdp, start)

\* A 200; its SDP is the answer unless a provisional response brought it.
Recv2xx ==
  /\ Alive /\ call.sess = "inviting"
  /\ LET e == [call EXCEPT !.sess = "estab"]
     IN  IF call.negotiated THEN call' = sipsess_estab_handler(e)
         ELSE \/ call' = sipsess_estab_handler(sipsess_answer_handler(e))
              \/ Faults /\ call' = sipsess_close_handler(e)

\* CANCEL, BYE, a final error response, a transaction that times out.
SessClose ==
  Alive /\ call.sess # "none" /\ call' = sipsess_close_handler(call)

-----------------------------------------------------------------------------
(* Requests within the dialog *)

\* Re-INVITE or UPDATE with an offer, and the answer to ours.
RecvOffer ==
  /\ Alive /\ call.sess = "estab"
  /\ \/ call' = sipsess_offer_handler(call)
     \/ Faults /\ call' = [call EXCEPT !.got_offer = TRUE]

RecvModifyAnswer ==
  /\ Alive /\ call.sess = "estab"
  /\ call' = sipsess_answer_handler(call)

\* REFER of the peer; it may overtake the ACK.  Bound: one transfer at a time.
RecvRefer ==
  /\ Refer /\ Alive /\ call.sess \in {"answered", "estab"}
  /\ ~call.xcall
  /\ \E accepted \in Outcome, connected \in BOOLEAN :
       call' = sipsess_refer_handler(call, accepted, connected)

\* The other call of a transfer closes: its close handler cleans up this one.
XferCallClosed ==
  /\ Alive /\ call.xcall
  /\ \E ok \in Outcome : call' = xfer_cleanup(call, ok)

RecvNotifyEnd ==
  /\ Alive /\ call.xnot
  /\ \E bad \in BOOLEAN, ok \in Outcome :
       call' = sipnot_close_handler(call, bad, ok)

RecvSipfrag ==
  /\ Alive /\ call.xsub
  /\ \E scode \in {100, 200, 486}, ok \in Outcome :
       call' = sipsub_notify_handler(call, scode, ok)

RecvSubEnd ==
  /\ Alive /\ call.xsub
  /\ \E bad \in BOOLEAN, ok \in Outcome :
       call' = sipsub_close_handler(call, bad, ok)

-----------------------------------------------------------------------------
(* Timers and media *)

InviteTimeout == Alive /\ call.tmr_inv /\ call' = invite_timeout(call)

DelayedAnswer ==
  /\ Alive /\ call.tmr_answ
  /\ \E ok \in Outcome : call' = delayed_answer_handler(call, ok)

EstablishedMdir ==
  /\ Alive /\ call.tmr_reinv
  /\ \E need \in BOOLEAN, ok \in Outcome :
       call' = set_established_mdir(call, need, ok)

\* The media-NAT module reports; once the call is set up it may do so again.
MnatReport ==
  /\ Mnat /\ Alive /\ (call.mnat_wait \/ call.sess = "estab")
  /\ \E failed \in BOOLEAN, blocked \in BOOLEAN, rel \in Reliable,
        ok \in Outcome :
       call' = mnat_handler(call, failed, blocked, rel, ok)

StreamError ==
  /\ RtpTimeout /\ Alive /\ call.estab > 0 /\ call.media
  /\ call' = stream_error_handler(call)

\* Media encryption fails, or cannot be started once media-NAT is connected.
MencError ==
  /\ Faults /\ Alive /\ call.sess # "none"
  /\ call' = menc_error_handler(call)

-----------------------------------------------------------------------------
(* The application *)

\* A new call; one made for a REFER (`xfer`) shares the notifier of the call that
\* received it.
UserConnect ==
  /\ call.state = "NONE"
  /\ \E xfer \in {FALSE, Refer}, ok \in Outcome :
       call' = call_connect([call_alloc(FALSE) EXCEPT !.xnot = xfer,
                                                      !.xcall = xfer], ok)

UserAnswer ==
  /\ Alive
  /\ \E ok \in Outcome : call' = call_answer(call, ok)

UserProgress ==
  /\ Alive
  /\ \E rel \in Reliable, ok \in Outcome : call' = call_progress(call, rel, ok)

UserAutoAnswer ==
  /\ Alive /\ call.state = "INCOMING" /\ call.announced > 0
  /\ call' = call_start_answtmr(call)

UserHangup == Alive /\ call' = ua_hangupf(call)

UserHold ==
  /\ Alive
  /\ \E hold \in BOOLEAN, ok \in Outcome : call' = call_hold(call, hold, ok)

\* A re-INVITE on request, or since the local address changed.
UserModify ==
  /\ Alive
  /\ \E ok \in Outcome : call' = call_modify(call, ok)

UserTransfer ==
  /\ Alive /\ call.sess = "estab"
  /\ \E ok \in Outcome : call' = call_transfer(call, ok)

-----------------------------------------------------------------------------
Next ==
  \/ sipsess_conn_handler \/ RecvReplaces \/ RecvPrack \/ RecvAck
  \/ Recv1xx \/ Recv2xx \/ SessClose
  \/ RecvOffer \/ RecvModifyAnswer
  \/ RecvRefer \/ XferCallClosed \/ RecvNotifyEnd \/ RecvSipfrag \/ RecvSubEnd
  \/ InviteTimeout \/ DelayedAnswer \/ EstablishedMdir
  \/ MnatReport \/ StreamError \/ MencError
  \/ UserConnect \/ UserAnswer \/ UserProgress \/ UserAutoAnswer
  \/ UserHangup \/ UserHold \/ UserModify \/ UserTransfer

Spec == Init /\ [][Next]_call

\* The event loop runs every timer that expires.  The SIP stack ends a session
\* whose reliable response is not acknowledged by a PRACK, or whose 200 is not
\* acknowledged by an ACK.
Fairness ==
  /\ WF_call(InviteTimeout)
  /\ WF_call(DelayedAnswer)
  /\ WF_call(EstablishedMdir)
  /\ WF_call((RecvPrack \/ SessClose) /\ call.rel1xx # "none")
  /\ WF_call((RecvAck \/ SessClose) /\ call.sess = "answered")

-----------------------------------------------------------------------------
(* Properties *)

\* Every field of struct call keeps the values call.c gives it.
TypeOK == call \in CallRec

\* The local timeout of an unanswered call (tmr_inv, started by call_accept())
\* never runs on a call the application was told is established: invite_timeout()
\* would cut it.  It never runs on an outgoing call either.
LocalTimeoutBeforeEstab ==
  call.tmr_inv => call.estab = 0 /\ ~call.outgoing

\* While a 1xx with SDP waits for its PRACK no path (the user, the delayed
\* answer, the PRACK handler) sends the 200, and no 1xx with SDP follows it.
NoAnswerBeforePrack ==
  call.answered => ~sipsess_awaiting_prack(call)

\* An answer queued by delayed_answer_handler() waits for a PRACK that is still
\* to come: the PRACK handler leaves no answer behind in the queue.
QueuedAnswerWaits ==
  call.ans_queued /\ call.state = "INCOMING" => sipsess_awaiting_prack(call)

\* A session exists only between the call's set-up and its end, and a call that
\* has been established keeps it until it is closed: call.c drops call->sess
\* before CLOSED only in call_hangupf().
EstablishedHasSession ==
  Alive /\ call.estab > 0 => call.sess = "estab"

\* An INVITE that was logged as rejected is not offered to the application.
RefusedNotOffered ==
  call.refused => call.announced = 0

\* Steps of the call are steps of the life of a call as the application sees it:
\* CLOSED exactly once, with the end of the object, ESTABLISHED at most once.
Phase == CASE call.state = "NONE" -> "none"
           [] call.state = "FREED" -> "gone"
           [] OTHER -> IF call.estab > 0 THEN "up" ELSE "setup"

Life == INSTANCE CallLife WITH phase <- Phase, over <- call.closed > 0

LifeSpec == Life!Spec

\* The inductive invariant behind the safety properties above: what every
\* operation of CallOps keeps true of the call it is applied to.
CallOK(c) ==
  /\ c.tmr_inv => c.estab = 0 /\ ~c.outgoing
  /\ c.answered => c.sess # "invited" /\ c.rel1xx # "sdp"
  /\ Live(c) /\ c.estab > 0 => c.sess = "estab"
  /\ c.estab <= 1
  /\ c.state # "FREED" => c.closed = 0
  /\ c.state \in {"NONE", "OUTGOING"} => c.estab = 0

\* A queued answer is sent, or the call ends, and meanwhile there is a PRACK to
\* wait for: no order of PRACK, answer, hang-up and timers strands it.
QueuedAnswerSent ==
  []QueuedAnswerWaits /\ (call.ans_queued ~> (call.answered \/ ~Alive))
=============================================================================
