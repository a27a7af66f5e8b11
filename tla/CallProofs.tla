----------------------------- MODULE CallProofs -----------------------------
(***************************************************************************)
(* Proofs about Call for every configuration of the account.  Part 1 shows *)
(* that every operator of CallOps maps records of type CallRec to records  *)
(* of type CallRec, part 2 that it preserves CallOK and what the           *)
(* application was told, part 3 combines them for the steps of Call.       *)
(*                                                                         *)
(* Part 4 is about the order of events: a call is announced before it is   *)
(* established, and its streams run when it is, with the exceptions that   *)
(* MCCall marks.  Ordered strengthens the two properties on top of IInv.   *)
(* An SDP answer belongs to a session we invited or that is established,   *)
(* and once there is one, or the call is established, the media runs; a    *)
(* call that waits for media-NAT is not announced and not answered, every  *)
(* other one is announced once.                                            *)
(***************************************************************************)
EXTENDS MCCall, TLAPS

-----------------------------------------------------------------------------
(* Part 1: types *)

\* The record of a call that does not exist is well typed.
LEMMA NoCallType == NoCall \in CallRec
BY Zenon DEF CallRec, NoCall, NoObject, CallStates, SessStates, Rel1xxStates

\* The counters of events are natural numbers.
LEMMA CountersType ==
  ASSUME NEW c \in CallRec
  PROVE  c.announced \in Nat /\ c.estab \in Nat /\ c.closed \in Nat
BY Zenon DEF CallRec

\* What call_destructor() leaves is well typed.
LEMMA DestructorType ==
  ASSUME NEW c \in CallRec
  PROVE  call_destructor(c) \in CallRec
BY NoCallType, CountersType, ZenonT(30) DEF call_destructor, CallRec, NoObject

\* So is what CALL_EVENT_CLOSED leaves.
LEMMA ClosedType ==
  ASSUME NEW c \in CallRec
  PROVE  EvClosed(c) \in CallRec
<1> DEFINE d == [c EXCEPT !.closed = @ + 1]
<1>1. c.closed + 1 \in Nat
  BY CountersType
<1>2. d \in CallRec
  BY <1>1, ZenonT(30) DEF CallRec
<1>3. call_destructor(d) \in CallRec
  <2> HIDE DEF d
  <2> QED BY <1>2, DestructorType, Zenon
<1> QED BY <1>3, Zenon DEF EvClosed

\* The first event about a call is counted.
LEMMA AnnounceType ==
  ASSUME NEW c \in CallRec
  PROVE  Announce(c) \in CallRec
<1>1. c.announced + 1 \in Nat
  BY CountersType
<1> QED BY <1>1, ZenonT(30) DEF Announce, CallRec

\* A new call is well typed.
LEMMA AllocType ==
  ASSUME NEW offer \in BOOLEAN
  PROVE  call_alloc(offer) \in CallRec
BY NoCallType, ZenonT(30) DEF call_alloc, CallRec, CallStates

\* The building blocks of the media and timer functions.
LEMMA BlocksType ==
  ASSUME NEW c \in CallRec, NEW ok \in BOOLEAN, NEW scode \in Nat
  PROVE  /\ call_stream_stop(c) \in CallRec
         /\ call_update_media(c, ok) \in CallRec
         /\ call_timer_start(c) \in CallRec
         /\ call_notify_sipfrag(c, scode) \in CallRec
<1>1. call_stream_stop(c) \in CallRec
  BY ZenonT(30) DEF call_stream_stop, CallRec
<1>2. call_update_media(c, ok) \in CallRec
  BY DEF call_update_media, CallRec
<1>3. call_timer_start(c) \in CallRec
  BY ZenonT(30) DEF call_timer_start, CallRec
<1>4. call_notify_sipfrag(c, scode) \in CallRec
  <2>1. [c EXCEPT !.xnot = FALSE] \in CallRec
    BY ZenonT(30) DEF CallRec
  <2> QED BY <2>1, Zenon DEF call_notify_sipfrag
<1> QED BY <1>1, <1>2, <1>3, <1>4, Zenon

\* call_answer() returns a well typed call.
LEMMA AnswerType ==
  ASSUME NEW c \in CallRec, NEW ok \in BOOLEAN
  PROVE  call_answer(c, ok) \in CallRec
<1> DEFINE a == [c EXCEPT !.tmr_answ = FALSE]
<1>1. a \in CallRec
  BY ZenonT(30) DEF CallRec
<1>2. [a EXCEPT !.sess = "answered", !.answered = TRUE,
                !.ans_queued = FALSE] \in CallRec
  <2> HIDE DEF a
  <2> QED BY <1>1, ZenonT(30) DEF CallRec, SessStates
<1> HIDE DEF a
<1> QED BY <1>1, <1>2, Zenon DEF call_answer, a

\* call_progress() returns a well typed call.
LEMMA ProgressType ==
  ASSUME NEW c \in CallRec, NEW rel \in BOOLEAN, NEW ok \in BOOLEAN
  PROVE  call_progress(c, rel, ok) \in CallRec
<1> DEFINE p == [c EXCEPT !.tmr_inv = FALSE]
           r == IF rel THEN "sdp" ELSE "none"
           q == [p EXCEPT !.progr_queued = FALSE, !.rel1xx = r]
<1>1. p \in CallRec
  BY ZenonT(30) DEF CallRec
<1>2. [p EXCEPT !.progr_queued = FALSE] \in CallRec
  <2> HIDE DEF p
  <2> QED BY <1>1, ZenonT(30) DEF CallRec
<1>3. [p EXCEPT !.progr_queued = TRUE] \in CallRec
  <2> HIDE DEF p
  <2> QED BY <1>1, ZenonT(30) DEF CallRec
<1>4. q \in CallRec
  <2>1. r \in Rel1xxStates
    BY Zenon DEF Rel1xxStates
  <2> HIDE DEF p, r
  <2> QED BY <1>1, <2>1, ZenonT(30) DEF CallRec
<1>5. call_update_media(q, c.got_offer) \in CallRec
  <2>1. c.got_offer \in BOOLEAN
    BY Zenon DEF CallRec
  <2> HIDE DEF q
  <2> QED BY <1>4, <2>1, BlocksType, Zenon
<1> HIDE DEF p
<1> QED BY <1>1, <1>2, <1>3, <1>5, Zenon DEF call_progress, p

\* So do the timer of the delayed answer and the PRACK handler.
LEMMA QueueType ==
  ASSUME NEW c \in CallRec, NEW rel \in BOOLEAN, NEW ok \in BOOLEAN
  PROVE  /\ delayed_answer_handler(c, ok) \in CallRec
         /\ prack_handler(c, rel, ok) \in CallRec
         /\ call_start_answtmr(c) \in CallRec
<1> DEFINE f == [c EXCEPT !.tmr_answ = FALSE]
<1>1. f \in CallRec
  BY ZenonT(30) DEF CallRec
<1>2. [f EXCEPT !.ans_queued = TRUE] \in CallRec
  <2> HIDE DEF f
  <2> QED BY <1>1, ZenonT(30) DEF CallRec
<1> HIDE DEF f
<1>3. delayed_answer_handler(c, ok) \in CallRec
  <2>1. call_answer(f, ok) \in CallRec
    BY <1>1, AnswerType, Zenon
  <2> QED BY <1>2, <2>1, Zenon DEF delayed_answer_handler, f
<1>4. prack_handler(c, rel, ok) \in CallRec
  BY AnswerType, ProgressType, Zenon DEF prack_handler
<1>5. call_start_answtmr(c) \in CallRec
  BY ZenonT(30) DEF call_start_answtmr, CallRec
<1> QED BY <1>3, <1>4, <1>5, Zenon

\* CALL_EVENT_INCOMING, call_accept() and the local timeout.
LEMMA AcceptType ==
  ASSUME NEW c \in CallRec, NEW blocked \in BOOLEAN, NEW rel \in BOOLEAN,
         NEW ok \in BOOLEAN
  PROVE  /\ EvIncoming(c, blocked, rel, ok) \in CallRec
         /\ call_accept(c, blocked, rel, ok) \in CallRec
         /\ invite_timeout(c) \in CallRec
<1>1. ASSUME NEW d \in CallRec
      PROVE  EvIncoming(d, blocked, rel, ok) \in CallRec
  <2>1. Announce(d) \in CallRec
    BY AnnounceType, Zenon
  <2>2. call_progress(Announce(d), rel, ok) \in CallRec
    BY <2>1, ProgressType, Zenon
  <2> QED BY <2>1, <2>2, ClosedType, Zenon DEF EvIncoming
<1>2. call_accept(c, blocked, rel, ok) \in CallRec
  <2> DEFINE r == IF rel THEN "nosdp" ELSE "none"
             a == [c EXCEPT !.outgoing = FALSE, !.sess = "invited",
                            !.rel1xx = r, !.state = "INCOMING",
                            !.tmr_inv = LocalTimeout]
  <2>1. r \in Rel1xxStates
    BY Zenon DEF Rel1xxStates
  <2>2. a \in CallRec
    <3> HIDE DEF r
    <3> QED BY <2>1, ConfigAssumption, ZenonT(30) DEF CallRec, SessStates, CallStates
  <2> HIDE DEF a
  <2>3. EvIncoming(a, blocked, rel, ok) \in CallRec
    BY <2>2, <1>1, Zenon
  <2> QED BY <2>2, <2>3, Zenon DEF call_accept, a
<1>3. invite_timeout(c) \in CallRec
  <2> DEFINE t == [c EXCEPT !.tmr_inv = FALSE]
  <2>1. t \in CallRec
    BY ZenonT(30) DEF CallRec
  <2> HIDE DEF t
  <2>2. EvClosed(t) \in CallRec
    BY <2>1, ClosedType, Zenon
  <2> QED BY <2>2, Zenon DEF invite_timeout, t
<1> QED BY <1>1, <1>2, <1>3, Zenon

\* send_invite() and call_connect().
LEMMA ConnectType ==
  ASSUME NEW c \in CallRec, NEW ok \in BOOLEAN
  PROVE  send_invite(c, ok) \in CallRec /\ call_connect(c, ok) \in CallRec
<1>1. ASSUME NEW d \in CallRec, NEW k \in BOOLEAN
      PROVE  send_invite(d, k) \in CallRec
  <2> DEFINE s == IF k THEN "inviting" ELSE d.sess
  <2>1. s \in SessStates
    BY Zenon DEF CallRec, SessStates
  <2>2. [d EXCEPT !.sess = s] \in CallRec
    <3> HIDE DEF s
    <3> QED BY <2>1, ZenonT(30) DEF CallRec
  <2> QED BY <2>2, Zenon DEF send_invite
<1>2. call_connect(c, ok) \in CallRec
  <2> DEFINE o == [c EXCEPT !.outgoing = TRUE, !.state = "OUTGOING"]
             n == Announce(o)
  <2>1. o \in CallRec
    BY ZenonT(30) DEF CallRec, CallStates
  <2>2. n \in CallRec
    <3> HIDE DEF o
    <3> QED BY <2>1, AnnounceType, Zenon
  <2> HIDE DEF n
  <2>3. send_invite(n, TRUE) \in CallRec /\ call_destructor(n) \in CallRec
    BY <2>2, <1>1, DestructorType, ZenonT(30)
  <2> QED BY <2>2, <2>3, ZenonT(30) DEF call_connect, n
<1> QED BY <1>1, <1>2, Zenon

\* The handlers of provisional responses and of SDP.
LEMMA ResponseType ==
  ASSUME NEW c \in CallRec, NEW scode \in Nat, NEW sdp \in BOOLEAN,
         NEW start \in BOOLEAN
  PROVE  /\ sipsess_progr_handler(c, scode, sdp, start) \in CallRec
         /\ sipsess_answer_handler(c) \in CallRec
         /\ sipsess_offer_handler(c) \in CallRec
<1>1. sipsess_progr_handler(c, scode, sdp, start) \in CallRec
  <2> DEFINE x == CASE scode = 180 -> "RINGING"
                    [] scode = 183 -> "EARLY"
                    [] OTHER -> c.state
             s == [c EXCEPT !.state = x]
             r == [s EXCEPT !.remote = TRUE]
  <2>1. x \in CallStates \cup NoObject
    BY DEF CallRec, CallStates
  <2>2. s \in CallRec
    <3> HIDE DEF x
    <3> QED BY <2>1, ZenonT(30) DEF CallRec
  <2>3. r \in CallRec
    <3> HIDE DEF s
    <3> QED BY <2>2, ZenonT(30) DEF CallRec
  <2> HIDE DEF s, r
  <2>4. call_update_media(r, start) \in CallRec
    BY <2>3, BlocksType, Zenon
  <2>5. call_stream_stop(s) \in CallRec
    BY <2>2, BlocksType, Zenon
  <2> QED BY <2>4, <2>5, Zenon DEF sipsess_progr_handler, s, r
<1>2. sipsess_answer_handler(c) \in CallRec
  <2> DEFINE a == [c EXCEPT !.got_offer = FALSE, !.negotiated = TRUE,
                            !.remote = TRUE]
  <2>1. a \in CallRec
    BY ZenonT(30) DEF CallRec
  <2> HIDE DEF a
  <2>2. call_update_media(a, TRUE) \in CallRec
    BY <2>1, BlocksType, ZenonT(30)
  <2> QED BY <2>2, ZenonT(30) DEF sipsess_answer_handler, a
<1>3. sipsess_offer_handler(c) \in CallRec
  <2> DEFINE a == [c EXCEPT !.got_offer = TRUE, !.remote = TRUE]
  <2>1. a \in CallRec
    BY ZenonT(30) DEF CallRec
  <2> HIDE DEF a
  <2>2. call_update_media(a, TRUE) \in CallRec
    BY <2>1, BlocksType, Zenon
  <2> QED BY <2>2, ZenonT(30) DEF sipsess_offer_handler, a
<1> QED BY <1>1, <1>2, <1>3, Zenon

\* call_modify(), call_hold() and the application's reaction to a failed
\* transfer.
LEMMA HoldType ==
  ASSUME NEW c \in CallRec, NEW hold \in BOOLEAN, NEW ok \in BOOLEAN
  PROVE  /\ call_modify(c, ok) \in CallRec
         /\ call_hold(c, hold, ok) \in CallRec
<1> DEFINE h == [c EXCEPT !.on_hold = hold]
<1>1. h \in CallRec
  BY ZenonT(30) DEF CallRec
<1> HIDE DEF h
<1>2. call_modify(h, ok) \in CallRec
  BY <1>1, BlocksType, ZenonT(30) DEF call_modify
<1>3. call_modify(c, ok) \in CallRec
  BY BlocksType, Zenon DEF call_modify
<1> QED BY <1>2, <1>3, Zenon DEF call_hold, h

\* mnat_handler().
LEMMA MnatType ==
  ASSUME NEW c \in CallRec, NEW failed \in BOOLEAN, NEW blocked \in BOOLEAN,
         NEW rel \in BOOLEAN, NEW ok \in BOOLEAN
  PROVE  mnat_handler(c, failed, blocked, rel, ok) \in CallRec
<1> DEFINE g == [c EXCEPT !.mnat_wait = FALSE]
<1>1. g \in CallRec
  BY ZenonT(30) DEF CallRec
<1> HIDE DEF g
<1>2. send_invite(g, ok) \in CallRec
  BY <1>1, ConnectType, Zenon
<1>3. EvIncoming(g, blocked, rel, ok) \in CallRec
  BY <1>1, AcceptType, ZenonT(30)
<1>4. EvClosed(c) \in CallRec /\ call_modify(c, ok) \in CallRec
  BY ClosedType, HoldType, Zenon
<1> QED BY <1>1, <1>2, <1>3, <1>4, Zenon DEF mnat_handler, g

\* sipsess_estab_handler() and its timer.
LEMMA EstabType ==
  ASSUME NEW c \in CallRec, NEW need \in BOOLEAN, NEW ok \in BOOLEAN
  PROVE  /\ sipsess_estab_handler(c) \in CallRec
         /\ set_established_mdir(c, need, ok) \in CallRec
<1>1. sipsess_estab_handler(c) \in CallRec
  <2> DEFINE m == c.media \/ c.got_offer
             s == [c EXCEPT !.state = "ESTABLISHED", !.media = m]
             t == call_timer_start(s)
             n == IF c.xnot THEN call_notify_sipfrag(t, 200) ELSE t
  <2>1. s \in CallRec
    <3>1. m \in BOOLEAN
      BY Zenon DEF CallRec
    <3> HIDE DEF m
    <3> QED BY <3>1, ZenonT(30) DEF CallRec, CallStates
  <2>2. t \in CallRec
    <3> HIDE DEF s
    <3> QED BY <2>1, BlocksType, Zenon
  <2>3. n \in CallRec
    <3> HIDE DEF t
    <3>1. 200 \in Nat
      OBVIOUS
    <3>2. call_notify_sipfrag(t, 200) \in CallRec
      BY <2>2, <3>1, BlocksType
    <3> QED BY <2>2, <3>2, Zenon
  <2> HIDE DEF n
  <2>4. n.estab + 1 \in Nat
    BY <2>3, CountersType
  <2>5. [n EXCEPT !.tmr_reinv = TRUE, !.estab = @ + 1] \in CallRec
    BY <2>3, <2>4, ZenonT(30) DEF CallRec
  <2> QED BY <2>5, Zenon DEF sipsess_estab_handler, n
<1>2. set_established_mdir(c, need, ok) \in CallRec
  <2> DEFINE f == [c EXCEPT !.tmr_reinv = FALSE]
  <2>1. f \in CallRec
    BY ZenonT(30) DEF CallRec
  <2> HIDE DEF f
  <2>2. call_modify(f, ok) \in CallRec
    BY <2>1, HoldType, Zenon
  <2> QED BY <2>1, <2>2, Zenon DEF set_established_mdir, f
<1> QED BY <1>1, <1>2, Zenon

\* The functions that end a call.
LEMMA EndType ==
  ASSUME NEW c \in CallRec
  PROVE  /\ call_hangupf(c) \in CallRec
         /\ ua_hangupf(c) \in CallRec
         /\ sipsess_close_handler(c) \in CallRec
         /\ stream_error_handler(c) \in CallRec
         /\ menc_error_handler(c) \in CallRec
         /\ call_replaced(c) \in CallRec
         /\ call_accept_refuse(c) \in CallRec
<1>1. ASSUME NEW d \in CallRec
      PROVE  EvClosed(call_stream_stop(d)) \in CallRec
  <2>1. call_stream_stop(d) \in CallRec
    BY BlocksType, ZenonT(30)
  <2> QED BY <2>1, ClosedType, Zenon
<1>2. call_hangupf(c) \in CallRec
  <2> DEFINE m == [c EXCEPT !.xnot = FALSE, !.sess = "none"]
             n == IF c.state # "INCOMING" THEN m ELSE c
             t == [n EXCEPT !.state = "TERMINATED"]
  <2>1. m \in CallRec
    BY ZenonT(30) DEF CallRec, SessStates
  <2>2. n \in CallRec
    <3> HIDE DEF m
    <3> QED BY <2>1, Zenon
  <2>3. t \in CallRec
    <3> HIDE DEF n
    <3> QED BY <2>2, ZenonT(30) DEF CallRec, CallStates
  <2> HIDE DEF t
  <2>4. call_stream_stop(t) \in CallRec
    BY <2>3, BlocksType, ZenonT(30)
  <2> QED BY <2>4, Zenon DEF call_hangupf, t
<1>3. ua_hangupf(c) \in CallRec
  BY <1>2, ClosedType, Zenon DEF ua_hangupf
<1>4. sipsess_close_handler(c) \in CallRec
  <2> DEFINE m == [c EXCEPT !.xnot = FALSE, !.xcall = FALSE]
  <2>1. m \in CallRec
    BY ZenonT(30) DEF CallRec
  <2> HIDE DEF m
  <2>2. EvClosed(call_stream_stop(m)) \in CallRec
    BY <2>1, <1>1, Zenon
  <2> QED BY <2>2, Zenon DEF sipsess_close_handler, m
<1>5. stream_error_handler(c) \in CallRec
  <2> DEFINE m == [c EXCEPT !.state = "TERMINATED"]
  <2>1. m \in CallRec
    BY ZenonT(30) DEF CallRec, CallStates
  <2> HIDE DEF m
  <2>2. EvClosed(call_stream_stop(m)) \in CallRec
    BY <2>1, <1>1, Zenon
  <2> QED BY <2>2, Zenon DEF stream_error_handler, m
<1>6. menc_error_handler(c) \in CallRec
  BY <1>1, Zenon DEF menc_error_handler
<1>7. call_replaced(c) \in CallRec
  BY <1>1, Zenon DEF call_replaced
<1>8. call_accept_refuse(c) \in CallRec
  BY ClosedType, Zenon DEF call_accept_refuse
<1> QED BY <1>2, <1>3, <1>4, <1>5, <1>6, <1>7, <1>8, Zenon

\* The handlers of REFER and NOTIFY.
LEMMA TransferType ==
  ASSUME NEW c \in CallRec, NEW ok \in BOOLEAN, NEW bad \in BOOLEAN,
         NEW scode \in Nat
  PROVE  /\ sipsess_refer_handler(c, ok, bad) \in CallRec
         /\ xfer_cleanup(c, ok) \in CallRec
         /\ sipnot_close_handler(c, bad, ok) \in CallRec
         /\ call_transfer(c, ok) \in CallRec
         /\ sipsub_notify_handler(c, scode, ok) \in CallRec
         /\ sipsub_close_handler(c, bad, ok) \in CallRec
<1>1. ASSUME NEW d \in CallRec
      PROVE  EvTransferFailed(d, ok) \in CallRec
  BY HoldType, ZenonT(30) DEF EvTransferFailed
<1>2. sipsess_refer_handler(c, ok, bad) \in CallRec
  <2> DEFINE n == [c EXCEPT !.xnot = TRUE, !.state = "TRANSFER"]
  <2>1. n \in CallRec
    BY ZenonT(30) DEF CallRec, CallStates
  <2>2. [c EXCEPT !.xnot = FALSE] \in CallRec
    BY ZenonT(30) DEF CallRec
  <2> HIDE DEF n
  <2>3. [n EXCEPT !.xcall = TRUE] \in CallRec
    BY <2>1, ZenonT(30) DEF CallRec
  <2>4. call_notify_sipfrag(n, 500) \in CallRec
    <3>1. [n EXCEPT !.xnot = FALSE] \in CallRec
      BY <2>1, ZenonT(30) DEF CallRec
    <3> QED BY <3>1, <2>1 DEF call_notify_sipfrag
  <2> QED BY <2>2, <2>3, <2>4, ZenonT(30) DEF sipsess_refer_handler, n
<1>3. xfer_cleanup(c, ok) \in CallRec
  <2> DEFINE e == [c EXCEPT !.state = "ESTABLISHED"]
             f == IF c.state = "TRANSFER" THEN EvTransferFailed(e, ok) ELSE c
  <2>1. e \in CallRec
    BY ZenonT(30) DEF CallRec, CallStates
  <2>2. f \in CallRec
    <3> HIDE DEF e
    <3> QED BY <2>1, <1>1, Zenon
  <2> HIDE DEF f
  <2>3. [f EXCEPT !.xcall = FALSE] \in CallRec
    BY <2>2, ZenonT(30) DEF CallRec
  <2> QED BY <2>3, Zenon DEF xfer_cleanup, f
<1>4. sipnot_close_handler(c, bad, ok) \in CallRec
  <2> DEFINE n == [c EXCEPT !.xnot = FALSE]
  <2>1. n \in CallRec
    BY ZenonT(30) DEF CallRec
  <2> HIDE DEF n
  <2> QED BY <2>1, <1>1, Zenon DEF sipnot_close_handler, n
<1>5. call_transfer(c, ok) \in CallRec
  BY ZenonT(30) DEF call_transfer, CallRec
<1>6. sipsub_notify_handler(c, scode, ok) \in CallRec
  BY <1>1, ClosedType DEF sipsub_notify_handler
<1>7. sipsub_close_handler(c, bad, ok) \in CallRec
  <2> DEFINE n == [c EXCEPT !.xsub = FALSE]
  <2>1. n \in CallRec
    BY ZenonT(30) DEF CallRec
  <2> HIDE DEF n
  <2> QED BY <2>1, <1>1, Zenon DEF sipsub_close_handler, n
<1> QED BY <1>2, <1>3, <1>4, <1>5, <1>6, <1>7, Zenon

\* The checks of an INVITE that only log a refusal.
LEMMA AdmitType ==
  ASSUME NEW c \in CallRec, NEW denied \in BOOLEAN, NEW missing \in BOOLEAN
  PROVE  check_rel100(call_rfc5373_autoanswer(c, denied), missing) \in CallRec
<1> DEFINE h == call_hangupf(c)
           r == call_rfc5373_autoanswer(c, denied)
<1>1. h \in CallRec
  <2>1. call_hangupf(c) \in CallRec
    BY EndType, Zenon
  <2> QED BY <2>1, Zenon
<1> HIDE DEF h
<1>2. [h EXCEPT !.refused = TRUE] \in CallRec
  BY <1>1, ZenonT(30) DEF CallRec
<1>3. r \in CallRec
  BY <1>2, Zenon DEF call_rfc5373_autoanswer, h
<1> HIDE DEF r
<1>4. check_rel100(r, missing) \in CallRec
  BY <1>3 DEF check_rel100, CallRec
<1> QED BY <1>4, Zenon DEF r

-----------------------------------------------------------------------------
(* Part 2: CallOK, and what the application was told *)

\* What an operation other than sipsess_estab_handler() may do to the counters
\* of events: nothing, or CLOSED with the end of the object.
Keeps(c, d) ==
  \/ Live(d) /\ d.estab = c.estab /\ d.closed = c.closed
  \/ d.state = "FREED" /\ d.estab = c.estab /\ d.closed = c.closed + 1

\* CALL_EVENT_CLOSED ends a call.
LEMMA ClosedOK ==
  ASSUME NEW c \in CallRec, CallOK(c), Live(c)
  PROVE  CallOK(EvClosed(c)) /\ Keeps(c, EvClosed(c))
BY DEF CallRec, CallOK, Live, NoObject, EvClosed, call_destructor, NoCall, Keeps

\* Answering: only the answer of an INVITE that still waits for one, and that
\* does not wait for a PRACK, sets `answered`.
LEMMA AnswerOK ==
  ASSUME NEW c \in CallRec, CallOK(c), Live(c), NEW ok \in BOOLEAN
  PROVE  CallOK(call_answer(c, ok)) /\ Keeps(c, call_answer(c, ok))
BY ZenonT(30) DEF CallRec, CallOK, Live, NoObject, call_answer, sipsess_awaiting_prack,
       Keeps

\* A 183 is sent only for an INVITE that is not answered.
LEMMA ProgressOK ==
  ASSUME NEW c \in CallRec, CallOK(c), Live(c), NEW rel \in BOOLEAN,
         NEW ok \in BOOLEAN
  PROVE  CallOK(call_progress(c, rel, ok)) /\ Keeps(c, call_progress(c, rel, ok))
BY ZenonT(30) DEF CallRec, CallOK, Live, NoObject, call_progress, call_update_media, Keeps

\* The delayed answer and the queue behind the PRACK.
LEMMA QueueOK ==
  ASSUME NEW c \in CallRec, CallOK(c), Live(c), NEW rel \in BOOLEAN,
         NEW ok \in BOOLEAN
  PROVE  /\ CallOK(delayed_answer_handler(c, ok))
         /\ Keeps(c, delayed_answer_handler(c, ok))
         /\ CallOK(prack_handler(c, rel, ok))
         /\ Keeps(c, prack_handler(c, rel, ok))
         /\ CallOK(call_start_answtmr(c)) /\ Keeps(c, call_start_answtmr(c))
<1>1. /\ CallOK(delayed_answer_handler(c, ok))
      /\ Keeps(c, delayed_answer_handler(c, ok))
  BY ZenonT(30) DEF CallRec, CallOK, Live, NoObject, delayed_answer_handler, call_answer,
         sipsess_awaiting_prack, Keeps
<1>2. Keeps(c, c)
  BY Zenon DEF Keeps
<1>3. /\ CallOK(prack_handler(c, rel, ok))
      /\ Keeps(c, prack_handler(c, rel, ok))
  BY <1>2, AnswerOK, ProgressOK, Zenon DEF prack_handler
<1>4. CallOK(call_start_answtmr(c)) /\ Keeps(c, call_start_answtmr(c))
  BY Zenon DEF CallRec, CallOK, Live, NoObject, call_start_answtmr, Keeps
<1> QED BY <1>1, <1>3, <1>4, Zenon

\* CALL_EVENT_INCOMING.
LEMMA IncomingOK ==
  ASSUME NEW c \in CallRec, CallOK(c), Live(c), NEW blocked \in BOOLEAN,
         NEW rel \in BOOLEAN, NEW ok \in BOOLEAN
  PROVE  /\ CallOK(EvIncoming(c, blocked, rel, ok))
         /\ Keeps(c, EvIncoming(c, blocked, rel, ok))
<1> DEFINE a == Announce(c)
<1>1. a \in CallRec
  BY AnnounceType, Zenon
<1>2. CallOK(a) /\ Live(a) /\ a.estab = c.estab /\ a.closed = c.closed
  BY ZenonT(30) DEF CallRec, CallOK, Live, NoObject, Announce
<1>3. Keeps(c, a)
  BY <1>2, Zenon DEF Keeps
<1> HIDE DEF a
<1>4. CallOK(call_progress(a, rel, ok)) /\ Keeps(a, call_progress(a, rel, ok))
  BY <1>1, <1>2, ProgressOK, Zenon
<1>5. Keeps(c, call_progress(a, rel, ok))
  BY <1>2, <1>4, Zenon DEF Keeps
<1> QED BY <1>2, <1>3, <1>4, <1>5, ClosedOK, Zenon DEF EvIncoming, a

\* An INVITE that is accepted starts with the local timeout and no answer.
LEMMA AcceptOK ==
  ASSUME NEW c \in CallRec, CallOK(c), Live(c), ~c.answered, c.estab = 0,
         NEW blocked \in BOOLEAN, NEW rel \in BOOLEAN, NEW ok \in BOOLEAN
  PROVE  /\ CallOK(call_accept(c, blocked, rel, ok))
         /\ Keeps(c, call_accept(c, blocked, rel, ok))
<1> DEFINE r == IF rel THEN "nosdp" ELSE "none"
           a == [c EXCEPT !.outgoing = FALSE, !.sess = "invited",
                          !.rel1xx = r, !.state = "INCOMING",
                          !.tmr_inv = LocalTimeout]
<1>1. r \in Rel1xxStates
  BY Zenon DEF Rel1xxStates
<1>2. a \in CallRec
  <2> HIDE DEF r
  <2> QED BY <1>1, ConfigAssumption, ZenonT(30) DEF CallRec, SessStates, CallStates
<1>3. CallOK(a) /\ Live(a) /\ a.estab = c.estab /\ a.closed = c.closed
  BY DEF CallRec, CallOK, Live, NoObject
<1>4. Keeps(c, a)
  BY <1>3, Zenon DEF Keeps
<1> HIDE DEF a
<1>5. CallOK(EvIncoming(a, blocked, rel, ok))
  BY <1>2, <1>3, IncomingOK, Zenon
<1>6. Keeps(a, EvIncoming(a, blocked, rel, ok))
  BY <1>2, <1>3, IncomingOK, Zenon
<1>7. Keeps(c, EvIncoming(a, blocked, rel, ok))
  BY <1>3, <1>6, Zenon DEF Keeps
<1> QED BY <1>3, <1>4, <1>5, <1>7, Zenon DEF call_accept, a

\* The local timeout closes the call.
LEMMA TimeoutOK ==
  ASSUME NEW c \in CallRec, CallOK(c), Live(c)
  PROVE  CallOK(invite_timeout(c)) /\ Keeps(c, invite_timeout(c))
BY DEF CallRec, CallOK, Live, NoObject, invite_timeout, EvClosed,
       call_destructor, NoCall, Keeps

\* Provisional responses, SDP answers and offers.
LEMMA ResponseOK ==
  ASSUME NEW c \in CallRec, CallOK(c), Live(c), NEW scode \in Nat,
         NEW sdp \in BOOLEAN, NEW start \in BOOLEAN
  PROVE  /\ CallOK(sipsess_progr_handler(c, scode, sdp, start))
         /\ Keeps(c, sipsess_progr_handler(c, scode, sdp, start))
         /\ CallOK(sipsess_answer_handler(c))
         /\ Keeps(c, sipsess_answer_handler(c))
         /\ Live(sipsess_answer_handler(c))
         /\ sipsess_answer_handler(c).sess = c.sess
         /\ CallOK(sipsess_offer_handler(c))
         /\ Keeps(c, sipsess_offer_handler(c))
<1>1. /\ CallOK(sipsess_progr_handler(c, scode, sdp, start))
      /\ Keeps(c, sipsess_progr_handler(c, scode, sdp, start))
  BY DEF CallRec, CallOK, Live, NoObject, sipsess_progr_handler,
         call_update_media, call_stream_stop, Keeps
<1>2. /\ CallOK(sipsess_answer_handler(c))
      /\ Keeps(c, sipsess_answer_handler(c))
      /\ Live(sipsess_answer_handler(c))
      /\ sipsess_answer_handler(c).sess = c.sess
  BY ZenonT(30) DEF CallRec, CallOK, Live, NoObject, sipsess_answer_handler,
         call_update_media, Keeps
<1>3. /\ CallOK(sipsess_offer_handler(c))
      /\ Keeps(c, sipsess_offer_handler(c))
  BY Zenon DEF CallRec, CallOK, Live, NoObject, sipsess_offer_handler,
         call_update_media, Keeps
<1> QED BY <1>1, <1>2, <1>3, Zenon

\* Hold, re-INVITE and the application's reaction to a failed transfer.
LEMMA HoldOK ==
  ASSUME NEW c \in CallRec, CallOK(c), Live(c), NEW hold \in BOOLEAN,
         NEW ok \in BOOLEAN
  PROVE  /\ CallOK(call_modify(c, ok)) /\ Keeps(c, call_modify(c, ok))
         /\ CallOK(call_hold(c, hold, ok)) /\ Keeps(c, call_hold(c, hold, ok))
BY Zenon DEF CallRec, CallOK, Live, NoObject, call_modify, call_hold,
       call_update_media, Keeps

\* The report of the media-NAT module.
LEMMA MnatOK ==
  ASSUME NEW c \in CallRec, CallOK(c), Live(c), NEW failed \in BOOLEAN,
         NEW blocked \in BOOLEAN, NEW rel \in BOOLEAN, NEW ok \in BOOLEAN
  PROVE  /\ CallOK(mnat_handler(c, failed, blocked, rel, ok))
         /\ Keeps(c, mnat_handler(c, failed, blocked, rel, ok))
<1> DEFINE g == [c EXCEPT !.mnat_wait = FALSE]
<1>1. g \in CallRec
  BY ZenonT(30) DEF CallRec
<1>2. /\ CallOK(g) /\ Live(g) /\ g.estab = c.estab /\ g.closed = c.closed
      /\ g.state = c.state
  BY ZenonT(30) DEF CallRec, CallOK, Live, NoObject
<1>3. Keeps(c, g)
  BY <1>2, Zenon DEF Keeps
<1> HIDE DEF g
<1>4. CallOK(EvIncoming(g, blocked, rel, ok))
  BY <1>1, <1>2, IncomingOK, Zenon
<1>5. Keeps(g, EvIncoming(g, blocked, rel, ok))
  BY <1>1, <1>2, IncomingOK, Zenon
<1>6. Keeps(c, EvIncoming(g, blocked, rel, ok))
  BY <1>2, <1>5, Zenon DEF Keeps
<1>7. ASSUME g.state = "OUTGOING"
      PROVE  CallOK(send_invite(g, ok)) /\ Keeps(c, send_invite(g, ok))
  BY <1>1, <1>2, <1>7 DEF CallRec, CallOK, Live, NoObject, send_invite, Keeps
<1> QED BY <1>2, <1>3, <1>4, <1>6, <1>7, ClosedOK, HoldOK, Zenon DEF mnat_handler, g

\* The session is established: the local timeout is cancelled before the
\* application is told.
LEMMA EstabOK ==
  ASSUME NEW c \in CallRec, CallOK(c), Live(c), c.sess = "estab", c.estab = 0
  PROVE  /\ CallOK(sipsess_estab_handler(c))
         /\ Live(sipsess_estab_handler(c))
         /\ sipsess_estab_handler(c).closed = c.closed
         /\ sipsess_estab_handler(c).estab \in {0, 1}
BY DEF CallRec, CallOK, Live, NoObject, sipsess_estab_handler,
       call_timer_start, call_notify_sipfrag

\* The re-INVITE after the call is established.
LEMMA MdirOK ==
  ASSUME NEW c \in CallRec, CallOK(c), Live(c), NEW need \in BOOLEAN,
         NEW ok \in BOOLEAN
  PROVE  /\ CallOK(set_established_mdir(c, need, ok))
         /\ Keeps(c, set_established_mdir(c, need, ok))
BY ZenonT(30) DEF CallRec, CallOK, Live, NoObject, set_established_mdir, call_modify,
       call_update_media, Keeps

\* Every function that ends a call tells the application once.
LEMMA EndOK ==
  ASSUME NEW c \in CallRec, CallOK(c), Live(c)
  PROVE  /\ CallOK(ua_hangupf(c)) /\ Keeps(c, ua_hangupf(c))
         /\ CallOK(sipsess_close_handler(c)) /\ Keeps(c, sipsess_close_handler(c))
         /\ CallOK(stream_error_handler(c)) /\ Keeps(c, stream_error_handler(c))
         /\ CallOK(menc_error_handler(c)) /\ Keeps(c, menc_error_handler(c))
         /\ CallOK(call_replaced(c)) /\ Keeps(c, call_replaced(c))
         /\ CallOK(call_accept_refuse(c)) /\ Keeps(c, call_accept_refuse(c))
<1>1. CallOK(ua_hangupf(c)) /\ Keeps(c, ua_hangupf(c))
  BY DEF CallRec, CallOK, Live, NoObject, ua_hangupf, call_hangupf,
         call_stream_stop, EvClosed, call_destructor, NoCall, Keeps
<1>2. CallOK(sipsess_close_handler(c)) /\ Keeps(c, sipsess_close_handler(c))
  BY DEF CallRec, CallOK, Live, NoObject, sipsess_close_handler,
         call_stream_stop, EvClosed, call_destructor, NoCall, Keeps
<1>3. CallOK(stream_error_handler(c)) /\ Keeps(c, stream_error_handler(c))
  BY DEF CallRec, CallOK, Live, NoObject, stream_error_handler,
         call_stream_stop, EvClosed, call_destructor, NoCall, Keeps
<1>4. CallOK(menc_error_handler(c)) /\ Keeps(c, menc_error_handler(c))
  BY DEF CallRec, CallOK, Live, NoObject, menc_error_handler,
         call_stream_stop, EvClosed, call_destructor, NoCall, Keeps
<1> QED BY <1>1, <1>2, <1>3, <1>4, ClosedOK, Zenon
        DEF call_accept_refuse, call_replaced, menc_error_handler

\* The handlers of REFER and NOTIFY.
LEMMA TransferOK ==
  ASSUME NEW c \in CallRec, CallOK(c), Live(c), NEW ok \in BOOLEAN,
         NEW bad \in BOOLEAN, NEW scode \in Nat
  PROVE  /\ CallOK(sipsess_refer_handler(c, ok, bad))
         /\ Keeps(c, sipsess_refer_handler(c, ok, bad))
         /\ CallOK(xfer_cleanup(c, ok)) /\ Keeps(c, xfer_cleanup(c, ok))
         /\ CallOK(sipnot_close_handler(c, bad, ok))
         /\ Keeps(c, sipnot_close_handler(c, bad, ok))
         /\ CallOK(call_transfer(c, ok)) /\ Keeps(c, call_transfer(c, ok))
         /\ CallOK(sipsub_notify_handler(c, scode, ok))
         /\ Keeps(c, sipsub_notify_handler(c, scode, ok))
         /\ CallOK(sipsub_close_handler(c, bad, ok))
         /\ Keeps(c, sipsub_close_handler(c, bad, ok))
<1>1. /\ CallOK(sipsess_refer_handler(c, ok, bad))
      /\ Keeps(c, sipsess_refer_handler(c, ok, bad))
  BY DEF CallRec, CallOK, Live, NoObject, sipsess_refer_handler,
         call_notify_sipfrag, Keeps
<1>2. CallOK(xfer_cleanup(c, ok)) /\ Keeps(c, xfer_cleanup(c, ok))
  BY DEF CallRec, CallOK, Live, NoObject, xfer_cleanup, EvTransferFailed,
         call_hold, call_modify, call_update_media, Keeps
<1>3. /\ CallOK(sipnot_close_handler(c, bad, ok))
      /\ Keeps(c, sipnot_close_handler(c, bad, ok))
  BY ZenonT(30) DEF CallRec, CallOK, Live, NoObject, sipnot_close_handler,
         EvTransferFailed, call_hold, call_modify, call_update_media, Keeps
<1>4. CallOK(call_transfer(c, ok)) /\ Keeps(c, call_transfer(c, ok))
  BY Zenon DEF CallRec, CallOK, Live, NoObject, call_transfer, Keeps
<1>5. Keeps(c, c)
  BY Zenon DEF Keeps
<1>6. /\ CallOK(sipsub_notify_handler(c, scode, ok))
      /\ Keeps(c, sipsub_notify_handler(c, scode, ok))
  <2>1. CallOK(call_hold(c, FALSE, ok)) /\ Keeps(c, call_hold(c, FALSE, ok))
    BY HoldOK, ZenonT(30)
  <2>2. CallOK(EvClosed(c)) /\ Keeps(c, EvClosed(c))
    BY ClosedOK, Zenon
  <2> DEFINE h == call_hold(c, FALSE, ok)
             e == EvClosed(c)
  <2>3. sipsub_notify_handler(c, scode, ok)
          = IF scode >= 300 THEN h ELSE IF scode >= 200 THEN e ELSE c
    BY Zenon DEF sipsub_notify_handler, EvTransferFailed
  <2> HIDE DEF h, e
  <2>4. sipsub_notify_handler(c, scode, ok) \in {h, e, c}
    BY <2>3, ZenonT(30)
  <2> USE DEF h, e
  <2> QED BY <1>5, <2>1, <2>2, <2>4, ZenonT(30)
<1>7. /\ CallOK(sipsub_close_handler(c, bad, ok))
      /\ Keeps(c, sipsub_close_handler(c, bad, ok))
  BY DEF CallRec, CallOK, Live, NoObject, sipsub_close_handler,
         EvTransferFailed, call_hold, call_modify, call_update_media, Keeps
<1> QED BY <1>1, <1>2, <1>3, <1>4, <1>6, <1>7, Zenon

-----------------------------------------------------------------------------
(* Part 3: the steps of Call *)

\* The inductive invariant.
IInv == TypeOK /\ CallOK(call)

\* A step as the application sees it.
Seen(c, d) ==
  \/ Keeps(c, d)
  \/ Live(d) /\ d.closed = c.closed /\ c.estab = 0 /\ d.estab = 1

\* The choices an action quantifies over are Booleans.
LEMMA Choices ==
  /\ Outcome \subseteq BOOLEAN /\ Reliable \subseteq BOOLEAN
  /\ {FALSE, DenyAutoAnswer} \subseteq BOOLEAN
  /\ {FALSE, RequireRel100} \subseteq BOOLEAN
  /\ {FALSE, Refer} \subseteq BOOLEAN
BY ConfigAssumption, AdmissionAssumption, ZenonT(30) DEF Outcome, Reliable

\* A call that call_alloc() has just made, also one that it has hung up.
LEMMA NewCallOK ==
  ASSUME NEW offer \in BOOLEAN, NEW denied \in BOOLEAN, NEW missing \in BOOLEAN,
         NEW c, c = check_rel100(call_rfc5373_autoanswer(call_alloc(offer),
                                                         denied), missing)
  PROVE  /\ c \in CallRec /\ CallOK(c) /\ Live(c)
         /\ ~c.answered /\ c.estab = 0 /\ c.closed = 0
<1>1. c \in CallRec
  BY AllocType, AdmitType, Zenon
<1>2. /\ CallOK(c) /\ Live(c)
      /\ ~c.answered /\ c.estab = 0 /\ c.closed = 0
  <2>1. CASE denied
    BY <2>1 DEF check_rel100, call_rfc5373_autoanswer, call_alloc, call_hangupf,
                call_stream_stop, NoCall, CallOK, Live, NoObject
  <2>2. CASE ~denied
    BY <2>2 DEF check_rel100, call_rfc5373_autoanswer, call_alloc, NoCall,
                CallOK, Live, NoObject
  <2> QED BY <2>1, <2>2, Zenon
<1> QED BY <1>1, <1>2, Zenon

\* The INVITE of the peer.
LEMMA InviteStep ==
  ASSUME IInv, sipsess_conn_handler
  PROVE  /\ IInv'
         /\ call'.estab = 0 /\ call'.closed \in {0, 1}
         /\ Live(call') => call'.closed = 0
         /\ call'.state # "NONE"
<1>1. PICK offer \in BOOLEAN, blocked \in BOOLEAN, rel \in Reliable,
           ok \in Outcome, denied \in {FALSE, DenyAutoAnswer},
           missing \in {FALSE, RequireRel100} :
        LET c == check_rel100(call_rfc5373_autoanswer(call_alloc(offer), denied),
                              missing)
        IN  \/ call' = call_accept(c, blocked, rel, ok)
            \/ call' = call_accept_refuse(c)
            \/ Faults /\ call' = call_destructor(c)
  BY ZenonT(30) DEF sipsess_conn_handler
<1> DEFINE c == check_rel100(call_rfc5373_autoanswer(call_alloc(offer), denied),
                             missing)
<1>2. /\ rel \in BOOLEAN /\ ok \in BOOLEAN
      /\ denied \in BOOLEAN /\ missing \in BOOLEAN
  BY Choices, ZenonT(30)
<1>3. /\ c \in CallRec /\ CallOK(c) /\ Live(c)
      /\ ~c.answered /\ c.estab = 0 /\ c.closed = 0
  BY <1>2, NewCallOK, ZenonT(30)
<1>4. \/ call' = call_accept(c, blocked, rel, ok)
      \/ call' = call_accept_refuse(c)
      \/ call' = call_destructor(c)
  BY <1>1, Zenon
<1> HIDE DEF c
<1>5. CASE call' = call_accept(c, blocked, rel, ok)
  <2>1. call' \in CallRec
    BY <1>2, <1>3, <1>5, AcceptType, Zenon
  <2>2. CallOK(call') /\ Keeps(c, call')
    BY <1>2, <1>3, <1>5, AcceptOK, Zenon
  <2> QED BY <1>3, <2>1, <2>2 DEF IInv, TypeOK, Keeps, Live, NoObject
<1>6. CASE call' = call_accept_refuse(c)
  <2>1. call' \in CallRec
    BY <1>3, <1>6, EndType, Zenon
  <2>2. CallOK(call') /\ Keeps(c, call')
    BY <1>3, <1>6, EndOK, Zenon
  <2> QED BY <1>3, <2>1, <2>2 DEF IInv, TypeOK, Keeps, Live, NoObject
<1>7. CASE call' = call_destructor(c)
  <2>1. call' \in CallRec
    BY <1>3, <1>7, DestructorType, Zenon
  <2>2. /\ call'.estab = 0 /\ call'.closed = 0 /\ call'.state = "FREED"
        /\ CallOK(call')
    BY <1>3, <1>7, Zenon DEF call_destructor, NoCall, CallOK, Live, NoObject
  <2> QED BY <2>1, <2>2, Zenon DEF IInv, TypeOK, Live, NoObject
<1> QED BY <1>4, <1>5, <1>6, <1>7, Zenon

\* A call of the application.
LEMMA ConnectStep ==
  ASSUME IInv, UserConnect
  PROVE  /\ IInv'
         /\ call'.estab = 0 /\ call'.closed = 0
         /\ call'.state # "NONE"
<1>1. PICK xfer \in {FALSE, Refer}, ok \in Outcome :
        call' = call_connect([call_alloc(FALSE) EXCEPT !.xnot = xfer,
                                                       !.xcall = xfer], ok)
  BY ZenonT(30) DEF UserConnect
<1> DEFINE a == call_alloc(FALSE)
           c == [a EXCEPT !.xnot = xfer, !.xcall = xfer]
<1>2. xfer \in BOOLEAN /\ ok \in BOOLEAN
  BY Choices, ZenonT(30)
<1>3. a \in CallRec
  BY AllocType, ZenonT(30)
<1>4. c \in CallRec
  <2> HIDE DEF a
  <2> QED BY <1>2, <1>3, ZenonT(30) DEF CallRec
<1>5. call' = call_connect(c, ok)
  BY <1>1, Zenon
<1>6. call' \in CallRec
  <2> HIDE DEF c
  <2> QED BY <1>2, <1>4, <1>5, ConnectType, Zenon
<1>7. /\ CallOK(call') /\ call'.estab = 0 /\ call'.closed = 0
      /\ call'.state # "NONE"
  BY <1>5 DEF call_connect, Announce, send_invite, call_destructor, call_alloc,
              NoCall, CallOK, Live, NoObject
<1> QED BY <1>6, <1>7, Zenon DEF IInv, TypeOK

\* A step that ends in a record that is well typed, satisfies CallOK and tells
\* the application nothing or CLOSED.
LEMMA KeepStep ==
  ASSUME NEW d, d \in CallRec, CallOK(d), Keeps(call, d), call' = d
  PROVE  IInv' /\ Seen(call, call')
BY Zenon DEF IInv, TypeOK, Seen, CallOK, Keeps, Live, NoObject

\* Answering: PRACK, the user, the delayed answer.
LEMMA AnswerStep ==
  ASSUME IInv,
         RecvPrack \/ DelayedAnswer \/ UserAnswer \/ UserProgress \/ UserAutoAnswer
  PROVE  IInv' /\ Seen(call, call')
<1>1. call \in CallRec /\ CallOK(call)
  BY Zenon DEF IInv, TypeOK
<1>2. CASE RecvPrack
  <2>1. PICK rel \in BOOLEAN, ok \in BOOLEAN :
          call' = prack_handler([call EXCEPT !.rel1xx = "none"], rel, ok)
    BY <1>2, Choices, Zenon DEF RecvPrack
  <2> DEFINE c == [call EXCEPT !.rel1xx = "none"]
  <2>2. c \in CallRec
    BY <1>1, ZenonT(30) DEF CallRec, Rel1xxStates
  <2>3. CallOK(c) /\ Live(c) /\ c.estab = call.estab /\ c.closed = call.closed
    BY <1>1, <1>2, Zenon DEF RecvPrack, Alive, CallRec, CallOK, Live, NoObject
  <2>4. call' = prack_handler(c, rel, ok)
    BY <2>1, Zenon
  <2> HIDE DEF c
  <2>5. call' \in CallRec
    BY <2>2, <2>4, QueueType, Zenon
  <2>6. CallOK(call') /\ Keeps(c, call')
    BY <2>2, <2>3, <2>4, QueueOK, Zenon
  <2> QED BY <2>3, <2>5, <2>6, KeepStep, Zenon DEF Keeps
<1>3. CASE DelayedAnswer
  <2>1. PICK ok \in BOOLEAN : call' = delayed_answer_handler(call, ok)
    BY <1>3, Choices, Zenon DEF DelayedAnswer
  <2>2. Live(call)
    BY <1>3, Zenon DEF DelayedAnswer, Alive
  <2>3. call' \in CallRec
    BY <1>1, <2>1, QueueType, Zenon
  <2>4. CallOK(call') /\ Keeps(call, call')
    BY <1>1, <2>1, <2>2, QueueOK, Zenon
  <2> QED BY <2>3, <2>4, KeepStep, Zenon
<1>4. CASE UserAnswer
  <2>1. PICK ok \in BOOLEAN : call' = call_answer(call, ok)
    BY <1>4, Choices, Zenon DEF UserAnswer
  <2>2. Live(call)
    BY <1>4, Zenon DEF UserAnswer, Alive
  <2>3. call' \in CallRec
    BY <1>1, <2>1, AnswerType, Zenon
  <2>4. CallOK(call') /\ Keeps(call, call')
    BY <1>1, <2>1, <2>2, AnswerOK, Zenon
  <2> QED BY <2>3, <2>4, KeepStep, Zenon
<1>5. CASE UserProgress
  <2>1. PICK rel \in BOOLEAN, ok \in BOOLEAN : call' = call_progress(call, rel, ok)
    BY <1>5, Choices, Zenon DEF UserProgress
  <2>2. Live(call)
    BY <1>5, Zenon DEF UserProgress, Alive
  <2>3. call' \in CallRec
    BY <1>1, <2>1, ProgressType, Zenon
  <2>4. CallOK(call') /\ Keeps(call, call')
    BY <1>1, <2>1, <2>2, ProgressOK, Zenon
  <2> QED BY <2>3, <2>4, KeepStep, Zenon
<1>6. CASE UserAutoAnswer
  <2>1. Live(call) /\ call' = call_start_answtmr(call)
    BY <1>6, Zenon DEF UserAutoAnswer, Alive
  <2>2. call' \in CallRec
    BY <1>1, <2>1, QueueType, ZenonT(30)
  <2>3. CallOK(call') /\ Keeps(call, call')
    BY <1>1, <2>1, QueueOK, ZenonT(30)
  <2> QED BY <2>2, <2>3, KeepStep, Zenon
<1> QED BY <1>2, <1>3, <1>4, <1>5, <1>6, Zenon

\* The session becomes established: RecvAck and Recv2xx.
LEMMA EstabStep ==
  ASSUME IInv, Alive, call.sess \in {"answered", "inviting"},
         LET e == [call EXCEPT !.sess = "estab"]
         IN  \/ call' = sipsess_estab_handler(e)
             \/ call' = sipsess_estab_handler(sipsess_answer_handler(e))
             \/ call' = sipsess_close_handler(e)
  PROVE  IInv' /\ Seen(call, call')
<1> DEFINE e == [call EXCEPT !.sess = "estab"]
<1>1. call \in CallRec /\ CallOK(call) /\ Live(call)
  BY Zenon DEF IInv, TypeOK, Alive
<1>2. e \in CallRec
  BY <1>1, ZenonT(30) DEF CallRec, SessStates
<1>3. /\ CallOK(e) /\ Live(e) /\ e.sess = "estab" /\ e.estab = 0
      /\ call.estab = 0 /\ e.closed = call.closed
  BY <1>1 DEF CallRec, CallOK, Live, NoObject
<1>4. \/ call' = sipsess_estab_handler(e)
      \/ call' = sipsess_estab_handler(sipsess_answer_handler(e))
      \/ call' = sipsess_close_handler(e)
  BY Zenon
<1> HIDE DEF e
<1>5. ASSUME NEW d, d \in CallRec, CallOK(d), Live(d), d.sess = "estab",
             d.estab = 0, d.closed = call.closed,
             call' = sipsess_estab_handler(d)
      PROVE  IInv' /\ Seen(call, call')
  <2>1. call' \in CallRec
    BY <1>5, EstabType, ZenonT(30)
  <2>2. /\ CallOK(call') /\ Live(call')
        /\ call'.closed = call.closed /\ call'.estab \in {0, 1}
    BY <1>5, EstabOK, Zenon
  <2> QED BY <1>3, <2>1, <2>2, Zenon DEF IInv, TypeOK, Seen, Keeps, CallOK, Live, NoObject
<1>6. CASE call' = sipsess_estab_handler(e)
  BY <1>2, <1>3, <1>5, <1>6, Zenon
<1>7. CASE call' = sipsess_estab_handler(sipsess_answer_handler(e))
  <2> DEFINE a == sipsess_answer_handler(e)
  <2>1. a \in CallRec
    BY <1>2, ResponseType, ZenonT(30)
  <2>2. CallOK(a) /\ Live(a) /\ a.sess = "estab" /\ Keeps(e, a)
    BY <1>2, <1>3, ResponseOK, ZenonT(30)
  <2> HIDE DEF a
  <2>3. a.estab = 0 /\ a.closed = call.closed
    BY <1>3, <2>2, Zenon DEF Keeps, Live, NoObject
  <2>4. call' = sipsess_estab_handler(a)
    BY <1>7, Zenon DEF a
  <2> QED BY <1>5, <2>1, <2>2, <2>3, <2>4, Zenon
<1>8. CASE call' = sipsess_close_handler(e)
  <2>1. call' \in CallRec
    BY <1>2, <1>8, EndType, Zenon
  <2>2. CallOK(call') /\ Keeps(e, call')
    BY <1>2, <1>3, <1>8, EndOK, Zenon
  <2> QED BY <1>3, <2>1, <2>2, KeepStep, Zenon DEF Keeps
<1> QED BY <1>4, <1>6, <1>7, <1>8, Zenon

\* Provisional responses, and offers and answers within the dialog.
LEMMA ResponseStep ==
  ASSUME IInv, Recv1xx \/ RecvOffer \/ RecvModifyAnswer
  PROVE  IInv' /\ Seen(call, call')
<1>1. call \in CallRec /\ CallOK(call) /\ Live(call)
  BY Zenon DEF IInv, TypeOK, Alive, Recv1xx, RecvOffer, RecvModifyAnswer
<1>2. /\ sipsess_answer_handler(call) \in CallRec
      /\ sipsess_offer_handler(call) \in CallRec
  BY <1>1, ResponseType, ZenonT(30)
<1>3. /\ CallOK(sipsess_answer_handler(call))
      /\ Keeps(call, sipsess_answer_handler(call))
      /\ Live(sipsess_answer_handler(call))
      /\ CallOK(sipsess_offer_handler(call))
      /\ Keeps(call, sipsess_offer_handler(call))
  BY <1>1, ResponseOK, ZenonT(30)
<1>4. CASE Recv1xx
  <2>1. PICK scode \in {180, 181, 183}, sdp \in BOOLEAN, rel \in Reliable,
             start \in BOOLEAN :
          call' = sipsess_progr_handler(
                    IF sdp /\ rel /\ ~call.negotiated
                    THEN sipsess_answer_handler(call) ELSE call,
                    scode, sdp, start)
    BY <1>4, Zenon DEF Recv1xx
  <2> DEFINE a == sipsess_answer_handler(call)
             c == IF sdp /\ rel /\ ~call.negotiated THEN a ELSE call
  <2>2. c \in CallRec
    <3> HIDE DEF a
    <3> QED BY <1>1, <1>2, Zenon DEF a
  <2>3. CallOK(c) /\ Live(c) /\ c.estab = call.estab /\ c.closed = call.closed
    <3>1. /\ CallOK(a) /\ Live(a)
          /\ a.estab = call.estab /\ a.closed = call.closed
      BY <1>3, Zenon DEF Keeps, Live, NoObject
    <3> HIDE DEF a
    <3> QED BY <1>1, <3>1, ZenonT(30)
  <2>4. call' = sipsess_progr_handler(c, scode, sdp, start)
    BY <2>1, Zenon
  <2>5. scode \in Nat
    OBVIOUS
  <2> HIDE DEF c
  <2>6. call' \in CallRec
    BY <2>2, <2>4, <2>5, ResponseType, ZenonT(30)
  <2>7. CallOK(call') /\ Keeps(c, call')
    BY <2>2, <2>3, <2>4, <2>5, ResponseOK
  <2> QED BY <2>3, <2>6, <2>7, KeepStep DEF Keeps
<1>5. CASE RecvOffer
  <2>1. CASE call' = sipsess_offer_handler(call)
    BY <1>2, <1>3, <2>1, KeepStep, Zenon
  <2>2. CASE call' = [call EXCEPT !.got_offer = TRUE]
    <3>1. call' \in CallRec
      BY <1>1, <2>2, ZenonT(30) DEF CallRec
    <3>2. CallOK(call') /\ Keeps(call, call')
      BY <1>1, <2>2, ZenonT(30) DEF CallRec, CallOK, Keeps, Live, NoObject
    <3> QED BY <3>1, <3>2, KeepStep, Zenon
  <2> QED BY <1>5, <2>1, <2>2, Zenon DEF RecvOffer
<1>6. CASE RecvModifyAnswer
  <2>1. call' = sipsess_answer_handler(call)
    BY <1>6, Zenon DEF RecvModifyAnswer
  <2> QED BY <1>2, <1>3, <2>1, KeepStep, Zenon
<1> QED BY <1>4, <1>5, <1>6, Zenon

\* The steps that end the call.
LEMMA EndStep ==
  ASSUME IInv,
         \/ SessClose \/ InviteTimeout \/ StreamError \/ MencError \/ UserHangup
         \/ RecvReplaces
  PROVE  IInv' /\ Seen(call, call')
<1>1. call \in CallRec /\ CallOK(call) /\ Live(call)
  BY Zenon DEF IInv, TypeOK, Alive, SessClose, InviteTimeout, StreamError, MencError,
         UserHangup, RecvReplaces
<1>2. \/ call' = sipsess_close_handler(call) \/ call' = invite_timeout(call)
      \/ call' = stream_error_handler(call) \/ call' = menc_error_handler(call)
      \/ call' = ua_hangupf(call) \/ call' = call_replaced(call)
  BY Zenon DEF SessClose, InviteTimeout, StreamError, MencError, UserHangup, RecvReplaces
<1>3. /\ sipsess_close_handler(call) \in CallRec
      /\ stream_error_handler(call) \in CallRec
      /\ menc_error_handler(call) \in CallRec
      /\ ua_hangupf(call) \in CallRec
      /\ call_replaced(call) \in CallRec
  BY <1>1, EndType, Zenon
<1>4. invite_timeout(call) \in CallRec
  BY <1>1, AcceptType, ZenonT(30)
<1>5. CallOK(invite_timeout(call)) /\ Keeps(call, invite_timeout(call))
  BY <1>1, TimeoutOK, Zenon
<1>6. /\ CallOK(ua_hangupf(call)) /\ Keeps(call, ua_hangupf(call))
      /\ CallOK(sipsess_close_handler(call))
      /\ Keeps(call, sipsess_close_handler(call))
      /\ CallOK(stream_error_handler(call))
      /\ Keeps(call, stream_error_handler(call))
      /\ CallOK(menc_error_handler(call)) /\ Keeps(call, menc_error_handler(call))
      /\ CallOK(call_replaced(call)) /\ Keeps(call, call_replaced(call))
  BY <1>1, EndOK, Zenon
<1> QED BY <1>2, <1>3, <1>4, <1>5, <1>6, KeepStep, Zenon

\* Media-NAT, re-INVITE, hold.
LEMMA MediaStep ==
  ASSUME IInv, EstablishedMdir \/ MnatReport \/ UserHold \/ UserModify
  PROVE  IInv' /\ Seen(call, call')
<1>1. call \in CallRec /\ CallOK(call) /\ Live(call)
  BY Zenon DEF IInv, TypeOK, Alive, EstablishedMdir, MnatReport, UserHold, UserModify
<1>2. CASE EstablishedMdir
  <2>1. PICK need \in BOOLEAN, ok \in BOOLEAN :
          call' = set_established_mdir(call, need, ok)
    BY <1>2, Choices, Zenon DEF EstablishedMdir
  <2>2. call' \in CallRec
    BY <1>1, <2>1, EstabType, Zenon
  <2>3. CallOK(call') /\ Keeps(call, call')
    BY <1>1, <2>1, MdirOK, Zenon
  <2> QED BY <2>2, <2>3, KeepStep, Zenon
<1>3. CASE MnatReport
  <2>1. PICK failed \in BOOLEAN, blocked \in BOOLEAN, rel \in BOOLEAN,
             ok \in BOOLEAN : call' = mnat_handler(call, failed, blocked, rel, ok)
    BY <1>3, Choices, Zenon DEF MnatReport
  <2>2. call' \in CallRec
    BY <1>1, <2>1, MnatType, Zenon
  <2>3. CallOK(call') /\ Keeps(call, call')
    BY <1>1, <2>1, MnatOK, ZenonT(30)
  <2> QED BY <2>2, <2>3, KeepStep, Zenon
<1>4. CASE UserHold
  <2>1. PICK hold \in BOOLEAN, ok \in BOOLEAN : call' = call_hold(call, hold, ok)
    BY <1>4, Choices, Zenon DEF UserHold
  <2>2. call' \in CallRec
    BY <1>1, <2>1, HoldType, Zenon
  <2>3. CallOK(call') /\ Keeps(call, call')
    BY <1>1, <2>1, HoldOK, Zenon
  <2> QED BY <2>2, <2>3, KeepStep, Zenon
<1>5. CASE UserModify
  <2>1. PICK ok \in BOOLEAN : call' = call_modify(call, ok)
    BY <1>5, Choices, Zenon DEF UserModify
  <2>2. call' \in CallRec
    BY <1>1, <2>1, HoldType, Zenon
  <2>3. CallOK(call') /\ Keeps(call, call')
    BY <1>1, <2>1, HoldOK, Zenon
  <2> QED BY <2>2, <2>3, KeepStep, Zenon
<1> QED BY <1>2, <1>3, <1>4, <1>5, Zenon

\* Call transfer.
LEMMA TransferStep ==
  ASSUME IInv,
         \/ RecvRefer \/ XferCallClosed \/ RecvNotifyEnd \/ RecvSipfrag
         \/ RecvSubEnd \/ UserTransfer
  PROVE  IInv' /\ Seen(call, call')
<1>1. call \in CallRec /\ CallOK(call) /\ Live(call)
  BY ZenonT(30) DEF IInv, TypeOK, Alive, RecvRefer, XferCallClosed, RecvNotifyEnd,
         RecvSipfrag, RecvSubEnd, UserTransfer
<1>2. PICK ok \in BOOLEAN, bad \in BOOLEAN, scode \in {100, 200, 486} :
        \/ call' = sipsess_refer_handler(call, ok, bad)
        \/ call' = xfer_cleanup(call, ok)
        \/ call' = sipnot_close_handler(call, bad, ok)
        \/ call' = sipsub_notify_handler(call, scode, ok)
        \/ call' = sipsub_close_handler(call, bad, ok)
        \/ call' = call_transfer(call, ok)
  BY Choices DEF RecvRefer, XferCallClosed, RecvNotifyEnd, RecvSipfrag,
                 RecvSubEnd, UserTransfer
<1>3. scode \in Nat
  OBVIOUS
<1>4. /\ sipsess_refer_handler(call, ok, bad) \in CallRec
      /\ xfer_cleanup(call, ok) \in CallRec
      /\ sipnot_close_handler(call, bad, ok) \in CallRec
      /\ call_transfer(call, ok) \in CallRec
      /\ sipsub_notify_handler(call, scode, ok) \in CallRec
      /\ sipsub_close_handler(call, bad, ok) \in CallRec
  BY <1>1, <1>3, TransferType
<1>5. /\ CallOK(sipsess_refer_handler(call, ok, bad))
      /\ Keeps(call, sipsess_refer_handler(call, ok, bad))
      /\ CallOK(xfer_cleanup(call, ok)) /\ Keeps(call, xfer_cleanup(call, ok))
      /\ CallOK(sipnot_close_handler(call, bad, ok))
      /\ Keeps(call, sipnot_close_handler(call, bad, ok))
      /\ CallOK(call_transfer(call, ok)) /\ Keeps(call, call_transfer(call, ok))
      /\ CallOK(sipsub_notify_handler(call, scode, ok))
      /\ Keeps(call, sipsub_notify_handler(call, scode, ok))
      /\ CallOK(sipsub_close_handler(call, bad, ok))
      /\ Keeps(call, sipsub_close_handler(call, bad, ok))
  BY <1>1, <1>3, TransferOK
<1> QED BY <1>2, <1>4, <1>5, KeepStep

\* The steps of a call that exists.
LEMMA LiveStep ==
  ASSUME IInv, Next, call.state # "NONE"
  PROVE  Live(call) /\ IInv' /\ Seen(call, call')
<1>1. ~sipsess_conn_handler /\ ~UserConnect
  BY ZenonT(30) DEF sipsess_conn_handler, UserConnect
<1>2. Alive
  BY <1>1, ZenonT(30) DEF Next, RecvPrack, RecvAck, Recv1xx, Recv2xx, SessClose, RecvOffer,
     RecvModifyAnswer, RecvRefer, XferCallClosed, RecvNotifyEnd, RecvSipfrag,
     RecvSubEnd, InviteTimeout, DelayedAnswer, EstablishedMdir, MnatReport,
     StreamError, MencError, UserAnswer, UserProgress, UserAutoAnswer,
     UserHangup, UserHold, UserModify, UserTransfer, RecvReplaces
<1>3. CASE RecvAck
  <2>1. call.sess = "answered"
    BY <1>3, Zenon DEF RecvAck
  <2>2. LET e == [call EXCEPT !.sess = "estab"]
        IN  \/ call' = sipsess_estab_handler(e)
            \/ call' = sipsess_estab_handler(sipsess_answer_handler(e))
            \/ call' = sipsess_close_handler(e)
    BY <1>3, Zenon DEF RecvAck
  <2> QED BY <1>2, <2>1, <2>2, EstabStep, Zenon DEF Alive
<1>4. CASE Recv2xx
  <2>1. call.sess = "inviting"
    BY <1>4, Zenon DEF Recv2xx
  <2>2. LET e == [call EXCEPT !.sess = "estab"]
        IN  \/ call' = sipsess_estab_handler(e)
            \/ call' = sipsess_estab_handler(sipsess_answer_handler(e))
            \/ call' = sipsess_close_handler(e)
    BY <1>4, Zenon DEF Recv2xx
  <2> QED BY <1>2, <2>1, <2>2, EstabStep, Zenon DEF Alive
<1>5. CASE \/ RecvPrack \/ DelayedAnswer \/ UserAnswer \/ UserProgress
           \/ UserAutoAnswer
  BY <1>2, <1>5, AnswerStep, Zenon DEF Alive
<1>6. CASE Recv1xx \/ RecvOffer \/ RecvModifyAnswer
  BY <1>2, <1>6, ResponseStep, Zenon DEF Alive
<1>7. CASE \/ SessClose \/ InviteTimeout \/ StreamError \/ MencError
           \/ UserHangup \/ RecvReplaces
  BY <1>2, <1>7, EndStep, Zenon DEF Alive
<1>8. CASE EstablishedMdir \/ MnatReport \/ UserHold \/ UserModify
  BY <1>2, <1>8, MediaStep, Zenon DEF Alive
<1>9. CASE \/ RecvRefer \/ XferCallClosed \/ RecvNotifyEnd \/ RecvSipfrag
           \/ RecvSubEnd \/ UserTransfer
  BY <1>2, <1>9, TransferStep, Zenon DEF Alive
<1> QED BY <1>1, <1>3, <1>4, <1>5, <1>6, <1>7, <1>8, <1>9, Zenon DEF Next

\* The steps that create the call.
LEMMA FirstStep ==
  ASSUME IInv, Next, call.state = "NONE"
  PROVE  sipsess_conn_handler \/ UserConnect
BY ZenonT(30) DEF Next, Alive, Live, NoObject, RecvPrack, RecvAck, Recv1xx, Recv2xx,
   SessClose, RecvOffer, RecvModifyAnswer, RecvRefer, XferCallClosed,
   RecvNotifyEnd, RecvSipfrag, RecvSubEnd, InviteTimeout, DelayedAnswer,
   EstablishedMdir, MnatReport, StreamError, MencError, UserAnswer,
   UserProgress, UserAutoAnswer, UserHangup, UserHold, UserModify,
   UserTransfer, RecvReplaces

-----------------------------------------------------------------------------
(* The theorems *)

\* IInv is an invariant of the call, for every configuration of the account.
THEOREM Invariance == Spec => []IInv
<1>1. Init => IInv
  <2>1. NoCall \in CallRec
    BY NoCallType, Zenon
  <2>2. CallOK(NoCall)
    BY DEF NoCall, CallOK, Live, NoObject
  <2> QED BY <2>1, <2>2, Zenon DEF Init, IInv, TypeOK
<1>2. IInv /\ [Next]_call => IInv'
  <2> SUFFICES ASSUME IInv, [Next]_call PROVE IInv'
    BY Zenon
  <2>1. CASE UNCHANGED call
    BY <2>1, Zenon DEF IInv, TypeOK, CallOK, Live
  <2>2. CASE Next /\ call.state # "NONE"
    BY <2>2, LiveStep, Zenon
  <2>3. CASE Next /\ call.state = "NONE"
    BY <2>3, FirstStep, InviteStep, ConnectStep, Zenon
  <2> QED BY <2>1, <2>2, <2>3, Zenon
<1> QED BY <1>1, <1>2, PTL DEF Spec

\* struct call keeps its type.
THEOREM TypeCorrect == Spec => []TypeOK
<1>1. IInv => TypeOK
  BY Zenon DEF IInv
<1> QED BY <1>1, Invariance, PTL

\* invite_timeout() never cuts a call that is established, nor an outgoing one.
THEOREM LocalTimeoutSafe == Spec => []LocalTimeoutBeforeEstab
<1>1. IInv => LocalTimeoutBeforeEstab
  BY Zenon DEF IInv, CallOK, LocalTimeoutBeforeEstab
<1> QED BY <1>1, Invariance, PTL

\* call_answer() never sends a 200 while a 1xx with SDP waits for its PRACK.
THEOREM AnswerAfterPrack == Spec => []NoAnswerBeforePrack
<1>1. IInv => NoAnswerBeforePrack
  BY Zenon DEF IInv, CallOK, NoAnswerBeforePrack, sipsess_awaiting_prack
<1> QED BY <1>1, Invariance, PTL

\* An established call has its session until the call is closed.
THEOREM SessionWhileEstablished == Spec => []EstablishedHasSession
<1>1. IInv => EstablishedHasSession
  BY Zenon DEF IInv, CallOK, EstablishedHasSession, Alive
<1> QED BY <1>1, Invariance, PTL

\* call.c and ua.c implement the life of a call that CallLife promises the
\* application: ESTABLISHED at most once, CLOSED exactly once and as the last.
THEOREM CallImplementsLife == Spec => LifeSpec
<1>1. Init => Life!Init
  BY DEF Init, Life!Init, Phase, NoCall
<1>2. IInv /\ [Next]_call => [Life!Next]_<<Phase, call.closed > 0>>
  <2> SUFFICES ASSUME IInv, [Next]_call
               PROVE  [Life!Next]_<<Phase, call.closed > 0>>
    BY Zenon
  <2>1. /\ call \in CallRec /\ CallOK(call)
        /\ call.estab \in Nat /\ call.closed \in Nat
    BY CountersType, Zenon DEF IInv, TypeOK
  <2>2. CASE UNCHANGED call
    BY <2>2, Zenon DEF Phase
  <2>3. CASE Next /\ call.state # "NONE"
    <3>1. Live(call) /\ IInv' /\ Seen(call, call')
      BY <2>3, LiveStep, Zenon
    <3>2. call.closed = 0 /\ call.estab \in {0, 1}
      BY <2>1, <3>1 DEF CallOK, Live, NoObject
    <3>3. CASE Live(call') /\ call'.estab = call.estab /\ call'.closed = call.closed
      BY <3>1, <3>2, <3>3, Zenon DEF Phase, Live, NoObject
    <3>4. CASE /\ call'.state = "FREED" /\ call'.estab = call.estab
               /\ call'.closed = call.closed + 1
      BY <3>1, <3>2, <3>4 DEF Phase, Live, NoObject, Life!Next, Life!Close
    <3>5. CASE /\ Live(call') /\ call'.closed = call.closed
               /\ call.estab = 0 /\ call'.estab = 1
      BY <3>1, <3>2, <3>5 DEF Phase, Live, NoObject, Life!Next, Life!Establish
    <3> QED BY <3>1, <3>3, <3>4, <3>5, Zenon DEF Seen, Keeps
  <2>4. CASE Next /\ call.state = "NONE"
    <3>1. /\ IInv' /\ call'.estab = 0 /\ call'.closed \in {0, 1}
          /\ Live(call') => call'.closed = 0
          /\ call'.state # "NONE"
      BY <2>4, FirstStep, InviteStep, ConnectStep, Zenon
    <3>2. CASE Live(call')
      BY <2>4, <3>1, <3>2 DEF Phase, Live, NoObject, Life!Next, Life!Open
    <3>3. CASE call'.state = "FREED"
      BY <2>4, <3>1, <3>3 DEF Phase, Life!Next, Life!Close, Life!Drop
    <3> QED BY <3>1, <3>2, <3>3, Zenon DEF Live, NoObject
  <2> QED BY <2>2, <2>3, <2>4, Zenon
<1> QED BY <1>1, <1>2, Invariance, PTL DEF Spec, LifeSpec, Life!Spec
-----------------------------------------------------------------------------
(* Part 4: the order of events *)

\* The call was announced, or waits for the report of the media-NAT module.
AnnouncedOrWaits ==
  \/ /\ call.announced = 1
     /\ call.state = "INCOMING" => ~(Mnat /\ call.mnat_wait)
  \/ /\ call.announced = 0
     /\ call.state = "INCOMING" /\ call.sess = "invited"
     /\ Mnat /\ call.mnat_wait /\ ~call.answered

\* What every step keeps, given IInv.
Ordered ==
  /\ AnnouncedFirst
  /\ Alive =>
       /\ call.sess = "estab" => call.state \in {"ESTABLISHED", "TRANSFER"}
       /\ call.negotiated => call.sess \in {"inviting", "estab"}
       /\ call.negotiated \/ call.estab > 0 => call.media \/ muted
       /\ AnnouncedOrWaits \/ unheard

-----------------------------------------------------------------------------
(* The steps, by what they do to the order of events *)

\* The history variables only get worse, but for a media stream that starts.
LEMMA History ==
  ASSUME MCNext
  PROVE  /\ unheard => unheard'
         /\ ~call.answered /\ call'.answered /\ call.mnat_wait => unheard'
         /\ muted /\ ~call'.media => muted'
         /\ call.sess = "inviting" /\ call.negotiated /\ call.media /\ ~call'.media => muted'
BY ZenonT(30) DEF MCNext

\* A step that changes timers, queues, subscriptions, or starts the media.
Quiet(c, d) ==
  /\ d.state = c.state /\ d.sess = c.sess /\ d.estab = c.estab
  /\ d.announced = c.announced
  /\ d.negotiated => c.negotiated
  /\ d.answered => c.answered
  /\ c.mnat_wait = d.mnat_wait
  /\ c.media => d.media

\* A step that answers the INVITE.
Answers(c, d) ==
  /\ c.sess = "invited" /\ d.sess = "answered"
  /\ d.state = c.state /\ d.estab = c.estab /\ d.announced = c.announced
  /\ d.negotiated => c.negotiated
  /\ d.answered
  /\ c.mnat_wait = d.mnat_wait
  /\ c.media => d.media

\* A step of a session that we invited, or of one that is established.
Moves(c, d) ==
  /\ c.sess \in {"inviting", "estab"} /\ d.sess = c.sess /\ d.estab = c.estab
  /\ d.announced = c.announced
  /\ d.negotiated => c.negotiated \/ d.media
  /\ c.sess = "estab" => d.state \in {"ESTABLISHED", "TRANSFER"} /\ (c.media => d.media)
  /\ c.sess = "inviting" => d.state \in {c.state, "RINGING", "EARLY"}
  /\ d.answered => c.answered
  /\ c.mnat_wait = d.mnat_wait

\* A step that ends the call.
Ends(c, d) ==
  d.state = "FREED" /\ d.estab = c.estab /\ d.announced = c.announced

LEMMA QuietStep ==
  ASSUME IInv, Ordered, MCNext, Alive, Quiet(call, call')
  PROVE  Ordered'
BY History, Zenon DEF Ordered, AnnouncedFirst, AnnouncedOrWaits, Alive, Quiet

LEMMA AnswersStep ==
  ASSUME IInv, Ordered, MCNext, Alive, Answers(call, call')
  PROVE  Ordered'
<1>1. call \in CallRec /\ CallOK(call)
  BY Zenon DEF IInv, TypeOK
<1>2. call.estab = 0 /\ ~call.negotiated
  BY <1>1 DEF CallOK, CallRec, Alive, Live, NoObject, Ordered, Answers
<1>3. (AnnouncedOrWaits \/ unheard)'
  <2>1. CASE unheard
    BY <2>1, History, Zenon
  <2>2. CASE call.announced = 1 /\ (call.state = "INCOMING" => ~(Mnat /\ call.mnat_wait))
    BY <2>2, Zenon DEF Answers, AnnouncedOrWaits
  <2>3. CASE ~call.answered /\ call.mnat_wait
    BY <2>3, History, Zenon DEF Answers
  <2>4. QED
    BY <2>1, <2>2, <2>3, Zenon DEF Ordered, AnnouncedOrWaits
<1>4. QED
  BY <1>2, <1>3 DEF Answers, Ordered, AnnouncedFirst, Alive

LEMMA MovesStep ==
  ASSUME IInv, Ordered, MCNext, Alive, Moves(call, call')
  PROVE  Ordered'
<1>1. call \in CallRec /\ CallOK(call)
  BY Zenon DEF IInv, TypeOK
<1>2. call.estab > 0 => call.sess = "estab"
  BY <1>1, Zenon DEF CallOK, Alive
<1>3. call'.negotiated \/ call'.estab > 0 => call'.media \/ muted'
  BY <1>2, History, Zenon DEF Moves, Ordered
<1>4. (AnnouncedOrWaits \/ unheard)'
  <2>1. CASE unheard
    BY <2>1, History, Zenon
  <2>2. CASE ~unheard
    <3>1. call.announced = 1 /\ (call.state = "INCOMING" => ~(Mnat /\ call.mnat_wait))
      BY <2>2, Zenon DEF Ordered, AnnouncedOrWaits, Moves
    <3>2. QED
      BY <3>1, Zenon DEF Ordered, AnnouncedOrWaits, Moves
  <2>3. QED
    BY <2>1, <2>2, Zenon
<1>5. AnnouncedFirst'
  BY History, Zenon DEF Moves, Ordered, AnnouncedFirst
<1>6. QED
  BY <1>3, <1>4, <1>5, Zenon DEF Moves, Ordered

LEMMA EndsStep ==
  ASSUME Ordered, MCNext, Ends(call, call')
  PROVE  Ordered'
BY History, Zenon DEF Ends, Ordered, AnnouncedFirst, Alive, Live, NoObject

-----------------------------------------------------------------------------
(* The operators of CallOps *)

LEMMA QuietChain ==
  ASSUME NEW c, NEW d, NEW e, Quiet(c, d)
  PROVE  /\ Quiet(d, e) => Quiet(c, e)
         /\ Answers(d, e) => Answers(c, e)
BY Zenon DEF Quiet, Answers

\* Timers, queues and subscriptions are no part of the order.
LEMMA AsideOrder ==
  ASSUME NEW c \in CallRec,
         NEW d \in {[c EXCEPT !.rel1xx = "none"], [c EXCEPT !.tmr_answ = FALSE],
                    [c EXCEPT !.tmr_answ = TRUE], [c EXCEPT !.ans_queued = TRUE],
                    [c EXCEPT !.tmr_reinv = FALSE], [c EXCEPT !.xnot = FALSE],
                    [c EXCEPT !.xsub = FALSE]}
  PROVE  d \in CallRec /\ Quiet(c, d)
<1>1. CASE d = [c EXCEPT !.rel1xx = "none"]
  <2>1. d \in CallRec
    BY <1>1 DEF CallRec, Rel1xxStates
  <2>2. Quiet(c, d)
    BY <1>1, Zenon DEF CallRec, Quiet
  <2>3. QED
    BY <2>1, <2>2, Zenon
<1>2. CASE d = [c EXCEPT !.tmr_answ = FALSE]
  <2>1. d \in CallRec
    BY <1>2, ZenonT(30) DEF CallRec
  <2>2. Quiet(c, d)
    BY <1>2, Zenon DEF CallRec, Quiet
  <2>3. QED
    BY <2>1, <2>2, Zenon
<1>3. CASE d = [c EXCEPT !.tmr_answ = TRUE]
  <2>1. d \in CallRec
    BY <1>3, ZenonT(30) DEF CallRec
  <2>2. Quiet(c, d)
    BY <1>3, ZenonT(30) DEF CallRec, Quiet
  <2>3. QED
    BY <2>1, <2>2, Zenon
<1>4. CASE d = [c EXCEPT !.ans_queued = TRUE]
  <2>1. d \in CallRec
    BY <1>4, ZenonT(30) DEF CallRec
  <2>2. Quiet(c, d)
    BY <1>4, Zenon DEF CallRec, Quiet
  <2>3. QED
    BY <2>1, <2>2, Zenon
<1>5. CASE d = [c EXCEPT !.tmr_reinv = FALSE]
  <2>1. d \in CallRec
    BY <1>5, ZenonT(30) DEF CallRec
  <2>2. Quiet(c, d)
    BY <1>5, Zenon DEF CallRec, Quiet
  <2>3. QED
    BY <2>1, <2>2, Zenon
<1>6. CASE d = [c EXCEPT !.xnot = FALSE]
  <2>1. d \in CallRec
    BY <1>6, ZenonT(30) DEF CallRec
  <2>2. Quiet(c, d)
    BY <1>6, Zenon DEF CallRec, Quiet
  <2>3. QED
    BY <2>1, <2>2, Zenon
<1>7. CASE d = [c EXCEPT !.xsub = FALSE]
  <2>1. d \in CallRec
    BY <1>7, ZenonT(30) DEF CallRec
  <2>2. Quiet(c, d)
    BY <1>7, Zenon DEF CallRec, Quiet
  <2>3. QED
    BY <2>1, <2>2, Zenon
<1>8. QED
  BY <1>1, <1>2, <1>3, <1>4, <1>5, <1>6, <1>7, Zenon

\* call_answer() answers, or only cancels the timer.
LEMMA AnswerOrder ==
  ASSUME NEW c \in CallRec, NEW ok \in BOOLEAN
  PROVE  Quiet(c, call_answer(c, ok)) \/ Answers(c, call_answer(c, ok))
BY ZenonT(30) DEF CallRec, call_answer, sipsess_awaiting_prack, Quiet, Answers

LEMMA ProgressOrder ==
  ASSUME NEW c \in CallRec, NEW rel \in BOOLEAN, NEW ok \in BOOLEAN
  PROVE  Quiet(c, call_progress(c, rel, ok))
BY ZenonT(30) DEF CallRec, call_progress, call_update_media, Quiet

LEMMA HoldOrder ==
  ASSUME NEW c \in CallRec, NEW hold \in BOOLEAN, NEW ok \in BOOLEAN
  PROVE  Quiet(c, call_modify(c, ok)) /\ Quiet(c, call_hold(c, hold, ok))
BY Zenon DEF CallRec, call_modify, call_hold, call_update_media, Quiet

LEMMA ClosedOrder ==
  ASSUME NEW c \in CallRec
  PROVE  Ends(c, EvClosed(c))
BY ZenonT(30) DEF CallRec, EvClosed, call_destructor, NoCall, Ends

-----------------------------------------------------------------------------
(* The actions *)

\* The answer, the 183 and what is queued behind the PRACK.
LEMMA AnswerAction ==
  ASSUME IInv, RecvPrack \/ DelayedAnswer \/ UserAnswer \/ UserProgress \/ UserAutoAnswer
  PROVE  Quiet(call, call') \/ Answers(call, call')
<1>0. call \in CallRec
  BY Zenon DEF IInv, TypeOK
<1>1. CASE RecvPrack
  <2> DEFINE c == [call EXCEPT !.rel1xx = "none"]
  <2>1. PICK rel \in BOOLEAN, ok \in BOOLEAN : call' = prack_handler(c, rel, ok)
    BY <1>1, Choices, Zenon DEF RecvPrack
  <2>2. c \in CallRec /\ Quiet(call, c)
    BY <1>0, AsideOrder, ZenonT(30)
  <2> HIDE DEF c
  <2>3. call' \in {call_answer(c, ok), call_progress(c, rel, ok), c}
    BY <2>1, Zenon DEF prack_handler
  <2>4. Quiet(c, c)
    BY Zenon DEF Quiet
  <2>5. Quiet(c, call') \/ Answers(c, call')
    BY <2>2, <2>3, <2>4, AnswerOrder, ProgressOrder, Zenon
  <2>6. QED
    BY <2>2, <2>5, QuietChain, Zenon
<1>2. CASE DelayedAnswer
  <2> DEFINE c == [call EXCEPT !.tmr_answ = FALSE]
             q == [c EXCEPT !.ans_queued = TRUE]
  <2>1. PICK ok \in BOOLEAN : call' = delayed_answer_handler(call, ok)
    BY <1>2, Choices, Zenon DEF DelayedAnswer
  <2>2. c \in CallRec /\ Quiet(call, c)
    BY <1>0, AsideOrder, ZenonT(30)
  <2>3. call' \in {q, call_answer(c, ok)}
    BY <2>1, Zenon DEF delayed_answer_handler
  <2> HIDE DEF c
  <2>6. Quiet(c, q)
    BY <2>2, AsideOrder, ZenonT(30)
  <2> HIDE DEF q
  <2>4. Quiet(c, call') \/ Answers(c, call')
    BY <2>2, <2>3, <2>6, AnswerOrder, Zenon
  <2>5. QED
    BY <2>2, <2>4, QuietChain, Zenon
<1>3. CASE UserAnswer
  <2>1. PICK ok \in BOOLEAN : call' = call_answer(call, ok)
    BY <1>3, Choices, Zenon DEF UserAnswer
  <2>2. QED
    BY <1>0, <2>1, AnswerOrder, Zenon
<1>4. CASE UserProgress
  <2>1. PICK rel \in BOOLEAN, ok \in BOOLEAN : call' = call_progress(call, rel, ok)
    BY <1>4, Choices, Zenon DEF UserProgress
  <2>2. QED
    BY <1>0, <2>1, ProgressOrder, Zenon
<1>5. CASE UserAutoAnswer
  <2>1. call' = [call EXCEPT !.tmr_answ = TRUE]
    BY <1>5, Zenon DEF UserAutoAnswer, call_start_answtmr
  <2>2. QED
    BY <1>0, <2>1, AsideOrder, ZenonT(30)
<1>6. QED
  BY <1>1, <1>2, <1>3, <1>4, <1>5, Zenon

\* Re-INVITEs of both sides, hold, and the end of a subscription.
LEMMA MediaAction ==
  ASSUME IInv, \/ RecvOffer \/ EstablishedMdir \/ UserHold \/ UserModify
               \/ UserTransfer \/ RecvNotifyEnd \/ RecvSubEnd
  PROVE  Quiet(call, call')
<1>0. call \in CallRec
  BY Zenon DEF IInv, TypeOK
<1>1. CASE RecvOffer
  <2>1. \/ call' = sipsess_offer_handler(call)
        \/ call' = [call EXCEPT !.got_offer = TRUE]
    BY <1>1, Zenon DEF RecvOffer
  <2>2. CASE call' = sipsess_offer_handler(call)
    BY <1>0, <2>2, Zenon DEF sipsess_offer_handler, call_update_media, CallRec, Quiet
  <2>3. CASE call' = [call EXCEPT !.got_offer = TRUE]
    BY <1>0, <2>3, Zenon DEF CallRec, Quiet
  <2>4. QED
    BY <2>1, <2>2, <2>3, Zenon
<1>2. CASE UserHold \/ UserModify
  <2>1. PICK hold \in BOOLEAN, ok \in BOOLEAN :
          call' \in {call_hold(call, hold, ok), call_modify(call, ok)}
    BY <1>2, Choices, Zenon DEF UserHold, UserModify
  <2>2. QED
    BY <1>0, <2>1, HoldOrder, Zenon
<1>3. CASE EstablishedMdir
  <2> DEFINE c == [call EXCEPT !.tmr_reinv = FALSE]
  <2>1. PICK need \in BOOLEAN, ok \in BOOLEAN :
          call' = set_established_mdir(call, need, ok)
    BY <1>3, Choices, Zenon DEF EstablishedMdir
  <2>2. c \in CallRec /\ Quiet(call, c)
    BY <1>0, AsideOrder, ZenonT(30)
  <2>3. call' \in {c, call_modify(c, ok)}
    BY <2>1, Zenon DEF set_established_mdir
  <2> HIDE DEF c
  <2>4. Quiet(c, call_modify(c, ok))
    BY <2>2, HoldOrder, Zenon
  <2>5. QED
    BY <2>2, <2>3, <2>4, QuietChain, Zenon
<1>4. CASE UserTransfer
  BY <1>0, <1>4 DEF UserTransfer, call_transfer, CallRec, Quiet
<1>5. CASE RecvNotifyEnd
  <2> DEFINE c == [call EXCEPT !.xnot = FALSE]
  <2>1. PICK bad \in BOOLEAN, ok \in BOOLEAN : call' = sipnot_close_handler(call, bad, ok)
    BY <1>5, Choices, Zenon DEF RecvNotifyEnd
  <2>2. c \in CallRec /\ Quiet(call, c)
    BY <1>0, AsideOrder, ZenonT(30)
  <2>3. call' \in {c, call_hold(c, FALSE, ok)}
    BY <2>1, Zenon DEF sipnot_close_handler, EvTransferFailed
  <2> HIDE DEF c
  <2>4. Quiet(c, call_hold(c, FALSE, ok))
    BY <2>2, HoldOrder, ZenonT(30)
  <2>5. QED
    BY <2>2, <2>3, <2>4, QuietChain, ZenonT(30)
<1>7. CASE RecvSubEnd
  <2> DEFINE c == [call EXCEPT !.xsub = FALSE]
  <2>1. PICK bad \in BOOLEAN, ok \in BOOLEAN : call' = sipsub_close_handler(call, bad, ok)
    BY <1>7, Choices, Zenon DEF RecvSubEnd
  <2>2. c \in CallRec /\ Quiet(call, c)
    BY <1>0, AsideOrder, ZenonT(30)
  <2>3. call' \in {c, call_hold(c, FALSE, ok)}
    BY <2>1, Zenon DEF sipsub_close_handler, EvTransferFailed
  <2> HIDE DEF c
  <2>4. Quiet(c, call_hold(c, FALSE, ok))
    BY <2>2, HoldOrder, Zenon
  <2>5. QED
    BY <2>2, <2>3, <2>4, QuietChain, Zenon
<1>8. QED
  BY <1>1, <1>2, <1>3, <1>4, <1>5, <1>7, Zenon

\* Provisional responses, the answer to our re-INVITE.
LEMMA ResponseAction ==
  ASSUME IInv, Ordered, Recv1xx \/ RecvModifyAnswer
  PROVE  Moves(call, call')
<1>0. call \in CallRec /\ Alive
  BY Zenon DEF IInv, TypeOK, Recv1xx, RecvModifyAnswer
<1>1. CASE Recv1xx
  <2> DEFINE a == sipsess_answer_handler(call)
  <2>1. PICK scode \in {180, 181, 183}, sdp \in BOOLEAN, rel \in BOOLEAN,
             start \in BOOLEAN :
          call' = sipsess_progr_handler(
                    IF sdp /\ rel /\ ~call.negotiated THEN a ELSE call, scode, sdp, start)
    BY <1>1, Choices DEF Recv1xx
  <2>2. call.sess = "inviting"
    BY <1>1, ZenonT(30) DEF Recv1xx
  <2>3. PICK c : /\ c = (IF sdp /\ rel /\ ~call.negotiated THEN a ELSE call)
                 /\ call' = sipsess_progr_handler(c, scode, sdp, start)
    BY <2>1, Zenon
  <2>4. /\ c \in CallRec /\ c.sess = call.sess /\ c.estab = call.estab
        /\ c.state = call.state /\ c.announced = call.announced
        /\ c.answered = call.answered /\ c.mnat_wait = call.mnat_wait
        /\ c.negotiated => call.negotiated \/ (sdp /\ c.media)
    <3>1. CASE c = call
      BY <1>0, <3>1, ZenonT(30)
    <3>2. CASE sdp /\ c = a
      <4>1. c \in CallRec
        BY <1>0, <3>2, ResponseType, Zenon
      <4>2. c = sipsess_answer_handler(call)
        BY <3>2, Zenon
      <4>3. c.sess = call.sess /\ c.estab = call.estab /\ c.state = call.state
        BY <1>0, <4>2, ZenonT(30) DEF sipsess_answer_handler, call_update_media, CallRec
      <4>4. c.announced = call.announced /\ c.answered = call.answered
        BY <1>0, <4>2, ZenonT(30) DEF sipsess_answer_handler, call_update_media, CallRec
      <4>5. c.mnat_wait = call.mnat_wait /\ c.media
        BY <1>0, <4>2, ZenonT(30) DEF sipsess_answer_handler, call_update_media, CallRec
      <4>6. QED
        BY <3>2, <4>1, <4>3, <4>4, <4>5, Zenon
    <3>3. QED
      BY <2>3, <3>1, <3>2, Zenon
  <2>5. /\ call'.sess = c.sess /\ call'.estab = c.estab /\ call'.announced = c.announced
        /\ call'.answered = c.answered /\ call'.mnat_wait = c.mnat_wait
        /\ call'.negotiated = c.negotiated
        /\ sdp /\ c.media => call'.media
        /\ call'.state \in {c.state, "RINGING", "EARLY"}
    BY <2>3, <2>4 DEF sipsess_progr_handler, call_update_media, call_stream_stop, CallRec
  <2>6. QED
    BY <2>2, <2>4, <2>5 DEF Moves
<1>2. CASE RecvModifyAnswer
  <2>1. call.sess = "estab" /\ call' = sipsess_answer_handler(call)
    BY <1>2, Zenon DEF RecvModifyAnswer
  <2>2. call.state \in {"ESTABLISHED", "TRANSFER"}
    BY <1>0, <2>1, Zenon DEF Ordered
  <2>3. /\ call'.sess = call.sess /\ call'.estab = call.estab
        /\ call'.announced = call.announced /\ call'.state = call.state /\ call'.media
        /\ call'.answered = call.answered /\ call'.mnat_wait = call.mnat_wait
    BY <1>0, <2>1, ZenonT(30) DEF sipsess_answer_handler, call_update_media, CallRec
  <2>4. QED
    BY <2>1, <2>2, <2>3, Zenon DEF Moves
<1>3. QED
  BY <1>1, <1>2, Zenon

\* Everything that ends a call.
LEMMA EndAction ==
  ASSUME IInv, \/ SessClose \/ InviteTimeout \/ StreamError \/ MencError
               \/ UserHangup \/ RecvReplaces
  PROVE  Ends(call, call')
<1>0. call \in CallRec
  BY Zenon DEF IInv, TypeOK
<1>1. \/ call' = sipsess_close_handler(call) \/ call' = invite_timeout(call)
      \/ call' = stream_error_handler(call) \/ call' = menc_error_handler(call)
      \/ call' = ua_hangupf(call) \/ call' = call_replaced(call)
  BY Zenon DEF SessClose, InviteTimeout, StreamError, MencError, UserHangup, RecvReplaces
<1> USE <1>0 DEF call_stream_stop, EvClosed, call_destructor, NoCall, CallRec, Ends
<1>2. CASE call' = ua_hangupf(call)
  BY <1>2 DEF ua_hangupf, call_hangupf
<1>3. CASE call' = sipsess_close_handler(call)
  BY <1>3, ZenonT(30) DEF sipsess_close_handler
<1>4. CASE call' = stream_error_handler(call)
  BY <1>4, ZenonT(30) DEF stream_error_handler
<1>5. CASE call' = menc_error_handler(call)
  BY <1>5, ZenonT(30) DEF menc_error_handler
<1>6. CASE call' = invite_timeout(call)
  BY <1>6, ZenonT(30) DEF invite_timeout
<1>7. CASE call' = call_replaced(call)
  BY <1>7, ZenonT(30) DEF call_replaced
<1>8. QED
  BY <1>1, <1>2, <1>3, <1>4, <1>5, <1>6, <1>7, Zenon

\* A transfer is begun or over: of a call whose INVITE has been answered.
Hands(c, d) ==
  /\ c.sess # "invited" \/ c.state = "TRANSFER"
  /\ d.state \in {"ESTABLISHED", "TRANSFER"}
  /\ d.sess = c.sess /\ d.estab = c.estab /\ d.announced = c.announced
  /\ d.negotiated => c.negotiated
  /\ c.media => d.media

LEMMA HandsStep ==
  ASSUME IInv, Ordered, MCNext, Alive, Hands(call, call')
  PROVE  Ordered'
<1>1. (AnnouncedOrWaits \/ unheard)'
  <2>1. CASE unheard
    BY <2>1, History, Zenon
  <2>2. CASE ~unheard
    BY <2>2, Zenon DEF Ordered, AnnouncedOrWaits, Hands
  <2>3. QED
    BY <2>1, <2>2, Zenon
<1>2. call'.negotiated \/ call'.estab > 0 => call'.media \/ muted'
  BY History, Zenon DEF Ordered, Hands
<1>3. QED
  BY <1>1, <1>2, History, Zenon DEF Ordered, AnnouncedFirst, Hands

LEMMA TransferAction ==
  ASSUME IInv, RecvRefer \/ XferCallClosed \/ RecvSipfrag
  PROVE  Quiet(call, call') \/ Hands(call, call') \/ Ends(call, call')
<1>0. call \in CallRec
  BY Zenon DEF IInv, TypeOK
<1>1. CASE RecvRefer
  <2>1. call.sess \in {"answered", "estab"}
    BY <1>1, Zenon DEF RecvRefer
  <2>2. PICK a \in BOOLEAN, b \in BOOLEAN : call' = sipsess_refer_handler(call, a, b)
    BY <1>1, Choices, Zenon DEF RecvRefer
  <2>3. CASE ~a
    BY <1>0, <2>2, <2>3, Zenon DEF sipsess_refer_handler, CallRec, Quiet
  <2>4. CASE a
    BY <1>0, <2>1, <2>2, <2>4 DEF sipsess_refer_handler, call_notify_sipfrag, CallRec, Hands
  <2>5. QED
    BY <2>3, <2>4, Zenon
<1>2. CASE XferCallClosed
  <2>1. PICK ok \in BOOLEAN : call' = xfer_cleanup(call, ok)
    BY <1>2, Choices, Zenon DEF XferCallClosed
  <2>2. CASE call.state # "TRANSFER"
    BY <1>0, <2>1, <2>2, Zenon DEF xfer_cleanup, CallRec, Quiet
  <2>3. CASE call.state = "TRANSFER"
    BY <1>0, <2>1, <2>3, ZenonT(30) DEF xfer_cleanup, EvTransferFailed, call_hold, call_modify,
       call_update_media, CallRec, Hands
  <2>4. QED
    BY <2>2, <2>3, Zenon
<1>3. CASE RecvSipfrag
  <2>1. PICK scode \in {100, 200, 486}, ok \in BOOLEAN :
          call' = sipsub_notify_handler(call, scode, ok)
    BY <1>3, Choices DEF RecvSipfrag
  <2>2. call' \in {call_hold(call, FALSE, ok), EvClosed(call), call}
    BY <2>1 DEF sipsub_notify_handler, EvTransferFailed
  <2>3. Quiet(call, call)
    BY ZenonT(30) DEF Quiet
  <2>4. Quiet(call, call_hold(call, FALSE, ok)) /\ Ends(call, EvClosed(call))
    BY <1>0, HoldOrder, ClosedOrder, ZenonT(30)
  <2>5. QED
    BY <2>2, <2>3, <2>4, ZenonT(30)
<1>4. QED
  BY <1>1, <1>2, <1>3, Zenon

\* The session is established: the answer that came, now or before, or the offer
\* has started the media.
LEMMA EstabOrder ==
  ASSUME IInv, Ordered, MCNext, RecvAck \/ Recv2xx
  PROVE  Ordered'
<1> DEFINE e == [call EXCEPT !.sess = "estab"]
           a == sipsess_answer_handler(e)
<1>0. /\ call \in CallRec /\ CallOK(call) /\ Alive
      /\ call.sess \in {"answered", "inviting"}
  BY Zenon DEF IInv, TypeOK, RecvAck, Recv2xx
<1>1. /\ e \in CallRec /\ e.sess = "estab" /\ e.state = call.state
      /\ e.estab = call.estab /\ e.announced = call.announced /\ e.media = call.media
      /\ e.answered = call.answered /\ e.mnat_wait = call.mnat_wait
      /\ e.got_offer = call.got_offer /\ e.negotiated = call.negotiated
  BY <1>0, Zenon DEF CallRec, SessStates
<1>2. call.estab = 0
  BY <1>0 DEF CallOK, CallRec, Alive
<1> HIDE DEF e
<1>3. /\ a \in CallRec /\ a.sess = "estab" /\ a.state = call.state
      /\ a.estab = call.estab /\ a.announced = call.announced /\ a.media
      /\ a.answered = call.answered /\ a.mnat_wait = call.mnat_wait
  <2>1. a \in CallRec
    BY <1>1, ResponseType, ZenonT(30)
  <2>2. QED
    BY <1>1, <2>1, ZenonT(60) DEF sipsess_answer_handler, call_update_media, CallRec
<1> HIDE DEF a
<1>4. \/ call' = sipsess_close_handler(e)
      \/ call' = sipsess_estab_handler(a)
      \/ call' = sipsess_estab_handler(e) /\ (call.got_offer \/ call.negotiated)
  BY Zenon DEF RecvAck, Recv2xx, e, a
<1>5. CASE call' = sipsess_close_handler(e)
  <2>1. Ends(e, call')
    BY <1>1, <1>5 DEF sipsess_close_handler, call_stream_stop, EvClosed, call_destructor,
       NoCall, CallRec, Ends
  <2>2. QED
    BY <1>1, <2>1, EndsStep, Zenon DEF Ends
<1>6. ASSUME NEW c \in CallRec, call' = sipsess_estab_handler(c), c.sess = "estab",
             c.state = call.state, c.estab = call.estab, c.announced = call.announced,
             c.media \/ c.got_offer \/ muted, c.negotiated => c.media \/ muted
      PROVE  Ordered'
  <2>1. /\ call'.sess = "estab" /\ call'.announced = call.announced
        /\ call'.state = "ESTABLISHED"
        /\ call'.negotiated \/ call'.estab > 0 => call'.media \/ muted
    <3>1. CASE c.state = "ESTABLISHED"
      BY <1>2, <1>6, <3>1 DEF sipsess_estab_handler
    <3>2. CASE c.state # "ESTABLISHED"
      BY <1>6, <3>2 DEF sipsess_estab_handler, call_timer_start, call_notify_sipfrag, CallRec
    <3>3. QED
      BY <3>1, <3>2, Zenon
  <2>2. call'.negotiated \/ call'.estab > 0 => call'.media \/ muted'
    BY <2>1, History, Zenon
  <2>3. (call.announced = 1 \/ unheard)'
    <3>1. call.announced = 1 \/ unheard
      BY <1>0, Zenon DEF Ordered, AnnouncedOrWaits
    <3>2. QED
      BY <2>1, <3>1, History, Zenon
  <2>4. QED
    BY <2>1, <2>2, <2>3, Zenon DEF Ordered, AnnouncedFirst, AnnouncedOrWaits
<1>7. CASE call' = sipsess_estab_handler(a)
  BY <1>3, <1>6, <1>7, Zenon
<1>8. CASE call' = sipsess_estab_handler(e) /\ (call.got_offer \/ call.negotiated)
  BY <1>0, <1>1, <1>6, <1>8, Zenon DEF Ordered
<1>9. QED
  BY <1>4, <1>5, <1>7, <1>8, Zenon

\* The media-NAT module reports, for the first time or again.
LEMMA MnatOrder ==
  ASSUME IInv, Ordered, MCNext, MnatReport
  PROVE  Ordered'
<1> DEFINE g == [call EXCEPT !.mnat_wait = FALSE]
           n == Announce(g)
<1>0. call \in CallRec /\ Alive /\ Mnat
  BY Zenon DEF IInv, TypeOK, MnatReport
<1>1. /\ g \in CallRec /\ ~g.mnat_wait /\ g.state = call.state /\ g.sess = call.sess
      /\ g.estab = call.estab /\ g.announced = call.announced
      /\ g.negotiated = call.negotiated /\ g.media = call.media
  BY <1>0, ZenonT(30) DEF CallRec
<1>2. PICK failed \in BOOLEAN, blocked \in BOOLEAN, rel \in BOOLEAN, ok \in BOOLEAN :
        call' = mnat_handler(call, failed, blocked, rel, ok)
  BY Choices, Zenon DEF MnatReport
<1>3. \/ call' = EvClosed(call)
      \/ call' = call_modify(call, ok)
      \/ call.mnat_wait /\ call.state = "OUTGOING" /\ call' = send_invite(g, ok)
      \/ call.mnat_wait /\ call.state = "INCOMING" /\ call' = EvIncoming(g, blocked, rel, ok)
      \/ call.state \notin {"OUTGOING", "INCOMING"} /\ call' = g
  BY <1>2, Zenon DEF mnat_handler
<1> HIDE DEF g
<1>4. CASE call' = EvClosed(call)
  BY <1>0, <1>4, ClosedOrder, EndsStep, Zenon
<1>5. CASE call' = call_modify(call, ok)
  BY <1>0, <1>5, HoldOrder, QuietStep, Zenon
<1>6. CASE call.state = "OUTGOING" /\ call' = send_invite(g, ok)
  <2>1. /\ call'.state = "OUTGOING" /\ call'.estab = call.estab
        /\ call'.announced = call.announced /\ call'.media = call.media
        /\ call'.negotiated = call.negotiated /\ call'.sess \in {call.sess, "inviting"}
    BY <1>1, <1>6, Zenon DEF send_invite, CallRec
  <2>2. call.announced = 1 \/ unheard
    BY <1>0, <1>6, Zenon DEF Ordered, AnnouncedOrWaits
  <2>3. call.sess # "estab" /\ (call.negotiated \/ call.estab > 0 => call.media \/ muted)
    BY <1>0, <1>6, Zenon DEF Ordered
  <2>4. call'.negotiated \/ call'.estab > 0 => call'.media \/ muted'
    BY <2>1, <2>3, History, Zenon
  <2>5. call'.negotiated => call'.sess \in {"inviting", "estab"}
    BY <1>0, <2>1, Zenon DEF Ordered
  <2>6. QED
    BY <2>1, <2>2, <2>3, <2>4, <2>5, History, Zenon DEF Ordered, AnnouncedFirst, AnnouncedOrWaits
<1>7. CASE /\ call.mnat_wait /\ call.state = "INCOMING"
           /\ call' = EvIncoming(g, blocked, rel, ok)
  <2>1. CASE blocked
    <3>1. Ends(g, call')
      BY <1>1, <1>7, <2>1, ClosedOrder, Zenon DEF EvIncoming
    <3>2. QED
      BY <1>1, <3>1, EndsStep, Zenon DEF Ends
  <2>2. CASE ~blocked
    <3>1. n \in CallRec
      BY <1>1, AnnounceType, Zenon
    <3>2. /\ ~n.mnat_wait /\ n.state = call.state /\ n.sess = call.sess
          /\ n.estab = call.estab /\ n.announced = call.announced + 1
          /\ n.negotiated = call.negotiated /\ n.media = call.media
      BY <1>1, <3>1, Zenon DEF Announce, CallRec
    <3>3. call' \in {n, call_progress(n, rel, ok)}
      BY <1>7, <2>2, Zenon DEF EvIncoming
    <3> HIDE DEF n
    <3>4. Quiet(n, n) /\ Quiet(n, call_progress(n, rel, ok))
      BY <3>1, ProgressOrder DEF Quiet
    <3>5. Quiet(n, call')
      BY <3>3, <3>4, Zenon
    <3>6. ~call'.mnat_wait
      BY <3>2, <3>5, Zenon DEF Quiet
    <3>7. call.announced = 0 \/ unheard
      BY <1>0, <1>7, Zenon DEF Ordered, AnnouncedOrWaits
    <3>8. (call.announced = 1 \/ unheard)'
      BY <3>2, <3>5, <3>7, History DEF Quiet
    <3>9. call'.negotiated \/ call'.estab > 0 => call'.media \/ muted'
      BY <1>0, <3>2, <3>5, History, Zenon DEF Quiet, Ordered
    <3>10. QED
      BY <1>0, <3>2, <3>5, <3>6, <3>8, <3>9, Zenon DEF Quiet, Ordered, AnnouncedFirst,
         AnnouncedOrWaits
  <2>3. QED
    BY <2>1, <2>2, Zenon
<1>8. CASE call.state \notin {"OUTGOING", "INCOMING"} /\ call' = g
  <2>1. call'.negotiated \/ call'.estab > 0 => call'.media \/ muted'
    BY <1>0, <1>1, <1>8, History, Zenon DEF Ordered
  <2>2. (call.announced = 1 \/ unheard)'
    BY <1>0, <1>1, <1>8, History, Zenon DEF Ordered, AnnouncedOrWaits
  <2>3. QED
    BY <1>0, <1>1, <1>8, <2>1, <2>2, Zenon DEF Ordered, AnnouncedFirst, AnnouncedOrWaits
<1>9. QED
  BY <1>3, <1>4, <1>5, <1>6, <1>7, <1>8, Zenon

\* The step that creates the call.
LEMMA FirstOrder ==
  ASSUME MCNext, sipsess_conn_handler \/ UserConnect
  PROVE  Ordered'
<1>1. CASE UserConnect
  <2>1. PICK xfer \in {FALSE, Refer}, ok \in Outcome :
          call' = call_connect([call_alloc(FALSE) EXCEPT !.xnot = xfer, !.xcall = xfer], ok)
    BY <1>1, ZenonT(30) DEF UserConnect
  <2>2. /\ call'.announced = 1 /\ call'.estab = 0 /\ ~call'.negotiated
        /\ call'.state \in {"OUTGOING", "FREED"} /\ call'.sess \in {"none", "inviting"}
    BY <2>1 DEF call_connect, call_alloc, Announce, call_destructor, send_invite, NoCall
  <2>3. QED
    BY <2>2 DEF Ordered, AnnouncedFirst, AnnouncedOrWaits
<1>2. CASE sipsess_conn_handler
  <2>1. PICK offer \in BOOLEAN, blocked \in BOOLEAN, rel \in Reliable, ok \in Outcome,
             denied \in {FALSE, DenyAutoAnswer}, missing \in {FALSE, RequireRel100} :
          LET c == check_rel100(call_rfc5373_autoanswer(call_alloc(offer), denied), missing)
          IN  \/ call' = call_accept(c, blocked, rel, ok)
              \/ call' = call_accept_refuse(c)
              \/ Faults /\ call' = call_destructor(c)
    BY <1>2, ZenonT(30) DEF sipsess_conn_handler
  <2>11. /\ rel \in BOOLEAN /\ ok \in BOOLEAN
         /\ denied \in BOOLEAN /\ missing \in BOOLEAN
    BY Choices, ZenonT(30)
  <2> DEFINE c == check_rel100(call_rfc5373_autoanswer(call_alloc(offer), denied), missing)
             s == IF rel THEN "nosdp" ELSE "none"
             a == [c EXCEPT !.outgoing = FALSE, !.sess = "invited", !.rel1xx = s,
                            !.state = "INCOMING", !.tmr_inv = LocalTimeout]
             n == Announce(a)
  <2>2. c \in CallRec /\ ~c.answered /\ c.estab = 0
    BY <2>11, NewCallOK, Zenon
  <2>3. c.announced = 0 /\ ~c.negotiated /\ c.mnat_wait
    BY ZenonT(30) DEF check_rel100, call_rfc5373_autoanswer, call_alloc, call_hangupf,
           call_stream_stop, NoCall
  <2> HIDE DEF c
  <2>4. s \in Rel1xxStates
    BY Zenon DEF Rel1xxStates
  <2> HIDE DEF s
  <2>5. /\ a \in CallRec /\ a.state = "INCOMING" /\ a.sess = "invited" /\ a.estab = 0
        /\ a.announced = 0 /\ ~a.negotiated /\ a.mnat_wait /\ ~a.answered
    <3>1. a \in CallRec
      BY <2>2, <2>4, ConfigAssumption, ZenonT(30) DEF CallRec, SessStates, CallStates
    <3>2. QED
      BY <2>2, <2>3, <3>1 DEF CallRec
  <2>6. \/ call' = EvClosed(c) \/ call' = call_destructor(c)
        \/ Mnat /\ call' = a
        \/ ~Mnat /\ call' = EvIncoming(a, blocked, rel, ok)
    BY <2>1, Zenon DEF call_accept, call_accept_refuse, c, s
  <2> HIDE DEF a
  <2>7. CASE call' = EvClosed(c) \/ call' = call_destructor(c)
    <3>1. call'.state = "FREED" /\ call'.estab = 0
      BY <2>2, <2>7, ZenonT(30) DEF EvClosed, call_destructor, NoCall, CallRec
    <3>2. QED
      BY <3>1 DEF Ordered, AnnouncedFirst, Alive, Live, NoObject
  <2>8. CASE Mnat /\ call' = a
    BY <2>5, <2>8 DEF Ordered, AnnouncedFirst, AnnouncedOrWaits
  <2>9. CASE ~Mnat /\ call' = EvIncoming(a, blocked, rel, ok)
    <3>1. CASE blocked
      <4>1. Ends(a, call')
        BY <2>5, <2>9, <3>1, ClosedOrder, Zenon DEF EvIncoming
      <4>2. QED
        BY <2>5, <4>1 DEF Ends, Ordered, AnnouncedFirst, Alive, Live, NoObject
    <3>2. CASE ~blocked
      <4>1. n \in CallRec
        BY <2>5, AnnounceType, Zenon
      <4>2. /\ n.state = "INCOMING" /\ n.sess = "invited" /\ n.estab = 0
            /\ n.announced = 1 /\ ~n.negotiated
        BY <2>5, <4>1 DEF Announce, CallRec
      <4>3. call' \in {n, call_progress(n, rel, ok)}
        BY <2>9, <3>2, Zenon DEF EvIncoming
      <4> HIDE DEF n
      <4>4. Quiet(n, n) /\ Quiet(n, call_progress(n, rel, ok))
        BY <2>11, <4>1, ProgressOrder DEF Quiet
      <4>5. Quiet(n, call')
        BY <4>3, <4>4, Zenon
      <4>6. QED
        BY <2>9, <4>2, <4>5 DEF Quiet, Ordered, AnnouncedFirst, AnnouncedOrWaits
    <3>3. QED
      BY <3>1, <3>2, Zenon
  <2>10. QED
    BY <2>6, <2>7, <2>8, <2>9, Zenon
<1>3. QED
  BY <1>1, <1>2, Zenon

-----------------------------------------------------------------------------
(* The theorems *)

LEMMA OrderedStep ==
  ASSUME IInv, Ordered, [MCNext]_<<call, muted, unheard>>
  PROVE  Ordered'
<1>1. CASE UNCHANGED <<call, muted, unheard>>
  BY <1>1, Zenon DEF Ordered, AnnouncedFirst, AnnouncedOrWaits, Alive
<1>2. CASE MCNext
  <2>1. Next
    BY <1>2, Zenon DEF MCNext
  <2>2. CASE call.state = "NONE"
    BY <1>2, <2>1, <2>2, FirstStep, FirstOrder, Zenon
  <2>3. CASE call.state # "NONE"
    <3>1. Alive /\ ~sipsess_conn_handler /\ ~UserConnect
      BY <2>1, <2>3, LiveStep, ZenonT(30) DEF Alive, sipsess_conn_handler, UserConnect
    <3>2. CASE \/ RecvPrack \/ DelayedAnswer \/ UserAnswer \/ UserProgress
               \/ UserAutoAnswer
      BY <1>2, <3>1, <3>2, AnswerAction, QuietStep, AnswersStep, Zenon
    <3>3. CASE \/ RecvOffer \/ EstablishedMdir \/ UserHold \/ UserModify
               \/ UserTransfer \/ RecvNotifyEnd \/ RecvSubEnd
      BY <1>2, <3>1, <3>3, MediaAction, QuietStep, Zenon
    <3>4. CASE Recv1xx \/ RecvModifyAnswer
      BY <1>2, <3>1, <3>4, ResponseAction, MovesStep, Zenon
    <3>5. CASE \/ SessClose \/ InviteTimeout \/ StreamError \/ MencError
               \/ UserHangup \/ RecvReplaces
      BY <1>2, <3>5, EndAction, EndsStep, Zenon
    <3>6. CASE RecvRefer \/ XferCallClosed \/ RecvSipfrag
      BY <1>2, <3>1, <3>6, TransferAction, QuietStep, HandsStep, EndsStep, Zenon
    <3>7. CASE RecvAck \/ Recv2xx
      BY <1>2, <3>7, EstabOrder, Zenon
    <3>8. CASE MnatReport
      BY <1>2, <3>8, MnatOrder, Zenon
    <3>9. QED
      BY <2>1, <3>1, <3>2, <3>3, <3>4, <3>5, <3>6, <3>7, <3>8, Zenon DEF Next
  <2>4. QED
    BY <2>2, <2>3, Zenon
<1>3. QED
  BY <1>1, <1>2, Zenon

\* Ordered is an invariant of the call with its history.
THEOREM OrderInvariance == MCSpec => []Ordered
<1>1. MCInit => Ordered
  BY DEF MCInit, Init, NoCall, Ordered, AnnouncedFirst, Alive, Live, NoObject
<1>2. IInv /\ Ordered /\ [MCNext]_<<call, muted, unheard>> => Ordered'
  BY OrderedStep, Zenon
<1>3. [MCNext]_<<call, muted, unheard>> => [Next]_call
  BY ZenonT(30) DEF MCNext
<1>4. MCInit => Init
  BY Zenon DEF MCInit
<1>5. QED
  BY <1>1, <1>2, <1>3, <1>4, Invariance, PTL DEF MCSpec, Spec

\* The application hears of a call (BEVENT_CALL_INCOMING or OUTGOING) before it
\* hears that it is established, for every configuration of the account, unless
\* the call was answered before media-NAT had reported.
THEOREM AnnouncedBeforeEstab == MCSpec => []AnnouncedFirst
<1>1. Ordered => AnnouncedFirst
  BY Zenon DEF Ordered
<1>2. QED
  BY <1>1, OrderInvariance, PTL

\* An established call has its streams started, whatever the order of responses,
\* offers, answers and media-NAT reports was; but for a 1xx without SDP after the
\* answer of a reliable one.
THEOREM EstablishedHasMedia == MCSpec => []MediaWhenEstablished
<1>1. Ordered => MediaWhenEstablished
  BY Zenon DEF Ordered, MediaWhenEstablished
<1>2. QED
  BY <1>1, OrderInvariance, PTL
=============================================================================
