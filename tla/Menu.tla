-------------------------------- MODULE Menu --------------------------------
(***************************************************************************)
(* The calls of all user agents under the application of modules/menu:     *)
(* which call is the current one, which calls are on hold, the ring tones, *)
(* the automatic answer, the redialling and the attended transfer.  The    *)
(* menu is called back by bevent_emit() in the middle of the handlers of   *)
(* the call layer, before the call is freed; a callback may close another  *)
(* call, which calls the menu again.                                       *)
(***************************************************************************)
EXTENDS UaCalls, FiniteSets

CONSTANTS
  AnswerModeAuto,   \* the accounts' answermode is "auto"
  Asks,             \* the automatic answers that calls ask for
  RedialAttempts,   \* config redial_attempts
  Xfer,             \* the user makes attended transfers
  Faults,           \* sipsess_connect() may fail
  Delete            \* the user deletes user agents

ASSUME MenuAssumption ==
  /\ AnswerModeAuto \in BOOLEAN /\ Asks \subseteq {"no", "short", "long"}
  /\ RedialAttempts \in Nat
  /\ Xfer \in BOOLEAN /\ Faults \in BOOLEAN /\ Delete \in BOOLEAN

VARIABLES
  s,        \* the user agents with their calls
  menu,     \* struct menu
  redials   \* redials since the last call was established

vars == <<s, menu, redials>>

\* struct menu; play is the tone that is repeated for ever.
Menu == [curcall : Id \cup {NULL}, xfer_call : Id \cup {NULL},
         xfer_targ : Id \cup {NULL}, current_attempts : Nat,
         tmr_redial : BOOLEAN, redial_aor : Ua, tmr_answ : BOOLEAN,
         outcnt : Nat, play : {"none", "ring", "ringback"}, ringback : BOOLEAN,
         tmr_play : BOOLEAN]

NoMenu == [curcall |-> NULL, xfer_call |-> NULL, xfer_targ |-> NULL,
           current_attempts |-> 0, tmr_redial |-> FALSE, redial_aor |-> 1,
           tmr_answ |-> FALSE, outcnt |-> 0, play |-> "none",
           ringback |-> FALSE, tmr_play |-> FALSE]

Init == s = NoCalls /\ menu = NoMenu /\ redials = 0

\* The operators below are handlers: they change the calls and the menu together.
On(t, m) == [s |-> t, m |-> m]

-----------------------------------------------------------------------------
(* The current call *)

menu_selcall(x, i) ==
  [x EXCEPT !.m.curcall = i, !.s = call_set_current(x.s, i)]

menu_callcur(x) == First(SelectSeq(FilterCalls(x.s), LAMBDA i : i = x.m.curcall))

\* Mutant: the states of calls that are not answered are forgotten.
SelOrder_answered == <<"ESTABLISHED", "EARLY", "RINGING">>

SelOrder == <<"ESTABLISHED", "EARLY", "RINGING", "OUTGOING", "INCOMING">>

\* The call whose state comes first in the order.
menu_sel_other(x, exclude) ==
  LET Of(st) == First(SelectSeq(FilterCalls(x.s),
                      LAMBDA i : i # exclude /\ x.s.c[i].state = st))
      found == SelectSeq([k \in DOMAIN SelOrder |-> Of(SelOrder[k])],
                         LAMBDA i : i # NULL)
  IN  menu_selcall(x, First(found))

ActiveOther(x, exclude) ==
  \E i \in Range(AllCalls(x.s)) \ {exclude} : Active(x.s, i)

-----------------------------------------------------------------------------
(* Tones *)

menu_stop_play(x) ==
  [x EXCEPT !.m.play = "none", !.m.ringback = FALSE, !.m.tmr_play = FALSE]

\* A tone that is played a few times (call waiting, busy) is "none".
menu_play(x, tone) == [menu_stop_play(x) EXCEPT !.m.play = tone]

play_incoming(x, i) ==
  IF ActiveOther(x, i) THEN menu_play(x, "none")
  ELSE IF x.m.curcall = i THEN menu_play(x, "ring")
  ELSE x

play_ringback(x) == [menu_play(x, "ringback") EXCEPT !.m.ringback = TRUE]

\* `ring`: the media does not let us hear early audio of the peer.
check_ringback(x, ring) ==
  IF ring /\ ~x.m.ringback /\ ~ActiveOther(x, NULL) THEN play_ringback(x)
  ELSE IF ring THEN x ELSE menu_stop_play(x)

\* check_delayed_answer() and start_autoanswer(), or else the ring tone: the timer
\* of the menu is started if the call is the current one.
AnswerOrRing(x, i) ==
  LET d == IF i = x.m.curcall THEN x.s.c[i].asked ELSE "no"
      y == IF d = "short" THEN x ELSE play_incoming(x, i)
  IN  [y EXCEPT !.m.tmr_answ = @ \/ d # "no"]

-----------------------------------------------------------------------------
(* The events of a call *)

\* Bound: the attempts are only compared with redial_attempts.
AttemptsMax == RedialAttempts + 1

\* BEVENT_CALL_CLOSED: once redialling has begun every closed call continues it.
Redial(x, i) ==
  IF RedialAttempts > 0 /\ (\/ x.m.current_attempts > 0
                            \/ x.s.c[i].outgoing /\ x.s.c[i].scode = 701)
  THEN [x EXCEPT !.m.current_attempts = IF @ < AttemptsMax THEN @ + 1 ELSE @,
                 !.m.redial_aor = x.s.c[i].ua, !.m.tmr_redial = TRUE]
  ELSE x

\* Mutant: only the transferred call is looked at.
XferClosed_call(x, i) ==
  IF i = x.m.xfer_call
  THEN [x EXCEPT !.s = call_hold(x.s, x.m.xfer_call, FALSE),
                 !.m.xfer_call = NULL, !.m.xfer_targ = NULL]
  ELSE x

XferClosed(x, i) ==
  IF i \in {x.m.xfer_call, x.m.xfer_targ}
  THEN [x EXCEPT !.s = call_hold(x.s, x.m.xfer_call, FALSE),
                 !.m.xfer_call = NULL, !.m.xfer_targ = NULL]
  ELSE x

\* Mutant: the tone is not stopped with the last call.
menu_play_closed_on(x) == x

menu_play_closed(x) == menu_play(menu_stop_play(x), "none")

CurcallClosed(x, i) ==
  LET y == [x EXCEPT !.m.curcall = NULL]
  IN  IF x.m.curcall = i
      THEN IF uag_call_count(x.s) = 1 THEN menu_play_closed(y)
           ELSE [menu_sel_other(y, i) EXCEPT !.m.tmr_play = TRUE]
      ELSE [x EXCEPT !.m.tmr_play = @ \/ x.s.c[i].state = "ESTABLISHED"]

EvClosed(x, i) ==
  LET y == CurcallClosed(XferClosed(Redial(x, i), i), i)
  IN  [y EXCEPT !.m.outcnt = IF x.s.c[i].outgoing THEN @ - 1 ELSE @]

\* The event, then the call is freed.
Closed(x, i) == LET y == EvClosed(x, i) IN On(mem_deref(y.s, i), y.m)

call_hangup(x, i) == [x EXCEPT !.s.c[i].state = "TERMINATED"]

ua_hangup(x, i) == Closed(call_hangup(x, i), i)

\* menu_autoanwser_call() refuses while another call is established ...
MayAutoAnswer(x, i) ==
  ~HoldOtherCalls \/ \A j \in Range(AllCalls(x.s)) \ {i} :
                       x.s.c[j].state # "ESTABLISHED"

\* ... or drops the first outgoing call and has the call answered.
menu_autoanwser_call(x, i) ==
  LET o == First(SelectSeq(FilterCalls(x.s), LAMBDA j :
             j # i /\ x.s.c[j].state \in {"OUTGOING", "RINGING", "EARLY"}))
      y == IF o = NULL THEN x ELSE ua_hangup(x, o)
  IN  IF MayAutoAnswer(x, i) THEN [y EXCEPT !.s.c[i].tmr_answ = TRUE] ELSE x

EvIncoming(x, i) ==
  IF AnswerModeAuto /\ MayAutoAnswer(x, i) THEN menu_autoanwser_call(x, i)
  ELSE AnswerOrRing(
         menu_selcall(x, IF x.m.curcall = NULL THEN i ELSE x.m.curcall), i)

EvOutgoing(x) == [x EXCEPT !.m.outcnt = @ + 1]

EvRinging(x, i) ==
  LET y == menu_selcall(x, i)
  IN  IF y.m.ringback \/ ActiveOther(y, i) THEN y ELSE play_ringback(y)

EvProgress(x, i) == [menu_selcall(x, i) EXCEPT !.m.tmr_play = TRUE]

redial_reset(x) ==
  [x EXCEPT !.m.tmr_redial = FALSE, !.m.current_attempts = 0]

EvEstablished(x, i) ==
  LET y == redial_reset(menu_stop_play(menu_selcall(x, i)))
  IN  On(uag_hold_others(y.s, i), y.m)

-----------------------------------------------------------------------------
(* The call layer.  Every handler runs to completion in the event loop. *)

Becomes(x) == s' = x.s /\ menu' = x.m
KeepCount == UNCHANGED redials
Dialling == {"OUTGOING", "RINGING", "EARLY"}

\* An INVITE of the peer: refused at the limit or when no line is free, closed
\* unannounced if the contact is blocked.
sipsess_conn_handler ==
  /\ MaxCalls = 0 \/ uag_call_count(s) + 1 <= MaxCalls
  /\ \E u \in Ua, i \in Fresh(s), asked \in Asks, blocked \in BOOLEAN :
       LET rec == [NoUaCall EXCEPT !.state = "INCOMING", !.asked = asked]
           x == On(call_alloc(s, i, u, rec), menu)
       IN  /\ s.ual[u] /\ assign_linenum(s, u) # 0
           /\ Becomes(IF blocked THEN Closed(x, i) ELSE EvIncoming(x, i))
  /\ KeepCount

\* ua_connect_dir(): the call is announced, its SDP offer makes it the current
\* call, the INVITE is sent; after an error the call is dropped.
ua_connect(x, u, i, ok) ==
  LET rec == [NoUaCall EXCEPT !.state = "OUTGOING", !.outgoing = TRUE]
      a == menu_selcall(EvOutgoing(On(call_alloc(x.s, i, u, rec), x.m)), i)
  IN  IF ~x.s.ual[u] \/ assign_linenum(x.s, u) = 0 THEN x
      ELSE IF ok THEN a ELSE On(mem_deref(a.s, i), a.m)

\* Bound: outcnt is at most 2 * NCalls.
Outcome == IF Faults /\ menu.outcnt < NCalls THEN BOOLEAN ELSE {TRUE}

\* 180 and 183, with SDP (`media`) or without it.
sipsess_progr_handler ==
  /\ \E i \in Id, st \in {"RINGING", "EARLY"}, media \in BOOLEAN :
       LET x == On([s EXCEPT !.c[i].state = st], menu)
       IN  /\ s.c[i].state \in Dialling
           /\ Becomes(IF media THEN EvProgress(x, i) ELSE EvRinging(x, i))
  /\ KeepCount

\* The 200 to our INVITE, or the ACK to our 200.
sipsess_estab_handler ==
  /\ \E i \in Id :
       /\ \/ s.c[i].state \in Dialling
          \/ s.c[i].state = "INCOMING" /\ s.c[i].answered
       /\ Becomes(EvEstablished(On([s EXCEPT !.c[i].state = "ESTABLISHED"], menu), i))
  /\ redials' = 0

\* The answer to our re-INVITE: BEVENT_CALL_REMOTE_SDP.
sipsess_answer_handler ==
  /\ \E i \in Id :
       /\ s.c[i].modify /\ s.c[i].state = "ESTABLISHED"
       /\ Becomes(menu_selcall(On([s EXCEPT !.c[i].modify = FALSE], menu), i))
  /\ KeepCount

\* CANCEL, BYE or an error response.
sipsess_close_handler ==
  /\ \E i \in Id :
       /\ Live(s, i)
       /\ Becomes(Closed(On([s EXCEPT !.c[i].scode = 487], menu), i))
  /\ KeepCount

\* No RTP for some time.
stream_error_handler ==
  /\ \E i \in Id :
       /\ s.c[i].state = "ESTABLISHED"
       /\ Becomes(Closed(call_hangup(On([s EXCEPT !.c[i].scode = 701], menu), i), i))
  /\ KeepCount

call_answer(t, i) ==
  [t EXCEPT !.c[i].answered = @ \/ t.c[i].state = "INCOMING",
            !.c[i].tmr_answ = FALSE]

delayed_answer_handler ==
  /\ \E i \in Id : s.c[i].tmr_answ /\ s' = call_answer(s, i)
  /\ UNCHANGED <<menu, redials>>

-----------------------------------------------------------------------------
(* Timers of the menu *)

\* Mutant: one redial too many.
GiveUp_late == menu.current_attempts > RedialAttempts + 1

GiveUp == menu.current_attempts > RedialAttempts

redial_handler ==
  /\ menu.tmr_redial
  /\ LET m == [menu EXCEPT !.tmr_redial = FALSE]
     IN  IF GiveUp THEN Becomes(On(s, m)) /\ KeepCount
         ELSE \E ok \in Outcome, i \in Fresh(s) :
                /\ Becomes(ua_connect(On(s, m), m.redial_aor, i, ok))
                /\ redials' = redials + 1

\* The timer does not know for which call it was started.
auto_answer_handler ==
  /\ menu.tmr_answ
  /\ LET x == On(s, [menu EXCEPT !.tmr_answ = FALSE])
         i == menu_callcur(x)
     IN  Becomes(IF i # NULL /\ s.c[i].state = "INCOMING"
                 THEN menu_autoanwser_call(x, i) ELSE x)
  /\ KeepCount

delayed_play ==
  /\ menu.tmr_play
  /\ \E ring \in BOOLEAN :
       LET x == On(s, [menu EXCEPT !.tmr_play = FALSE])
           i == menu_callcur(x)
           st == IF i = NULL THEN "NONE" ELSE s.c[i].state
       IN  Becomes(CASE st = "INCOMING" -> AnswerOrRing(x, i)
                     [] st \in {"RINGING", "EARLY"} -> check_ringback(x, ring)
                     [] OTHER -> menu_stop_play(x))
  /\ KeepCount

-----------------------------------------------------------------------------
(* Commands *)

dial_handler ==
  /\ \E u \in Ua, i \in Fresh(s), ok \in Outcome :
       s.ual[u] /\ Becomes(ua_connect(On(s, menu), u, i, ok))
  /\ KeepCount

\* The tone stops, the others are put on hold, the call is answered.
cmd_answer ==
  /\ \E i \in Id : Live(s, i) /\ s' = call_answer(uag_hold_others(s, i), i)
  /\ menu' = [menu EXCEPT !.play = "none"]
  /\ KeepCount

cmd_hangup ==
  /\ \E i \in Id : Live(s, i) /\ Becomes(ua_hangup(On(s, menu), i))
  /\ KeepCount

stop_ringing ==
  /\ menu' = [menu EXCEPT !.play = "none"]
  /\ UNCHANGED <<s, redials>>

cmd_call_hold ==
  /\ \E i \in Id : Live(s, i) /\ s' = call_hold(s, i, TRUE)
  /\ UNCHANGED <<menu, redials>>

cmd_call_resume ==
  /\ \E i \in Id : Live(s, i) /\ s' = uag_hold_resume(s, i)
  /\ UNCHANGED <<menu, redials>>

\* A call is selected by its line or its call-id.
cmd_find_call ==
  /\ \E i \in Id : Live(s, i) /\ Becomes(menu_selcall(On(s, menu), i))
  /\ KeepCount

\* The current call of a user agent, if its peer knows Replaces, is put on hold
\* and the target is called.
attended_xfer ==
  /\ Xfer
  /\ \E u \in Ua, i \in Fresh(s), ok \in Outcome, replaces \in BOOLEAN :
       LET c == IF s.calls[u] = <<>> THEN NULL ELSE Last(s.calls[u])
           m == [menu EXCEPT !.xfer_call = c]
           y == ua_connect(On(call_hold(s, c, TRUE), m), u, i, ok)
       IN  /\ s.ual[u]
           /\ Becomes(IF c = NULL \/ ~replaces THEN On(s, m)
                      ELSE [y EXCEPT !.m.xfer_targ = IF Live(y.s, i) THEN i ELSE @])
  /\ KeepCount

ForgetXfer == menu' = [menu EXCEPT !.xfer_call = NULL, !.xfer_targ = NULL]

exec_att_xfer ==
  /\ menu.xfer_call # NULL
  /\ \E u \in Ua :
       /\ s.ual[u] /\ s.calls[u] # <<>>
       /\ s' = call_hold(s, Last(s.calls[u]), TRUE)
  /\ ForgetXfer /\ KeepCount

abort_att_xfer == Xfer /\ ForgetXfer /\ UNCHANGED s /\ KeepCount

\* ua_destructor(): the user agent leaves uag.ual first, then the menu is told of
\* each of its calls, then they are freed.
ua_destructor(x, u) ==
  LET l == x.s.calls[u]
      y == FoldLeft(EvClosed, [x EXCEPT !.s.ual[u] = FALSE], l)
  IN  On(FoldLeft(mem_deref, y.s, l), y.m)

cmd_ua_delete ==
  /\ Delete
  /\ \E u \in Ua : s.ual[u] /\ Becomes(ua_destructor(On(s, menu), u))
  /\ KeepCount

Next ==
  \/ sipsess_conn_handler \/ sipsess_progr_handler \/ sipsess_estab_handler
  \/ sipsess_answer_handler \/ sipsess_close_handler \/ stream_error_handler
  \/ delayed_answer_handler
  \/ redial_handler \/ auto_answer_handler \/ delayed_play
  \/ dial_handler \/ cmd_answer \/ cmd_hangup \/ stop_ringing
  \/ cmd_call_hold \/ cmd_call_resume \/ cmd_find_call
  \/ attended_xfer \/ exec_att_xfer \/ abort_att_xfer \/ cmd_ua_delete

Spec == Init /\ [][Next]_vars

-----------------------------------------------------------------------------
(* Properties *)

Calls == Range(AllCalls(s))

\* The calls and struct menu keep their types; a call is in the list of its user
\* agent exactly while it lives.
TypeOK ==
  /\ s.c \in [Id -> UaCallRec] /\ menu \in Menu /\ redials \in Nat
  /\ \A u \in Ua : Range(s.calls[u]) = {i \in Id : Live(s, i) /\ s.c[i].ua = u}

\* Two calls of a user agent never have the same line number (call_find_linenum()
\* would find the wrong one), in whatever order calls come and go.
LinesDistinct ==
  \A i, j \in Calls :
    i # j /\ s.c[i].ua = s.c[j].ua => s.c[i].linenum # s.c[j].linenum

\* With call_hold_other_calls at most one call is active, whichever calls are
\* answered, established, held and resumed at the same time.
OneActive ==
  HoldOtherCalls => \A i, j \in Calls : Active(s, i) /\ Active(s, j) => i = j

\* The current call of the menu is the tail of the list of its user agent:
\* ua_call() and menu_callcur() agree, in whatever order calls come and go.
CurcallIsCurrent ==
  menu.curcall # NULL =>
    menu.curcall \in Calls /\ menu.curcall = Last(s.calls[s.c[menu.curcall].ua])

\* The current call has not been freed, also when the menu itself closes calls or
\* an outgoing call fails at once: menu_selcall() dereferences it.
CurcallLive == menu.curcall # NULL => Live(s, menu.curcall)

\* The calls of a pending attended transfer have not been freed: call_hold() of
\* the closed event and exec_att_xfer() dereference them.
XferLive ==
  \A i \in {menu.xfer_call, menu.xfer_targ} \ {NULL} : i \in Calls

\* While there are calls one of them is the current one: closing the current one
\* selects another.
SomeCurcall == Calls # {} => menu.curcall # NULL

\* The counter that limits early media is the number of outgoing calls.
OutcntExact == menu.outcnt = Cardinality({i \in Calls : s.c[i].outgoing})

\* No tone outlives the last call.
ToneHasCall == menu.play # "none" => Calls # {}

\* No more than redial_attempts redials in a row.
RedialBounded == redials <= RedialAttempts

\* The lists of calls are those of the calls that live, and two calls of a user
\* agent never have the same line.
CallLists == TypeOK /\ LinesDistinct

\* While there are calls one of them is the current call, and it is the one that
\* ua_call() of its user agent returns, in whatever order calls come and go.
CurrentCall == CurcallIsCurrent /\ SomeCurcall

\* What the menu keeps for its calls goes with them: the count of the outgoing
\* ones and the tone.
GoesWithCalls == OutcntExact /\ ToneHasCall

\* The menu keeps no pointer to a call that was freed, neither as the current
\* call nor for a transfer, also when it ends calls inside of its own event
\* handler or a user agent is deleted with its calls.
NoStaleCall == CurcallLive /\ XferLive
=============================================================================
