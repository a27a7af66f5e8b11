------------------------------- MODULE MCMenu -------------------------------
(***************************************************************************)
(* Two instances of the menu in one run: three calls of one user agent, or *)
(* two calls of two user agents that answer automatically and may be       *)
(* deleted.  Transfers and redialling are a run of Menu itself.            *)
(***************************************************************************)
EXTENDS Naturals

VARIABLES s, menu, redials,
          several   \* the behaviour is one with several user agents

Three == INSTANCE Menu WITH
  NUa <- 1, NCalls <- 3, LineMax <- 4, MaxCalls <- 0, HoldOtherCalls <- TRUE,
  AnswerModeAuto <- FALSE, Asks <- {"no"}, RedialAttempts <- 0,
  Xfer <- FALSE, Faults <- FALSE, Delete <- FALSE

Several == INSTANCE Menu WITH
  NUa <- 2, NCalls <- 2, LineMax <- 3, MaxCalls <- 2, HoldOtherCalls <- TRUE,
  AnswerModeAuto <- TRUE, Asks <- {"no"}, RedialAttempts <- 0,
  Xfer <- FALSE, Faults <- FALSE, Delete <- TRUE

Init ==
  \/ several = FALSE /\ Three!Init
  \/ several = TRUE /\ Several!Init

Next ==
  /\ \/ ~several /\ Three!Next
     \/ several /\ Several!Next
  /\ UNCHANGED several

Spec == Init /\ [][Next]_<<s, menu, redials, several>>

-----------------------------------------------------------------------------
(* The properties of Menu, of the instances they are stated for *)

\* Two calls of a user agent never have the same line, whatever the order in which
\* assign_linenum() gives lines and the ends of calls free them.
CallLists == IF several THEN Several!CallLists ELSE Three!CallLists

\* uag_hold_others() and uag_hold_resume() leave at most one call that is
\* established and not on hold.
OneActive == ~several => Three!OneActive

\* While there are calls one of them is the current call, menu.curcall, and the last
\* of the list of its user agent: menu_selcall() sorts the list, menu_sel_other()
\* finds a successor of every call that is closed.  With several user agents it is
\* at least no call that was freed, when menu_autoanwser_call() hangs up another
\* call inside of the event of a call and ua_destructor() takes all calls along.
CurrentCall == IF several THEN Several!NoStaleCall ELSE Three!CurrentCall

\* menu.outcnt, raised by one event and lowered by another, counts the outgoing
\* calls, and no tone is played once the last call is gone.
GoesWithCalls == ~several => Three!GoesWithCalls
=============================================================================
