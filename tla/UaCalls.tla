------------------------------- MODULE UaCalls -------------------------------
(***************************************************************************)
(* The calls of all user agents: the lists `ua->calls` of src/ua.c, the    *)
(* searches and the hold operations of src/uag.c that walk them, and the   *)
(* line numbers.  A call is a number, 0 is NULL.  As in CallOps a C        *)
(* function is an operator from the state before to the state after it.    *)
(* Of struct call the fields that these functions and the menu read are    *)
(* kept; the life of a call in detail is the module Call.                  *)
(***************************************************************************)
EXTENDS Integers, Sequences, SequencesExt

CONSTANTS
  NUa,              \* number of user agents, in the order of uag.ual
  NCalls,           \* bound: how many calls there are at a time
  LineMax,          \* CALL_LINENUM_MAX
  MaxCalls,         \* config call.max_calls, 0 for no limit
  HoldOtherCalls    \* config call.hold_other_calls

ASSUME UaCallsAssumption ==
  /\ NUa \in Nat \ {0} /\ NCalls \in Nat \ {0} /\ LineMax \in Nat \ {0, 1}
  /\ MaxCalls \in Nat /\ HoldOtherCalls \in BOOLEAN

Ua == 1 .. NUa
Id == 1 .. NCalls
NULL == 0

\* asked: the delay after which the call or its account wants an automatic
\* answer.  answered: our 200 is on its way.  tmr_answ: the delayed answer is
\* due.  modify: a re-INVITE waits for its answer.
UaCallRec ==
  [ua : Ua, linenum : 0 .. LineMax - 1, outgoing : BOOLEAN,
   asked : {"no", "short", "long"},
   state : {"NONE", "INCOMING", "OUTGOING", "RINGING", "EARLY", "ESTABLISHED",
            "TERMINATED"},
   answered : BOOLEAN, tmr_answ : BOOLEAN, on_hold : BOOLEAN, modify : BOOLEAN,
   scode : {0, 487, 701}]

NoUaCall ==
  [ua |-> 1, linenum |-> 0, outgoing |-> FALSE, asked |-> "no", state |-> "NONE",
   answered |-> FALSE, tmr_answ |-> FALSE, on_hold |-> FALSE, modify |-> FALSE,
   scode |-> 0]

NoCalls == [ual |-> [u \in Ua |-> TRUE], calls |-> [u \in Ua |-> <<>>],
            c |-> [i \in Id |-> NoUaCall]]

-----------------------------------------------------------------------------
(* The lists *)

\* The calls of the user agents that are linked in uag.ual, from the first user
\* agent to the last and within each one from the head.
AllCalls(s) == FlattenSeq([u \in Ua |-> IF s.ual[u] THEN s.calls[u] ELSE <<>>])

\* The same with the calls of each user agent from the tail.
FilterCalls(s) ==
  FlattenSeq([u \in Ua |-> IF s.ual[u] THEN Reverse(s.calls[u]) ELSE <<>>])

uag_call_count(s) == Len(AllCalls(s))

First(l) == IF l = <<>> THEN NULL ELSE l[1]

Unlinked(l, i) == SelectSeq(l, LAMBDA j : j # i)

\* The tail of its list is the current call of a user agent.
call_set_current(s, i) ==
  IF i = NULL THEN s
  ELSE [s EXCEPT !.calls[s.c[i].ua] = Append(Unlinked(@, i), i)]

\* Mutant: the number of calls plus one.
assign_linenum_count(s, u) == Len(s.calls[u]) + 1

\* The lowest line number that no call of the user agent has, or 0.
assign_linenum(s, u) ==
  LET free == {n \in 1 .. LineMax - 1 :
                 \A k \in 1 .. Len(s.calls[u]) : s.c[s.calls[u][k]].linenum # n}
  IN  IF free = {} THEN 0 ELSE CHOOSE n \in free : \A m \in free : n <= m

Live(s, i) == s.c[i].state # "NONE"

\* The memory of a new call: which of the free ones makes no difference.
Fresh(s) == {i \in Id : ~Live(s, i) /\ \A j \in 1 .. i - 1 : Live(s, j)}

call_alloc(s, i, u, rec) ==
  [s EXCEPT !.c[i] = [rec EXCEPT !.ua = u, !.linenum = assign_linenum(s, u)],
            !.calls[u] = Append(@, i)]

\* mem_deref(call): the destructor takes the call off its list.
mem_deref(s, i) ==
  [s EXCEPT !.c[i] = NoUaCall, !.calls[s.c[i].ua] = Unlinked(@, i)]

-----------------------------------------------------------------------------
(* Hold *)

Active(s, i) == s.c[i].state = "ESTABLISHED" /\ ~s.c[i].on_hold

\* call_hold() and call_modify(): a call that is being torn down has no session
\* any more; a re-INVITE goes out on an established one.
call_hold(s, i, hold) ==
  IF \/ i = NULL
     \/ s.c[i].state \in {"TERMINATED", "NONE"}
     \/ s.c[i].on_hold = hold
  THEN s
  ELSE [s EXCEPT !.c[i] = [@ EXCEPT !.on_hold = hold,
                                    !.modify = s.c[i].state = "ESTABLISHED"]]

\* The given call if it is on hold, else any one that is, is resumed, and the
\* first active one is put on hold for it.
uag_hold_resume(s, i) ==
  LET toresume == IF i # NULL /\ s.c[i].on_hold THEN i
                  ELSE First(SelectSeq(FilterCalls(s), LAMBDA j : s.c[j].on_hold))
      acall == First(SelectSeq(AllCalls(s), LAMBDA j : Active(s, j)))
  IN  IF toresume = NULL THEN s
      ELSE call_hold(call_hold(s, acall, TRUE), toresume, FALSE)

\* Mutant: the configuration is read the wrong way round.
uag_hold_others_off(s, i) == s

\* The first active call other than the given one is put on hold.
uag_hold_others(s, i) ==
  IF ~HoldOtherCalls THEN s
  ELSE LET others == SelectSeq(AllCalls(s), LAMBDA j : j # i /\ Active(s, j))
       IN  call_hold(s, First(others), TRUE)
=============================================================================
