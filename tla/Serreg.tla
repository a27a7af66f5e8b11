------------------------------- MODULE Serreg -------------------------------
(***************************************************************************)
(* Serial registration (modules/serreg): accounts have priorities, and     *)
(* those of the next priority are registered when all of the current one   *)
(* have failed.  The module is called back by the event that a failing     *)
(* registration emits, also in the middle of a registration that it has    *)
(* started itself, so its functions are recursive.                         *)
(*                                                                         *)
(* They are operators on x: the list x.ua of user agents, struct sreg as   *)
(* x.sr, the addresses x.transp with a SIP transport, and x.refused, that  *)
(* some request could not even be sent.  x.fuel counts the calls that are  *)
(* left; when it is 0 the code is taken to run for ever.                   *)
(***************************************************************************)
EXTENDS RegOps

\* (uint32_t) -1, more than any priority.
NoPrio == 99

SerregInit == [prio |-> 0, maxprio |-> 0, ready |-> FALSE, sprio |-> NoPrio,
               tmr |-> FALSE]

Registrars(x) == {u \in DOMAIN x.ua : x.ua[u].regint}

\* Mutant: the accounts of all priorities.
AtPrio_All(x) == Registrars(x)

AtPrio(x) == {u \in Registrars(x) : x.ua[u].prio = x.sr.prio}

AllFailed(x) == \A u \in AtPrio(x) : ua_regfailed(x.ua[u].regs)

AllRegistered(x) == \A u \in AtPrio(x) : /\ ua_isregistered(x.ua[u].regs)
                                         /\ ~ua_regfailed(x.ua[u].regs)

check_registrations(x) ==
  [x EXCEPT !.sr.maxprio = Max({@} \cup {x.ua[u].prio : u \in Registrars(x)}),
            !.sr.ready = @ \/ (AllRegistered(x) /\ ~AllFailed(x))]

\* Mutant: no wrap to the first priority.
inc_account_prio_NoWrap(x) ==
  [x EXCEPT !.sr.prio = @ + 1, !.sr.ready = FALSE]

inc_account_prio(x) ==
  LET above == {x.ua[u].prio : u \in DOMAIN x.ua} \cap (x.sr.prio + 1)..NoPrio
      p     == Min(above \cup {NoPrio})
  IN  [x EXCEPT !.sr.prio = IF p > x.sr.maxprio THEN 0 ELSE p,
                !.sr.ready = FALSE]

Sendable(x, u) == {i \in DOMAIN x.ua[u].regs : x.ua[u].afs[i] \in x.transp}

Refused(x, u) == x.ua[u].regint /\ ~start_register_ok(x.ua[u].regs, Sendable(x, u))

ua_fallback(x, u) ==
  IF x.ua[u].fb /\ x.ua[u].regint
  THEN [x EXCEPT !.ua[u].regs = start_register(@, TRUE, Sendable(x, u))] ELSE x

RECURSIVE fallback_update(_, _)
fallback_update(x, u) ==
  IF u > Len(x.ua) THEN x
  ELSE fallback_update(IF x.ua[u].prio = x.sr.prio THEN x ELSE ua_fallback(x, u),
                       u + 1)

\* From here on an operator is the set of the states it can end in, which has
\* one element.
RECURSIVE event_handler(_, _, _)

\* A request that cannot be sent is reported before ua_register() returns.
ua_register(x, u) ==
  LET y == [x EXCEPT !.ua[u].regs = start_register(@, FALSE, Sendable(x, u)),
                     !.refused = @ \/ Refused(x, u)]
  IN  CASE ~x.ua[u].regint -> {x}
        [] x.ua[u].regint /\ ~Refused(x, u) -> {y}
        [] Refused(x, u) -> event_handler(y, "REGISTER_FAIL", u)

\* The loop over the user agents, from u on; err is FALSE once one succeeded.
RECURSIVE register_curprio(_, _, _)
register_curprio(x, u, err) ==
  IF u > Len(x.ua) THEN {[x |-> x, err |-> err]}
  ELSE LET a     == x.ua[u]
           other == a.prio # x.sr.prio
           stop  == [x EXCEPT !.ua[u].regs = ua_stop_register(@)]
       IN  CASE ~a.regint -> register_curprio(x, u + 1, err)
             [] a.regint /\ other ->
                  UNION {register_curprio(y, u + 1, err) :
                           y \in {IF a.fb THEN x ELSE stop}}
             [] a.regint /\ ~other /\ a.fb /\ ua_regfailed(a.regs) ->
                  register_curprio(x, u + 1, err)
             [] a.regint /\ ~other /\ ~(a.fb /\ ua_regfailed(a.regs)) ->
                  UNION {register_curprio(y, u + 1, err /\ Refused(x, u)) :
                           y \in ua_register(x, u)}

NoneLeft(x) == [x EXCEPT !.sr.prio = NoPrio]

\* The loop of next_account(); prio is the local variable.
RECURSIVE NextPrio(_, _)
NextPrio(x, prio) ==
  LET On(r) == CASE ~r.err -> {r.x}
                 [] r.err /\ prio = r.x.sr.prio -> {NoneLeft(r.x)}
                 [] r.err /\ prio # r.x.sr.prio ->
                      NextPrio(r.x, IF prio = NoPrio THEN r.x.sr.prio ELSE prio)
  IN  CASE x.fuel = 0 -> {x}
        [] x.fuel > 0 /\ ~AllFailed(x) -> {check_registrations(x)}
        [] x.fuel > 0 /\ AllFailed(x) ->
             UNION {IF y.sr.sprio = y.sr.prio THEN {NoneLeft(y)}
                    ELSE UNION {On(r) : r \in register_curprio(y, 1, TRUE)} :
                      y \in {inc_account_prio(check_registrations([x EXCEPT !.fuel = @ - 1]))}}

next_account(x) ==
  UNION {NextPrio(y, x.sr.prio) :
           y \in {IF x.sr.sprio = NoPrio THEN [x EXCEPT !.sr.sprio = x.sr.prio] ELSE x}}

\* Mutant: the priority -1 is compared as a signed number.
fallback_ok_Signed(x, u) ==
  IF x.sr.prio = NoPrio \/ x.ua[u].prio > x.sr.prio THEN {x}
  ELSE UNION {{IF r.err THEN r.x ELSE fallback_update(r.x, 1) :
                 r \in register_curprio(y, 1, TRUE)} :
               y \in {[x EXCEPT !.sr.prio = x.ua[u].prio, !.sr.ready = FALSE]}}

fallback_ok(x, u) ==
  IF x.ua[u].prio > x.sr.prio THEN {x}
  ELSE UNION {{IF r.err THEN r.x ELSE fallback_update(r.x, 1) :
                 r \in register_curprio(y, 1, TRUE)} :
               y \in {[x EXCEPT !.sr.prio = x.ua[u].prio, !.sr.ready = FALSE]}}

\* The handlers of the events of user agent u.
RegisterOk(x, u) ==
  check_registrations([x EXCEPT !.sr.prio = x.ua[u].prio,
                                !.sr.sprio = x.ua[u].prio])

RegisterFail(x, u) ==
  {[ua_fallback(y, u) EXCEPT !.sr.tmr = @ \/ y.sr.prio = NoPrio] :
     y \in next_account(x)}

event_handler(x, ev, u) ==
  UNION {CASE y.fuel = 0 \/ ev = "FALLBACK_FAIL" -> {y}
           [] y.fuel > 0 /\ ev = "REGISTER_OK" -> {RegisterOk(y, u)}
           [] y.fuel > 0 /\ ev = "REGISTER_FAIL" -> RegisterFail(y, u)
           [] y.fuel > 0 /\ ev = "FALLBACK_OK" -> fallback_ok(y, u) :
           y \in {[x EXCEPT !.fuel = IF @ = 0 THEN 0 ELSE @ - 1]}}

\* The restart timer; a request that cannot be sent starts it again.
RECURSIVE RestartFrom(_, _)
RestartFrom(x, u) ==
  IF u > Len(x.ua) THEN {x}
  ELSE IF ~x.ua[u].regint \/ x.ua[u].prio # 0 \/ x.ua[u].fb
       THEN RestartFrom(x, u + 1)
       ELSE UNION {IF Refused(x, u) THEN {[y EXCEPT !.sr.tmr = TRUE]}
                   ELSE RestartFrom(y, u + 1) :
                     y \in ua_register([x EXCEPT !.sr.prio = 0], u)}

restart(x) == RestartFrom([x EXCEPT !.sr.sprio = NoPrio, !.sr.tmr = FALSE], 1)
=============================================================================
