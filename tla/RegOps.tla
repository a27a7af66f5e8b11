------------------------------- MODULE RegOps -------------------------------
(***************************************************************************)
(* The registration clients of a user agent (reg.c, and the functions of   *)
(* ua.c that start, stop and question them).  A client is a record, a user *)
(* agent the sequence of its clients; the functions are operators.         *)
(*                                                                         *)
(* sip      the client of libre: "none", "busy" (a request or its refresh  *)
(*          timer is running), "leaving" (un-REGISTER sent) or "idle"      *)
(*          (allocated, but nothing will happen)                           *)
(* registered, failed   what libre says of it                              *)
(* scode    struct reg: status of the last attempt; 999 is a local error   *)
(* regint   struct reg: FALSE for a fallback check (Expires: 0)            *)
(* told     history: what the events have told of the last registration    *)
(***************************************************************************)
EXTENDS Naturals, Sequences, FiniteSetsExt

NoReg == [sip |-> "none", registered |-> FALSE, failed |-> FALSE,
          scode |-> 0, regint |-> FALSE, told |-> "none"]

RegType == [sip : {"none", "busy", "leaving", "idle"}, registered : BOOLEAN,
            failed : BOOLEAN, scode : {0, 200, 400, 999}, regint : BOOLEAN,
            told : {"none", "ok", "fail"}]

\* A new client replaces the old one and inherits only that it has failed.
reg_register(r, fallback, sent) ==
  [sip |-> IF sent THEN "busy" ELSE "idle", registered |-> FALSE,
   failed |-> r.sip # "none" /\ r.failed, scode |-> 0, regint |-> ~fallback,
   told |-> CASE fallback -> r.told [] ~fallback /\ sent -> "none"
              [] ~fallback /\ ~sent -> "fail"]

reg_stop(r) == [r EXCEPT !.sip = "none", !.registered = FALSE,
                         !.failed = FALSE, !.scode = 0]

\* libre: only a registered client has something to take back.
reg_unregister(r) ==
  IF r.registered THEN [r EXCEPT !.sip = "leaving", !.registered = FALSE] ELSE r

reg_isok(r) == r.sip # "none" /\ r.registered /\ r.scode = 200

reg_failed(r) == r.sip # "none" /\ r.failed

\* libre: the answer o to the request of client r, before the handler is
\* called.  It retries, refreshes and repeats checks by itself.
sipreg_response(r, o) ==
  LET stays == IF r.sip = "leaving" THEN "idle" ELSE "busy"
  IN  IF o = "ok"
      THEN [r EXCEPT !.sip = stays, !.failed = FALSE,
                     !.registered = r.regint /\ r.sip = "busy"]
      ELSE [r EXCEPT !.sip = stays, !.failed = TRUE]

register_handler(r, o) ==
  [r EXCEPT !.scode = CASE o = "ok" -> 200 [] o = "reject" -> 400
                        [] o = "err" -> 999,
            !.told = CASE ~r.regint -> @ [] r.regint /\ o = "ok" -> "ok"
                       [] r.regint /\ o # "ok" -> "fail"]

\* The event that register_handler() emits.
RegisterEvent(r, o) ==
  CASE r.regint /\ o = "ok" -> "REGISTER_OK"
    [] r.regint /\ o # "ok" -> "REGISTER_FAIL"
    [] ~r.regint /\ o = "ok" -> "FALLBACK_OK"
    [] ~r.regint /\ o # "ok" -> "FALLBACK_FAIL"
-----------------------------------------------------------------------------
\* start_register() stops at the first client whose request cannot be sent.
\* sent is the set of clients whose request can.
start_register(regs, fallback, sent) ==
  [i \in DOMAIN regs |->
     IF 1..(i - 1) \subseteq sent
     THEN reg_register(regs[i], fallback, i \in sent) ELSE regs[i]]

start_register_ok(regs, sent) == DOMAIN regs \subseteq sent

ua_stop_register(regs) == [i \in DOMAIN regs |-> reg_stop(regs[i])]

ua_unregister(regs) == [i \in DOMAIN regs |-> reg_unregister(regs[i])]

ua_isregistered(regs) == \E i \in DOMAIN regs : reg_isok(regs[i])

ua_regfailed(regs) == \A i \in DOMAIN regs : reg_failed(regs[i])
=============================================================================
