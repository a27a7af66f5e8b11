------------------------------ MODULE Netroam -------------------------------
(***************************************************************************)
(* Network roaming (modules/netroam) and the reset of the SIP transports   *)
(* (uag.c).  x.net is struct netroam with the addresses of struct network: *)
(* laddrs that baresip knows, reset that the transports have to be set up  *)
(* again, tmr that the poll timer runs.  x.transp are the addresses that   *)
(* have a SIP transport.                                                   *)
(***************************************************************************)
EXTENDS Serreg

NetroamInit(addrs, interval) == [laddrs |-> addrs, reset |-> FALSE, tmr |-> interval]

\* Re-REGISTER, or check, the user agents from u on.
RECURSIVE ResetRegs(_, _, _)
ResetRegs(x, u, err) ==
  IF u > Len(x.ua) THEN {[x |-> x, err |-> err]}
  ELSE IF x.ua[u].prio = 0
       THEN UNION {ResetRegs(y, u + 1, err \/ Refused(x, u)) : y \in ua_register(x, u)}
       ELSE ResetRegs(ua_fallback(x, u), u + 1,
                      err \/ (x.ua[u].fb /\ Refused(x, u)))

\* bound are the addresses for which a transport could be added; at the first
\* one that could not the function returns.
uag_reset_transp(x, bound) ==
  IF bound = x.net.laddrs THEN ResetRegs([x EXCEPT !.transp = bound], 1, FALSE)
  ELSE {[x |-> [x EXCEPT !.transp = bound], err |-> TRUE]}

\* Mutant: a reset that failed is not tried again.
poll_changes_Once(x, add, del, bound, interval) ==
  CASE add \cup del # {} ->
         {[x EXCEPT !.net.laddrs = (@ \cup add) \ del, !.net.reset = TRUE,
                    !.net.tmr = TRUE]}
    [] add \cup del = {} /\ ~x.net.reset -> {[x EXCEPT !.net.tmr = @ \/ interval]}
    [] add \cup del = {} /\ x.net.reset ->
         {[r.x EXCEPT !.net.reset = FALSE, !.net.tmr = @ \/ interval] :
            r \in uag_reset_transp(x, bound)}

\* add and del hold the address that is new, and the one that is gone, if any.
poll_changes(x, add, del, bound, interval) ==
  CASE add \cup del # {} ->
         {[x EXCEPT !.net.laddrs = (@ \cup add) \ del, !.net.reset = TRUE,
                    !.net.tmr = TRUE]}
    [] add \cup del = {} /\ ~x.net.reset -> {[x EXCEPT !.net.tmr = @ \/ interval]}
    [] add \cup del = {} /\ x.net.reset ->
         {[r.x EXCEPT !.net.reset = r.err, !.net.tmr = @ \/ interval \/ r.err] :
            r \in uag_reset_transp(x, bound)}
=============================================================================
