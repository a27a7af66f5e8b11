------------------------------ MODULE MnatOps ------------------------------
(***************************************************************************)
(* A media-NAT session as the five modules for it share it (the interface  *)
(* of mnat.c): call.c allocates the session and one medium per stream, the *)
(* module finds an address for every component (RTP, RTCP) of every medium *)
(* and reports the end through estabh, call.c's mnat_handler, which may    *)
(* release the call, and the session with it.                              *)
(*                                                                         *)
(* A session is a record; the functions of the modules are operators.      *)
(* comp     the component's request: "off", "tcp" (TURN over TCP, not yet  *)
(*          connected), "alloc" (ICE: a TURN allocation), "sent", "done",  *)
(*          "failed", or "lost" (nothing is asked any more)                *)
(* addr     the component has its address (it was mapped or granted)       *)
(* wait     call->mnat_wait: the first success is still to be reported     *)
(* missing  history: what was without an answer at that report             *)
(* moved    history: how often an address has changed                      *)
(* fresh    history: media with a new address that no INVITE has told      *)
(* stale    history: the code that went on with a released object          *)
(***************************************************************************)
EXTENDS Integers, FiniteSets

CONSTANTS
  NMedia,     \* streams of a call
  MaxMoved    \* bound on the address changes of a session

ASSUME MnatAssumption == NMedia \in Nat \ {0} /\ MaxMoved \in Nat

Kinds == {"stun", "turn", "turn_tcp", "natpmp", "pcp",
          "ice_stun", "ice_turn", "ice_host"}

Ice == {"ice_stun", "ice_turn", "ice_host"}

Media == 1..NMedia

Comp == Media \X {1, 2}

\* The components with a socket of their own: no RTCP socket with rtcp-mux.
Socks(s) == {c \in Comp : c[1] <= s.medial /\ (c[2] = 1 \/ s.rtcp)}

Of(s, m) == {c \in Socks(s) : c[1] = m}

NoSession(kind, n, rtcp, offerer) ==
  [kind |-> kind, n |-> n, rtcp |-> rtcp, offerer |-> offerer,
   at |-> "alloc", medial |-> 0, srv |-> FALSE, dns |-> FALSE, tmr |-> FALSE,
   comp |-> [c \in Comp |-> "off"], addr |-> [c \in Comp |-> FALSE],
   mediac |-> 0, estabh |-> TRUE,
   nstun |-> [m \in Media |-> 0], gathered |-> [m \in Media |-> FALSE],
   check |-> [m \in Media |-> "no"], complete |-> [m \in Media |-> FALSE],
   started |-> FALSE, send_reinvite |-> FALSE, epoch |-> [m \in Media |-> 0],
   wait |-> TRUE, failed |-> FALSE, reinv |-> 0, missing |-> {},
   moved |-> 0, fresh |-> {}, stale |-> "none"]

\* The last reference is gone: timers, queries, requests and checks are over.
Released(s) ==
  [s EXCEPT !.at = "gone", !.dns = FALSE, !.tmr = FALSE,
            !.comp = [c \in Comp |-> "off"], !.check = [m \in Media |-> "no"]]

Pending(s) ==
  {c \in Socks(s) : ~s.addr[c] /\ s.comp[c] \notin {"done", "failed"}}

\* call.c: an error closes the call; the first success sends the INVITE or
\* announces the call (which may be blocked, and released), a later one sends
\* a re-INVITE.
mnat_handler(s, ok, close) ==
  LET r == IF ~ok THEN [s EXCEPT !.failed = TRUE]
           ELSE IF s.wait THEN [s EXCEPT !.wait = FALSE, !.missing = Pending(s)]
           ELSE [s EXCEPT !.reinv = IF @ < 2 THEN @ + 1 ELSE @, !.fresh = {}]
  IN  IF ok /\ ~close THEN r ELSE Released(r)

\* The code goes on with t after a call that may have released the session.
GoesOn(s, t, where) == IF s.at = "gone" THEN [s EXCEPT !.stale = where] ELSE t

Answered(s, c, o) == [s EXCEPT !.comp[c] = o]

Mapped(s, c) == [s EXCEPT !.comp[c] = "done", !.addr[c] = TRUE]
=============================================================================
