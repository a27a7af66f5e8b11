------------------------------ MODULE StunTurn ------------------------------
(***************************************************************************)
(* The media-NAT modules "stun" and "turn" (modules/stun/stun.c,           *)
(* modules/turn/turn.c).  Both count in mediac the media that still wait   *)
(* for an address.  What libre's STUN, TURN, DNS and TCP clients tell them *)
(* is the parameter o of the handlers.                                     *)
(***************************************************************************)
EXTENDS MnatOps

Other(c) == <<c[1], 3 - c[2]>>

\* The other component has a client (ska2, turnc) and no address yet.
OtherWaits(s, c) ==
  LET o == Other(c) IN s.comp[o] \in {"sent", "done"} /\ ~s.addr[o]

\* One medium less to wait for.
Counted(s, close) ==
  LET d == [s EXCEPT !.mediac = @ - 1]
  IN  IF d.mediac # 0 THEN d ELSE mnat_handler(d, TRUE, close)

\* Mutant: a component does not wait for the other one.
mapped_handler_Alone(s, c, ok, close) ==
  IF ok THEN Counted(Mapped(s, c), close) ELSE mnat_handler(s, FALSE, close)

\* stun.c: mapped_handler1 and mapped_handler2, called when the binding is
\* known, when it has changed, and when the server does not answer.
mapped_handler(s, c, ok, close) ==
  LET a == [Mapped(s, c) EXCEPT !.moved = IF s.addr[c] THEN @ + 1 ELSE @]
  IN  IF ~ok THEN mnat_handler(s, FALSE, close)
      ELSE IF OtherWaits(s, c) THEN a ELSE Counted(a, close)

turn_handler(s, c, ok, close) ==
  LET a == Mapped(s, c)
  IN  IF ~ok THEN mnat_handler(s, FALSE, close)
      ELSE IF OtherWaits(s, c) THEN a ELSE Counted(a, close)

\* A keepalive per socket; an error is one of the whole medium.
stun_media_start(s, m) ==
  [s EXCEPT !.comp = [c \in Comp |-> IF c \in Of(s, m) THEN "sent" ELSE @[c]]]

\* A client per socket, or first a connection per socket.
turn_media_start(s, m) ==
  [s EXCEPT !.comp = [c \in Comp |-> IF c \notin Of(s, m) THEN @[c]
                        ELSE IF s.kind = "turn" THEN "sent" ELSE "tcp"]]

media_start(s, m) ==
  IF s.kind = "stun" THEN stun_media_start(s, m) ELSE turn_media_start(s, m)

StartAll(s) ==
  [s EXCEPT !.srv = TRUE, !.dns = FALSE,
            !.comp = [c \in Comp |-> IF c \in Socks(s)
                        THEN media_start(s, c[1]).comp[c] ELSE @[c]]]

\* Mutant: the loop goes on after a failure.
dns_handler_GoesOn(s, ok, close) ==
  LET f == mnat_handler(s, FALSE, close)
  IN  IF ok THEN StartAll(s) ELSE GoesOn(f, f, "dns_handler")

\* The first medium that cannot be started ends the loop.
dns_handler(s, ok, close) ==
  IF ok THEN StartAll(s) ELSE mnat_handler(s, FALSE, close)

tcp_estab_handler(s, c, ok, close) ==
  IF ok THEN Answered(s, c, "sent") ELSE mnat_handler(s, FALSE, close)

tcp_close_handler(s, close) == mnat_handler(s, FALSE, close)

\* The loop over the messages of the stream looks at the component's buffer
\* again when the TURN client has taken its message.
tcp_recv_handler(s, c, o, close) ==
  LET t == turn_handler(s, c, o = "ok", close)
  IN  IF o = "bad" THEN mnat_handler(s, FALSE, close)
      ELSE GoesOn(t, t, "turn_tcp_recv")

\* The medium is started at once if the server is known, and counted last.
media_alloc(s) ==
  LET a == [s EXCEPT !.medial = @ + 1]
      b == IF s.srv THEN media_start(a, a.medial) ELSE a
  IN  [b EXCEPT !.mediac = @ + 1]
=============================================================================
