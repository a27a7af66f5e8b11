------------------------------ MODULE DtlsSrtp ------------------------------
(***************************************************************************)
(* SRTP with the keys of a DTLS handshake (modules/dtls_srtp).  The field  *)
(* dt of the stream's record is the struct dtls_srtp with a component for  *)
(* RTP and, if it has a socket of its own, one for RTCP.  The handshake    *)
(* gives a key to the client and one to the server: "cli" and "srv".       *)
(*                                                                         *)
(* A parameter r says what the DTLS stack answers: "ok", "nolisten",       *)
(* "nortcp" (it does not listen on the RTCP socket) or "noconnect".        *)
(***************************************************************************)
EXTENDS StreamOps

Components == {"RTP", "RTCP"}

\* The components that have a socket of their own.
Used(x) == IF x.mux THEN {"RTP"} ELSE Components

\* conn: the role in which tls_conn was opened.  hs: its handshake is under
\* way.  layers: how often the SRTP helper was registered on the socket.
NoComponent == [sock |-> FALSE, conn |-> None, hs |-> FALSE, negotiated |-> FALSE,
                tx |-> None, rx |-> None, layers |-> 0]

\* History: swapped, the role was changed before the handshakes were over;
\* failed, the stack refused something; again, a peer connected again after
\* its connection was closed; early, the RTCP handshake was over first.
NoDtls == [on |-> FALSE, started |-> FALSE, active |-> FALSE,
           comp |-> [c \in Components |-> NoComponent],
           swapped |-> FALSE, failed |-> FALSE, again |-> FALSE, early |-> FALSE]

\* component_start(): once there is a DTLS socket nothing is tried again.
component_start_Listens(x, c, r) ==
    IF x.dt.comp[c].negotiated \/ x.dt.comp[c].sock THEN x ELSE [x EXCEPT !.dt.comp[c].sock = TRUE]
component_start(x, c, r) ==
    IF x.dt.comp[c].negotiated \/ x.dt.comp[c].sock THEN x
    ELSE IF r = "nolisten" \/ (r = "nortcp" /\ c = "RTCP") THEN [x EXCEPT !.err = TRUE, !.dt.failed = TRUE]
    ELSE LET y == [x EXCEPT !.dt.comp[c].sock = TRUE]
         IN IF ~(x.raddr /\ x.dt.active) THEN y
            ELSE IF r = "noconnect" THEN [y EXCEPT !.err = TRUE, !.dt.failed = TRUE]
            ELSE [y EXCEPT !.dt.comp[c].conn = "client", !.dt.comp[c].hs = TRUE]

media_start(x, r) ==
    IF x.dt.started \/ ~x.rsdp.port THEN x
    ELSE LET y == component_start(x, "RTP", r)
             z == IF x.mux THEN y ELSE component_start(y, "RTCP", r)
         IN [z EXCEPT !.dt.started = ~z.err]

\* media_alloc(): the role follows the a=setup of the latest SDP.
dtls_media_alloc(x, r) ==
    LET y == [x EXCEPT !.dt.on = TRUE, !.err = FALSE]
        active == x.rsdp.setup # "active"
        pending == \E c \in Used(x) :
                      x.dt.comp[c].sock /\ (x.dt.comp[c].hs \/ ~x.dt.comp[c].negotiated)
    IN IF x.rsdp.setup = None THEN y
       ELSE media_start([y EXCEPT !.dt.active = active,
                                  !.dt.swapped = @ \/ (pending /\ active # x.dt.active)], r)

dtls_conn_handler(x, c) ==
    IF x.dt.active THEN x
    ELSE IF x.dt.comp[c].conn # None THEN menc_error_handler(x)
    ELSE [x EXCEPT !.dt.comp[c].conn = "server", !.dt.comp[c].hs = TRUE,
                   !.dt.again = @ \/ x.dt.comp[c].negotiated]

dtls_estab_handler(x, c) ==
    LET a == x.dt.active
        y == [x EXCEPT !.dt.early = @ \/ (c = "RTCP" /\ ~x.dt.comp["RTP"].negotiated)]
        d == [x.dt.comp[c] EXCEPT !.negotiated = TRUE, !.hs = FALSE,
                                  !.tx = IF a THEN "cli" ELSE "srv",
                                  !.rx = IF a THEN "srv" ELSE "cli",
                                  !.layers = IF @ < 2 THEN @ + 1 ELSE @]
    IN menc_event_handler([y EXCEPT !.dt.comp[c] = d], c)

\* ... or verify_fingerprint() says that it is not the peer of the SDP.
fingerprint_mismatch(x) == menc_error_handler(x)

dtls_close_handler(x, c) ==
    LET y == [x EXCEPT !.dt.comp[c].conn = None, !.dt.comp[c].hs = FALSE]
    IN IF x.dt.comp[c].negotiated THEN y ELSE menc_error_handler(y)

\* The key that encrypts a packet on the socket of c, None for no helper.
srtp_send_handler(x, c) == x.dt.comp[c].tx

=============================================================================
