-------------------------------- MODULE Menc --------------------------------
(***************************************************************************)
(* Media encryption in a call.  One audio stream, with or without media    *)
(* NAT traversal that has to connect first, is offered or answered, held,  *)
(* resumed and given new keys by re-INVITEs of both sides, while DTLS      *)
(* handshakes and the NAT traversal finish at any time.  The peer is any   *)
(* implementation of the offer/answer rules of RFC 3264 and 4568 (one      *)
(* exchange at a time, an answer takes the offered suite) and RFC 8842     *)
(* (an offer has the setup "actpass" or that of the peer's role).          *)
(***************************************************************************)
EXTENDS Srtp, DtlsSrtp, FiniteSets

CONSTANTS MaxKey,        \* bound: keys of either side
          MaxExchanges   \* bound: re-INVITEs and closed connections

ASSUME BoundsAssumption == MaxKey \in Nat \ {0} /\ MaxExchanges \in Nat

VARIABLE s

\* stream_start_mediaenc(): the mediah of the module.
stream_start_mediaenc(x, r) ==
    CASE x.enc = "none" -> [x EXCEPT !.err = FALSE]
      [] x.enc = "sdes" -> srtp_media_alloc(x)
      [] x.enc = "dtls" -> dtls_media_alloc(x, r)

\* stream_update(): the stream is off during the update, and stays off when
\* the encryption fails.
stream_update(x, r) ==
    LET y == [stream_enable(x, FALSE) EXCEPT !.raddr = x.rsdp.port, !.err = FALSE]
        z == IF mnat_ready(y) THEN stream_start_mediaenc(y, r) ELSE y
    IN IF z.err THEN z ELSE stream_enable(z, TRUE)

call_apply_sdp(x, r) ==
    LET y == stream_update(x, r) IN IF stream_is_ready(y) THEN stream_start_rtcp(y) ELSE y

update_streams(x) == IF stream_is_ready(x) THEN audio_update(x) ELSE audio_stop(x)

call_update_media(x, r) == update_streams(call_apply_sdp(x, r))

\* stream_mnatconn_handler() of call.c.
stream_mnatconn_handler(x, r) ==
    IF x.enc # "none"
      THEN LET y == stream_start_mediaenc(x, r) IN IF y.err THEN [y EXCEPT !.call = "closed"] ELSE y
      ELSE IF stream_is_ready(x) THEN audio_update(stream_start_rtcp(x)) ELSE x

-----------------------------------------------------------------------------
(* SDP.  sent is our a=crypto in the latest SDP, known that in the latest  *)
(* offer that was answered or answer that was sent; suite and peerkey are  *)
(* what the peer sends with.  History: alien, we answered with a suite     *)
(* that is not the first one of the offer we support; refused, the peer    *)
(* refused a re-INVITE with a new key.                                     *)

NoSdp == [port |-> FALSE, dir |-> Both, crypto |-> <<>>, setup |-> None]

PeerKeys(x) == {x.peerkey} \cup {k \in {x.peerkey + 1} : k <= MaxKey}

Dirs == {Both, {"recv"}, {}}

Attr(suite, key) == [suite |-> suite, key |-> key]

\* What the peer offers: a suite we support, after another one or not.
Offers(x) ==
    [port : {TRUE}, dir : Dirs,
     crypto : IF x.enc # "sdes" THEN {<<>>}
              ELSE UNION {UNION {{<<Attr(a, k)>>, <<Attr("other", k), Attr(a, k)>>} :
                                    a \in Supported} : k \in PeerKeys(x)},
     setup : IF x.enc # "dtls" THEN {None} ELSE {"actpass"} \cup ({x.peerrole} \ {None})]

\* What it answers: our suite, and a role, which it keeps.
Answers(x) ==
    [port : {TRUE}, dir : Dirs,
     crypto : IF x.enc # "sdes" THEN {<<>>} ELSE {<<Attr(x.sent[1], k)>> : k \in PeerKeys(x)},
     setup : IF x.enc # "dtls" THEN {None}
             ELSE IF x.peerrole = None THEN {"active", "passive"} ELSE {x.peerrole}]

sdp_decode(x, sdp) ==
    [x EXCEPT !.rsdp = sdp,
              !.peerkey = IF sdp.crypto = <<>> THEN @ ELSE sdp.crypto[1].key,
              !.peerrole = IF @ # None \/ sdp.setup = None THEN @
                           ELSE IF sdp.setup = "active" THEN "active" ELSE "passive"]

sdp_encode(x) == [x EXCEPT !.sent = x.sd.lattr]

\* The end of an exchange: our offer was answered, or our answer was sent.
Exchanged(x) == [x EXCEPT !.known = x.sent, !.suite = x.sent[1]]

Answered(x) ==
    LET y == sdp_encode(x)
    IN [Exchanged(y) EXCEPT !.alien = @ \/
            (x.enc = "sdes" /\ y.sent[1] # x.rsdp.crypto[Len(x.rsdp.crypto)].suite)]

-----------------------------------------------------------------------------

Init ==
    \E enc \in {"none", "sdes", "dtls"}, nat \in BOOLEAN, mux \in BOOLEAN :
        s = [enc |-> enc, nat |-> nat, mux |-> mux, natup |-> FALSE, secure |-> FALSE,
             raddr |-> FALSE, ldir |-> Both, tx |-> FALSE, rx |-> FALSE, rtcp |-> FALSE,
             src |-> FALSE, err |-> FALSE, call |-> "idle", sd |-> NoSdes, dt |-> NoDtls,
             rsdp |-> NoSdp, sent |-> NoSession, known |-> NoSession, suite |-> None,
             peerkey |-> 1, peerrole |-> None, reinv |-> FALSE, alien |-> FALSE,
             refused |-> FALSE, left |-> MaxExchanges]

Becomes(x) == s' = x

Results == IF s.enc = "dtls" THEN {"ok", "nolisten", "nortcp", "noconnect"} ELSE {"ok"}

\* call_streams_alloc(), stream_alloc(): for an outgoing call, which offers,
\* and for an incoming one, which has an offer.
stream_alloc ==
    /\ s.call = "idle"
    /\ LET x == stream_start_mediaenc(s, "ok")
       IN \/ Becomes([sdp_encode(x) EXCEPT !.call = "offered"])
          \/ \E o \in Offers(s) : Becomes([sdp_decode(x, o) EXCEPT !.call = "incoming"])

\* call_answer(), up to the sending of the answer.
call_answer(r) ==
    s.call = "incoming" /\ Becomes([Answered(call_apply_sdp(s, r)) EXCEPT !.call = "answered"])

\* sipsess_estab_handler(): the answer was acknowledged.
sipsess_estab_handler == s.call = "answered" /\ Becomes([update_streams(s) EXCEPT !.call = "up"])

\* sipsess_answer_handler(): the first answer, or that to our re-INVITE.
sipsess_answer_handler(r) ==
    /\ s.call = "offered" \/ (s.call = "up" /\ s.reinv)
    /\ \E a \in Answers(s) :
          Becomes([Exchanged(call_update_media(sdp_decode(s, a), r)) EXCEPT !.reinv = FALSE, !.call = "up"])

\* The peer refuses our re-INVITE: nothing is undone.
reinvite_refused ==
    /\ s.call = "up" /\ s.reinv
    /\ Becomes([s EXCEPT !.reinv = FALSE, !.refused = @ \/ s.sent # s.known])

\* sipsess_offer_handler(): a re-INVITE of the peer.
sipsess_offer_handler(r) ==
    /\ s.call = "up" /\ ~s.reinv /\ s.left > 0
    /\ \E o \in Offers(s) : Becomes([Answered(call_update_media(sdp_decode(s, o), r)) EXCEPT !.left = @ - 1])

\* call_modify(), for a hold or a resume: our re-INVITE, and an update with
\* the SDP the peer sent last.
call_modify(r) ==
    /\ s.call = "up" /\ ~s.reinv /\ s.left > 0
    /\ \E d \in {Both, {"send"}} :
          Becomes([call_update_media([sdp_encode(s) EXCEPT !.ldir = d], r) EXCEPT
                      !.reinv = TRUE, !.left = @ - 1])

\* stream_remove_menc_media_state(): a new key of ours, then an update and a
\* re-INVITE (the order of the test).
stream_remove_menc_media_state ==
    /\ s.call = "up" /\ ~s.reinv /\ s.left > 0
    /\ s.enc = "sdes" /\ s.sd.key_tx < MaxKey
    /\ LET x == sdp_encode(call_update_media(media_txrekey(s), "ok"))
       IN Becomes([call_update_media(x, "ok") EXCEPT !.reinv = TRUE, !.left = @ - 1])

\* stream_mnat_connected(): the NAT traversal starts with the first SDP.
stream_mnat_connected(r) ==
    /\ s.nat /\ ~s.natup /\ s.call \in {"answered", "up"}
    /\ LET x == stream_mnatconn_handler([s EXCEPT !.natup = TRUE, !.raddr = TRUE], r)
       IN Becomes(IF x.call = "closed" THEN audio_stop(x) ELSE stream_enable_tx(x, TRUE))

-----------------------------------------------------------------------------
(* The DTLS stack: the peer connects, handshakes end well or not, and      *)
(* connections are closed.                                                 *)

Talks == s.call \in {"answered", "up"}

\* The peer has to connect, and will be heard.
Connects(c) ==
    /\ Talks /\ s.dt.comp[c].sock /\ s.peerrole = "active" /\ ~s.dt.active
    /\ s.dt.comp[c].conn = None /\ ~s.dt.comp[c].negotiated

dtls_incoming(c) ==
    /\ Talks /\ s.dt.comp[c].sock /\ s.peerrole = "active"
    /\ s.left > 0 \/ (s.dt.comp[c].conn = None /\ ~s.dt.comp[c].negotiated)
    /\ Becomes([dtls_conn_handler(s, c) EXCEPT !.left = IF s.dt.comp[c].conn = None THEN @ ELSE @ - 1])

dtls_estab(c) == Talks /\ s.dt.comp[c].hs /\ Becomes(dtls_estab_handler(s, c))

dtls_fails(c) == Talks /\ s.dt.comp[c].hs /\ Becomes(fingerprint_mismatch(s))

dtls_closed(c) ==
    /\ Talks /\ s.dt.comp[c].conn # None /\ s.left > 0
    /\ Becomes([dtls_close_handler(s, c) EXCEPT !.left = @ - 1])

Next ==
    \/ stream_alloc \/ sipsess_estab_handler \/ reinvite_refused \/ stream_remove_menc_media_state
    \/ \E r \in Results :
          \/ call_answer(r) \/ sipsess_answer_handler(r) \/ sipsess_offer_handler(r)
          \/ call_modify(r) \/ stream_mnat_connected(r)
    \/ \E c \in Components :
          dtls_incoming(c) \/ dtls_estab(c) \/ dtls_fails(c) \/ dtls_closed(c)

Spec == Init /\ [][Next]_s

\* Timers of the stacks and the peer's retransmissions end what has begun:
\* handshakes, the NAT traversal, the acknowledgement and the answers.  This
\* is weak fairness with the guards written out for ENABLED.
FairSpec ==
    /\ Spec
    /\ []<>(s.call # "answered") \/ []<><<sipsess_estab_handler>>_s
    /\ []<>(s.call # "offered" /\ ~s.reinv)
       \/ []<><<reinvite_refused \/ \E r \in Results : sipsess_answer_handler(r)>>_s
    /\ []<>(~s.nat \/ s.natup \/ ~Talks) \/ []<><<\E r \in Results : stream_mnat_connected(r)>>_s
    /\ \A c \in Components :
          /\ []<>~Connects(c) \/ []<><<dtls_incoming(c)>>_s
          /\ []<>(~Talks \/ ~s.dt.comp[c].hs) \/ []<><<dtls_estab(c) \/ dtls_fails(c)>>_s

-----------------------------------------------------------------------------

\* The fields have the values of the structs they stand for.
TypeOK ==
    /\ s.enc \in {"none", "sdes", "dtls"} /\ s.ldir \in SUBSET Both /\ s.left \in 0..MaxExchanges
    /\ s.call \in {"idle", "offered", "incoming", "answered", "up", "closed"}
    /\ \A f \in {"nat", "mux", "natup", "secure", "raddr", "tx", "rx", "rtcp", "src", "err",
                  "reinv", "alien", "refused"} : s[f] \in BOOLEAN
    /\ s.peerkey \in 1..MaxKey /\ s.peerrole \in {None, "active", "passive"}
    /\ s.sd.key_tx \in 0..MaxKey /\ s.sd.key_rx \in 0..MaxKey
    /\ s.sd.suite \in Supported \cup {None}
    /\ s.sd.tx # NoSession => s.sd.tx[1] \in Supported
    /\ \A c \in Components :
          /\ s.dt.comp[c].conn \in {None, "client", "server"} /\ s.dt.comp[c].layers \in 0..2
          /\ s.dt.comp[c].hs => s.dt.comp[c].conn # None

Established == s.call = "up" /\ mnat_ready(s)

\* Audio never leaves in the clear once a medium is to be encrypted: the
\* stream is only enabled for sending (stream_enable_tx) when the keys are
\* there.  wait_secure does not wait for the RTP component, though: after
\* the RTCP handshake was over first, RTP is sent before its own is.
NoPlainMedia ==
    s.tx /\ s.src =>
       /\ s.enc = "sdes" => send_handler(s) \notin {Plain, NoSession}
       /\ s.enc = "dtls" => srtp_send_handler(s, "RTP") # None \/ s.dt.early

\* Whatever SDP was exchanged, packets are sent with the suite and the key
\* that the peer was told last (sdp_enc, start_srtp, media_txrekey).  Not
\* so after the suite was changed by a re-INVITE, since the session for
\* sending is kept; after the peer refused a new key, which is in use
\* already; and after an answer that does not fit the offer.
TxAgrees ==
    Established /\ s.enc = "sdes" /\ ~s.reinv /\ ~s.refused /\ ~s.alien =>
        /\ send_handler(s)[2] = s.known[2]
        /\ ~s.sd.changed => send_handler(s) = s.known

\* Packets with the suite and key of the peer's latest SDP reach the stream,
\* and those with its earlier keys do not (start_crypto, sdp_attr_handler).
RxAgrees ==
    Established /\ s.enc = "sdes" /\ ~s.alien =>
        \A a \in Supported, k \in 1..MaxKey :
            recv_handler(s, Session(a, k)) <=> (a = s.suite /\ k = s.peerkey)

\* An answer takes the first suite of the offer that is supported, except
\* one that is sent before the NAT traversal has connected: that answer has
\* the preferred suite, whatever was offered (stream_update).
AnswerFitsOffer == s.alien => s.nat

\* In an established call audio is sent and received when both sides want it
\* and the stream is ready, whichever of the SDP, the NAT traversal and the
\* handshake came last; unless the start of the encryption failed.
AudioRuns ==
    Established /\ ~s.err /\ s.rsdp.port =>
        IF stream_is_ready(s) THEN s.tx = Sends(s) /\ s.src = Sends(s) /\ s.rx = Receives(s)
        ELSE ~s.src /\ ~s.tx

\* RTCP runs as soon as the stream is ready and RTCP is encrypted.  Two
\* cases wait for the next SDP: SDES after a NAT traversal, and DTLS with
\* one socket, as "RTCP" is not in the parameters of those events.
RtcpRuns ==
    Established /\ stream_is_ready(s) =>
        \/ s.rtcp
        \/ s.enc = "sdes" /\ s.nat
        \/ s.enc = "dtls" /\ ~s.dt.comp["RTCP"].negotiated

\* Media and RTCP start with the last of the SDP, the NAT traversal and the
\* handshake, and not before.
MediaRuns == AudioRuns /\ RtcpRuns

\* The client of a handshake sends with the client's key, and the server
\* with the server's (dtls_estab_handler), unless a new offer "actpass"
\* turned the role round before the handshake was over (media_alloc).
KeysByRole ==
    ~s.dt.swapped =>
        \A c \in Components : s.dt.comp[c].conn # None /\ ~s.dt.comp[c].hs =>
            LET server == s.dt.comp[c].conn = "server"
            IN /\ s.dt.comp[c].tx = (IF server THEN "srv" ELSE "cli")
               /\ s.dt.comp[c].rx = (IF server THEN "cli" ELSE "srv")

\* Packets are encrypted once: the helper is installed once on each socket
\* (srtp_install), unless a peer connects again after a close.
OneLayer == ~s.dt.again => \A c \in Components : s.dt.comp[c].layers <= 1

\* Both sides use the keys they exchanged, by SDP or by handshake, once, after
\* every order of offers, answers, refusals, new keys and connections.
KeysAgree ==
    TypeOK /\ TxAgrees /\ RxAgrees /\ AnswerFitsOffer /\ KeysByRole /\ OneLayer

\* A call with DTLS becomes secure or is closed: handshakes are started for
\* all components, by us or by the peer.  Not if the stack refused a socket
\* or a connection (only a socket is tried again, with the next SDP) or the
\* role was turned round before the handshake.
Secures ==
    (s.call = "up" /\ s.enc = "dtls") ~>
        \/ s.call = "closed" \/ s.dt.failed \/ s.dt.swapped
        \/ s.secure /\ \A c \in Used(s) : s.dt.comp[c].negotiated

=============================================================================
