-------------------------------- MODULE Srtp --------------------------------
(***************************************************************************)
(* SRTP with the keys in the SDP (modules/srtp).  The field sd of the      *)
(* stream's record is the struct menc_st: the suite and the keys, a        *)
(* session for each direction (the suite and key it was made with), and    *)
(* lattr, our a=crypto line.  A key is a number; its length and its        *)
(* encoding are left out, and keys of the peer have the right length.      *)
(* Attributes of the peer are records of suite and key.  changed is        *)
(* history: the suite is another than the one of the session for sending.  *)
(***************************************************************************)
EXTENDS StreamOps

Supported == {"AES_CM_128_HMAC_SHA1_80", "AEAD_AES_128_GCM"}   \* two of the four
preferred_suite == "AES_CM_128_HMAC_SHA1_80"

Session(suite, key) == <<suite, key>>

NoSession == Session(None, 0)

NoSdes == [on |-> FALSE, got_sdp |-> FALSE, use |-> FALSE, suite |-> None,
           key_tx |-> 0, key_rx |-> 0, tx |-> NoSession, rx |-> NoSession,
           lattr |-> NoSession, changed |-> FALSE]

\* start_srtp(): sessions that exist are kept.
start_srtp(x) ==
    LET d == x.sd
    IN [x EXCEPT !.sd.tx  = IF d.tx = NoSession THEN Session(d.suite, d.key_tx) ELSE @,
                 !.sd.rx  = IF d.rx = NoSession THEN Session(d.suite, d.key_rx) ELSE @,
                 !.sd.use = TRUE]

sdp_enc(x) == [x EXCEPT !.sd.lattr = Session(x.sd.suite, x.sd.key_tx)]

start_crypto(x, key) ==
    LET y == [x EXCEPT !.sd.rx = IF x.sd.key_rx # key THEN NoSession ELSE @, !.sd.key_rx = key]
    IN menc_event_handler(start_srtp(y), "RTP")

sdp_attr_handler(x, c) ==
    LET y == [x EXCEPT !.sd.rx = IF x.sd.suite # c.suite THEN NoSession ELSE @, !.sd.suite = c.suite,
                         !.sd.changed = @ \/ (x.sd.tx # NoSession /\ x.sd.suite # c.suite)]
    IN sdp_enc(start_crypto(y, c.key))

\* The first attribute that is supported is applied.
attr_apply(x, attrs) ==
    LET good == {i \in 1..Len(attrs) : attrs[i].suite \in Supported}
    IN IF good = {} THEN x
       ELSE sdp_attr_handler(x, attrs[CHOOSE i \in good : \A j \in good : i <= j])

\* media_txrekey(): ours is renewed.
media_txrekey_SameKey(x) == attr_apply([x EXCEPT !.sd.key_tx = @ + 1], x.rsdp.crypto)
media_txrekey(x) == attr_apply([x EXCEPT !.sd.tx = NoSession, !.sd.key_tx = @ + 1,
                                            !.sd.changed = FALSE], x.rsdp.crypto)

\* media_alloc(): also called for every new SDP of the peer.
srtp_media_alloc(x) ==
    LET y == IF x.sd.on THEN x
             ELSE [x EXCEPT !.sd.on = TRUE, !.sd.suite = preferred_suite, !.sd.key_tx = 1]
        z == [y EXCEPT !.sd.got_sdp = @ \/ x.rsdp.port, !.err = FALSE]
    IN IF \E i \in 1..Len(x.rsdp.crypto) : x.rsdp.crypto[i].suite \in Supported
         THEN attr_apply(z, x.rsdp.crypto)
         ELSE sdp_enc(z)

\* send_handler(): the session that encrypts a packet (with none it is not
\* sent), or Plain.  recv_handler(): whether a packet reaches the stream.
Plain == Session("plain", 0)

send_handler(x) == IF x.sd.use THEN x.sd.tx ELSE Plain
recv_handler(x, packet) ==
    /\ x.sd.got_sdp
    /\ x.sd.use => (x.sd.rx # NoSession /\ packet = x.sd.rx)

=============================================================================
