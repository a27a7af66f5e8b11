--------------------------- MODULE MencStreamProofs ---------------------------
(***************************************************************************)
(* Proofs about Menc, first part: the inductive invariant and what it      *)
(* implies, the steps of the DTLS stack, and what the operators of         *)
(* StreamOps, Srtp, DtlsSrtp and the updates of Menc leave of a stream.    *)
(***************************************************************************)
EXTENDS Menc, TLAPS

-----------------------------------------------------------------------------
(* The invariant *)

Sessions == (Supported \cup {None}) \X Nat

Sdes == [on : BOOLEAN, got_sdp : BOOLEAN, use : BOOLEAN, suite : Supported \cup {None},
         key_tx : 0..MaxKey, key_rx : 0..MaxKey, tx : Sessions, rx : Sessions,
         lattr : Sessions, changed : BOOLEAN]

ComponentRec == [sock : BOOLEAN, conn : {None, "client", "server"}, hs : BOOLEAN,
                 negotiated : BOOLEAN, tx : {None, "cli", "srv"}, rx : {None, "cli", "srv"},
                 layers : 0..2]

Dtls == [on : BOOLEAN, started : BOOLEAN, active : BOOLEAN,
         comp : [Components -> ComponentRec],
         swapped : BOOLEAN, failed : BOOLEAN, again : BOOLEAN, early : BOOLEAN]

Attrs == [suite : Supported \cup {"other"}, key : 1..MaxKey]

Sdps == [port : BOOLEAN, dir : SUBSET Both, crypto : Seq(Attrs),
         setup : {None, "actpass", "active", "passive"}]

Calls == {"idle", "offered", "incoming", "answered", "up", "closed"}

StreamRec ==
  [enc : {"none", "sdes", "dtls"}, nat : BOOLEAN, mux : BOOLEAN, natup : BOOLEAN,
   secure : BOOLEAN, raddr : BOOLEAN, ldir : SUBSET Both, tx : BOOLEAN, rx : BOOLEAN,
   rtcp : BOOLEAN, src : BOOLEAN, err : BOOLEAN, call : Calls, sd : Sdes, dt : Dtls,
   rsdp : Sdps, sent : Sessions, known : Sessions, suite : Supported \cup {None},
   peerkey : 1..MaxKey, peerrole : {None, "active", "passive"}, reinv : BOOLEAN,
   alien : BOOLEAN, refused : BOOLEAN, left : 0..MaxExchanges]

\* The attribute of an SDP that is applied: the last one.
Last(l) == l[Len(l)]

\* The a=crypto lines of a peer: one that is supported, after another or not.
Offered(l, key) ==
  /\ Len(l) \in {1, 2} /\ Last(l).suite \in Supported
  /\ Len(l) = 2 => l[1].suite = "other"
  /\ l[1].key = key /\ Last(l).key = key

Connected(x) == x.call \in {"answered", "up"}

\* What the SDP of the peer has for the encryption.
SdpContent(x) ==
  /\ x.rsdp.port /\ x.enc = "sdes" => Offered(x.rsdp.crypto, x.peerkey)
  /\ ~x.rsdp.port \/ x.enc # "sdes" => x.rsdp.crypto = <<>>
  /\ ~x.rsdp.port \/ x.enc # "dtls" => x.rsdp.setup = None

\* There is an SDP from the offer or the answer on, and the stream has the peer's
\* address from the first update on.
SdpInv(x) ==
  /\ SdpContent(x)
  /\ x.call \in {"idle", "offered"} => ~x.rsdp.port
  /\ x.call \in {"incoming", "answered", "up"} => x.rsdp.port
  /\ Connected(x) => x.raddr
  /\ x.call \in {"idle", "offered", "incoming"} => ~x.raddr

\* The struct menc_st in itself: a session is of the key that is current, and the
\* one for receiving also of the suite;
SessionsInv(x) ==
  /\ x.sd.rx \in {NoSession, Session(x.sd.suite, x.sd.key_rx)}
  /\ x.sd.tx # NoSession =>
       /\ x.sd.tx[1] \in Supported /\ x.sd.tx[2] = x.sd.key_tx
       /\ ~x.sd.changed => x.sd.tx[1] = x.sd.suite

\* the a=crypto line is that of the suite and the key; and with encryption in use
\* there are both sessions.
SdesState(x) ==
  /\ SessionsInv(x)
  /\ x.sd.on => x.sd.suite \in Supported /\ x.sd.lattr = Session(x.sd.suite, x.sd.key_tx)
  /\ ~x.sd.on => ~x.sd.use /\ x.sd.tx = NoSession /\ x.sd.rx = NoSession
  /\ x.sd.use => x.sd.tx # NoSession /\ x.sd.rx # NoSession

\* ... and with the SDP: the peer's latest attribute is applied as soon as the
\* NAT traversal permits;
SdesMedia(x) ==
  x.enc = "sdes" =>
    /\ x.call # "idle" => x.sd.on
    /\ x.tx => x.sd.use
    /\ Connected(x) /\ mnat_ready(x) =>
         /\ x.sd.use /\ x.sd.got_sdp
         /\ x.sd.suite = Last(x.rsdp.crypto).suite /\ x.sd.key_rx = x.peerkey

\* what was sent is what is in use.
SdesSdp(x) ==
  x.enc = "sdes" =>
    /\ x.call = "offered" \/ Connected(x) => x.sent[1] \in Supported
    /\ (x.call = "offered" \/ Connected(x)) /\ ~x.alien => x.sent = x.sd.lattr
    /\ Connected(x) /\ ~x.alien =>
         /\ x.sd.suite = Last(x.rsdp.crypto).suite /\ x.suite = x.sd.suite
         /\ ~x.reinv /\ ~x.refused => x.known = x.sent

\* A component of DTLS: its role is the session's until the handshake is over,
\* and its helper is installed by the first handshake.
ComponentInv(x, c) ==
  LET d == x.dt.comp[c]
  IN  /\ d.hs => d.conn # None
      /\ d.conn # None => d.sock
      /\ d.sock => c \in Used(x) /\ x.enc = "dtls" /\ mnat_ready(x)
      /\ ~x.dt.swapped /\ d.hs => (d.conn = "client" <=> x.dt.active)
      /\ ~x.dt.swapped /\ d.conn # None /\ ~d.hs =>
           /\ d.tx = (IF d.conn = "server" THEN "srv" ELSE "cli")
           /\ d.rx = (IF d.conn = "server" THEN "cli" ELSE "srv")
      /\ d.layers > 0 => d.negotiated
      /\ d.negotiated /\ d.hs => x.dt.again
      /\ ~x.dt.again => d.layers <= 1
      /\ d.negotiated => d.tx # None /\ d.sock

DtlsInv(x) ==
  /\ \A c \in Components : ComponentInv(x, c)
  /\ x.enc = "dtls" /\ x.secure =>
       (x.dt.comp["RTP"].negotiated \/ x.dt.early) /\ mnat_ready(x)
  /\ x.dt.comp["RTCP"].negotiated => x.rtcp

\* The stream is enabled when it is ready, and audio and RTCP run with it.
MediaInv(x) ==
  /\ x.tx => stream_is_ready(x) /\ Sends(x)
  /\ Connected(x) /\ ~x.err /\ stream_is_ready(x) /\ Sends(x) => x.tx
  /\ x.call = "up" /\ ~x.err =>
       /\ x.src = (stream_is_ready(x) /\ Sends(x))
       /\ stream_is_ready(x) => x.rx = Receives(x)
  /\ Connected(x) /\ stream_is_ready(x) =>
       x.rtcp \/ (x.enc = "sdes" /\ x.nat)
         \/ (x.enc = "dtls" /\ ~x.dt.comp["RTCP"].negotiated)
  /\ ~mnat_ready(x) => ~x.err

Inv(x) ==
  /\ x \in StreamRec /\ SdpInv(x) /\ SdesState(x) /\ SdesMedia(x) /\ SdesSdp(x)
  /\ DtlsInv(x) /\ MediaInv(x)
  /\ x.alien => x.nat

InvS == Inv(s)

-----------------------------------------------------------------------------
(* Flags of a stream *)

\* What neither the media nor the encryption changes.
SameCall(x, y) ==
  /\ y.enc = x.enc /\ y.nat = x.nat /\ y.mux = x.mux /\ y.natup = x.natup
  /\ y.ldir = x.ldir /\ y.rsdp = x.rsdp /\ y.sent = x.sent /\ y.known = x.known
  /\ y.suite = x.suite /\ y.peerkey = x.peerkey /\ y.peerrole = x.peerrole
  /\ y.reinv = x.reinv /\ y.alien = x.alien /\ y.refused = x.refused /\ y.left = x.left

\* What is ready depends on the SDP, the address and the two waits.
LEMMA ReadySame ==
  ASSUME NEW x, NEW y, SameCall(x, y)
  PROVE  /\ sdp_media_dir(y) = sdp_media_dir(x)
         /\ Sends(y) = Sends(x) /\ Receives(y) = Receives(x)
         /\ mnat_ready(y) = mnat_ready(x)
         /\ y.raddr = x.raddr /\ y.secure = x.secure => stream_is_ready(y) = stream_is_ready(x)
         /\ Used(y) = Used(x)
BY Zenon DEF SameCall, sdp_media_dir, Sends, Receives, mnat_ready, stream_is_ready, Used

\* Conditions are Boolean.
LEMMA Conditions ==
  ASSUME NEW x \in StreamRec
  PROVE  /\ Sends(x) \in BOOLEAN /\ Receives(x) \in BOOLEAN
         /\ mnat_ready(x) \in BOOLEAN /\ stream_is_ready(x) \in BOOLEAN
         /\ Sends(x) => sdp_media_dir(x) # {}
BY DEF StreamRec, sdp_media_dir, Sends, Receives, mnat_ready, stream_is_ready

\* The part of a stream that only the encryption and the updates change.
SameState(x, y) == y.raddr = x.raddr /\ y.err = x.err /\ y.sd = x.sd /\ y.dt = x.dt

\* From x to y only flags change.
OnlyFlags(x, y) == y \in StreamRec /\ SameCall(x, y) /\ SameState(x, y) /\ y.call = x.call

\* The flags of y.
Flags(y, secure, tx, rx, src, rtcp) ==
  y.secure = secure /\ y.tx = tx /\ y.rx = rx /\ y.src = src /\ y.rtcp = rtcp

\* All three are transitive.
LEMMA SameTrans ==
  ASSUME NEW x, NEW y, NEW z, SameCall(x, y) /\ SameCall(y, z)
  PROVE  SameCall(x, z)
BY Zenon DEF SameCall

LEMMA FlagsTrans ==
  ASSUME NEW x, NEW y, NEW z, OnlyFlags(x, y) /\ OnlyFlags(y, z)
  PROVE  OnlyFlags(x, z)
BY SameTrans, Zenon DEF OnlyFlags, SameState

\* A stream with one other flag.
LEMMA SetFlag ==
  ASSUME NEW x \in StreamRec, NEW b \in BOOLEAN, NEW y
  PROVE  /\ y = [x EXCEPT !.tx = b] =>
              OnlyFlags(x, y) /\ Flags(y, x.secure, b, x.rx, x.src, x.rtcp)
         /\ y = [x EXCEPT !.rx = b] =>
              OnlyFlags(x, y) /\ Flags(y, x.secure, x.tx, b, x.src, x.rtcp)
         /\ y = [x EXCEPT !.src = b] =>
              OnlyFlags(x, y) /\ Flags(y, x.secure, x.tx, x.rx, b, x.rtcp)
         /\ y = [x EXCEPT !.rtcp = b] =>
              OnlyFlags(x, y) /\ Flags(y, x.secure, x.tx, x.rx, x.src, b)
         /\ y = [x EXCEPT !.secure = b] =>
              OnlyFlags(x, y) /\ Flags(y, b, x.tx, x.rx, x.src, x.rtcp)
<1>1. ASSUME y = [x EXCEPT !.tx = b]
      PROVE  OnlyFlags(x, y) /\ Flags(y, x.secure, b, x.rx, x.src, x.rtcp)
  BY <1>1 DEF StreamRec, SameCall, SameState, OnlyFlags, Flags
<1>2. ASSUME y = [x EXCEPT !.rx = b]
      PROVE  OnlyFlags(x, y) /\ Flags(y, x.secure, x.tx, b, x.src, x.rtcp)
  BY <1>2 DEF StreamRec, SameCall, SameState, OnlyFlags, Flags
<1>3. ASSUME y = [x EXCEPT !.src = b]
      PROVE  OnlyFlags(x, y) /\ Flags(y, x.secure, x.tx, x.rx, b, x.rtcp)
  BY <1>3 DEF StreamRec, SameCall, SameState, OnlyFlags, Flags
<1>4. ASSUME y = [x EXCEPT !.rtcp = b]
      PROVE  OnlyFlags(x, y) /\ Flags(y, x.secure, x.tx, x.rx, x.src, b)
  BY <1>4 DEF StreamRec, SameCall, SameState, OnlyFlags, Flags
<1>5. ASSUME y = [x EXCEPT !.secure = b]
      PROVE  OnlyFlags(x, y) /\ Flags(y, b, x.tx, x.rx, x.src, x.rtcp)
  BY <1>5 DEF StreamRec, SameCall, SameState, OnlyFlags, Flags
<1> QED BY <1>1, <1>2, <1>3, <1>4, <1>5, Zenon

\* stream_enable_tx(), for a stream that is ready to send.
LEMMA EnableTx ==
  ASSUME NEW x \in StreamRec, NEW y, y = stream_enable_tx(x, TRUE)
  PROVE  /\ OnlyFlags(x, y)
         /\ Flags(y, x.secure, x.tx \/ (stream_is_ready(x) /\ Sends(x)), x.rx, x.src, x.rtcp)
<1> DEFINE b == x.tx \/ (stream_is_ready(x) /\ Sends(x))
<1>1. y = [x EXCEPT !.tx = b] /\ b \in BOOLEAN
  BY Zenon DEF stream_enable_tx
<1> HIDE DEF b
<1>2. OnlyFlags(x, y) /\ Flags(y, x.secure, b, x.rx, x.src, x.rtcp)
  BY <1>1, SetFlag, ZenonT(30)
<1> QED BY <1>2, ZenonT(30) DEF b

\* stream_enable(): both directions.
LEMMA Enable ==
  ASSUME NEW x \in StreamRec, NEW y, y = stream_enable(x, TRUE)
  PROVE  /\ OnlyFlags(x, y)
         /\ Flags(y, x.secure, x.tx \/ (stream_is_ready(x) /\ Sends(x)), x.rx \/ Receives(x),
                  x.src, x.rtcp)
<1> DEFINE b == x.rx \/ Receives(x)
           a == [x EXCEPT !.rx = b]
<1>1. y = stream_enable_tx(a, TRUE) /\ b \in BOOLEAN
  BY Zenon DEF stream_enable, stream_enable_rx
<1> HIDE DEF b
<1>2. OnlyFlags(x, a) /\ Flags(a, x.secure, x.tx, b, x.src, x.rtcp)
  BY <1>1, SetFlag, Zenon
<1> HIDE DEF a
<1>3. /\ OnlyFlags(a, y)
      /\ Flags(y, a.secure, a.tx \/ (stream_is_ready(a) /\ Sends(a)), a.rx, a.src, a.rtcp)
  BY <1>1, <1>2, EnableTx, ZenonT(30) DEF OnlyFlags
<1>4. stream_is_ready(a) = stream_is_ready(x) /\ Sends(a) = Sends(x)
  BY <1>2, ReadySame, Zenon DEF OnlyFlags, SameState, Flags
<1>5. OnlyFlags(x, y)
  BY <1>2, <1>3, FlagsTrans, ZenonT(30)
<1> QED BY <1>2, <1>3, <1>4, <1>5, ZenonT(30) DEF Flags, b

LEMMA Disable ==
  ASSUME NEW x \in StreamRec, NEW y, y = stream_enable(x, FALSE)
  PROVE  OnlyFlags(x, y) /\ Flags(y, x.secure, FALSE, FALSE, x.src, x.rtcp)
<1> DEFINE a == [x EXCEPT !.rx = FALSE]
<1>1. y = [a EXCEPT !.tx = FALSE]
  BY Zenon DEF stream_enable, stream_enable_rx, stream_enable_tx
<1>2. OnlyFlags(x, a) /\ Flags(a, x.secure, x.tx, FALSE, x.src, x.rtcp)
  BY SetFlag, ZenonT(30)
<1> HIDE DEF a
<1>3. OnlyFlags(a, y) /\ Flags(y, a.secure, FALSE, a.rx, a.src, a.rtcp)
  BY <1>1, <1>2, SetFlag, ZenonT(30) DEF OnlyFlags
<1>4. OnlyFlags(x, y)
  BY <1>2, <1>3, FlagsTrans, ZenonT(30)
<1> QED BY <1>2, <1>3, <1>4, ZenonT(30) DEF Flags

\* audio_stop() stops the source and the receiver.
LEMMA AudioStop ==
  ASSUME NEW x \in StreamRec, NEW y, y = audio_stop(x)
  PROVE  OnlyFlags(x, y) /\ Flags(y, x.secure, x.tx, FALSE, FALSE, x.rtcp)
<1> DEFINE a == [x EXCEPT !.rx = FALSE]
<1>1. y = [a EXCEPT !.src = FALSE]
  BY Zenon DEF audio_stop, stream_enable_rx
<1>2. OnlyFlags(x, a) /\ Flags(a, x.secure, x.tx, FALSE, x.src, x.rtcp)
  BY SetFlag, ZenonT(30)
<1> HIDE DEF a
<1>3. OnlyFlags(a, y) /\ Flags(y, a.secure, a.tx, a.rx, FALSE, a.rtcp)
  BY <1>1, <1>2, SetFlag, ZenonT(30) DEF OnlyFlags
<1>4. OnlyFlags(x, y)
  BY <1>2, <1>3, FlagsTrans, Zenon
<1> QED BY <1>2, <1>3, <1>4, Zenon DEF Flags

\* audio_update() lets both follow the direction.
LEMMA AudioUpdate ==
  ASSUME NEW x \in StreamRec, NEW y, y = audio_update(x)
  PROVE  /\ OnlyFlags(x, y)
         /\ x.rsdp.port => Flags(y, x.secure, x.tx, Receives(x), Sends(x), x.rtcp)
         /\ ~x.rsdp.port => Flags(y, x.secure, x.tx, FALSE, FALSE, x.rtcp)
<1>1. CASE ~x.rsdp.port
  BY <1>1, AudioStop, ZenonT(30) DEF audio_update
<1>2. CASE x.rsdp.port
  <2> DEFINE b == Receives(x)
             a == [x EXCEPT !.rx = b]
             d == Sends(x)
  <2>1. b \in BOOLEAN /\ d \in BOOLEAN /\ stream_enable_rx(x, b) = a
    <3>1. x.rx \in BOOLEAN /\ b \in BOOLEAN /\ d \in BOOLEAN
      BY Conditions, Zenon DEF StreamRec
    <3>2. CASE b
      BY <3>1, <3>2, Zenon DEF stream_enable_rx
    <3>3. CASE ~b
      BY <3>1, <3>3, Zenon DEF stream_enable_rx
    <3> QED BY <3>1, <3>2, <3>3, Zenon
  <2>2. y = [a EXCEPT !.src = d]
    BY <1>2, <2>1, Zenon DEF audio_update
  <2> HIDE DEF b, d
  <2>3. OnlyFlags(x, a) /\ Flags(a, x.secure, x.tx, b, x.src, x.rtcp)
    BY <2>1, SetFlag, Zenon
  <2> HIDE DEF a
  <2>4. OnlyFlags(a, y) /\ Flags(y, a.secure, a.tx, a.rx, d, a.rtcp)
    BY <2>1, <2>2, <2>3, SetFlag, Zenon DEF OnlyFlags
  <2>5. OnlyFlags(x, y)
    BY <2>3, <2>4, FlagsTrans, Zenon
  <2> QED BY <1>2, <2>3, <2>4, <2>5, Zenon DEF Flags, b, d
<1> QED BY <1>1, <1>2, ZenonT(30)

\* stream_start_rtcp()
LEMMA StartRtcp ==
  ASSUME NEW x \in StreamRec, NEW y, y = stream_start_rtcp(x)
  PROVE  OnlyFlags(x, y) /\ Flags(y, x.secure, x.tx, x.rx, x.src, TRUE)
BY SetFlag, ZenonT(30) DEF stream_start_rtcp

\* MENC_EVENT_SECURE: the stream is secure, sends if it is ready, and audio runs.
LEMMA SecureEvent ==
  ASSUME NEW x \in StreamRec, x.rsdp.port, NEW c \in Components, NEW y,
         y = menc_event_handler(x, c)
  PROVE  /\ OnlyFlags(x, y)
         /\ Flags(y, TRUE, x.tx \/ (stream_is_ready(y) /\ Sends(y)), Receives(y), Sends(y),
                  x.rtcp \/ c = "RTCP")
<1> DEFINE a == [x EXCEPT !.secure = TRUE]
           b == stream_enable_tx(a, TRUE)
           d == IF c = "RTCP" THEN stream_start_rtcp(b) ELSE b
<1>1. y = audio_update(d)
  BY Zenon DEF menc_event_handler, stream_set_secure
<1>2. OnlyFlags(x, a) /\ Flags(a, TRUE, x.tx, x.rx, x.src, x.rtcp)
  BY SetFlag, ZenonT(30)
<1> HIDE DEF a
<1>3. /\ OnlyFlags(a, b)
      /\ Flags(b, a.secure, a.tx \/ (stream_is_ready(a) /\ Sends(a)), a.rx, a.src, a.rtcp)
  BY <1>2, EnableTx, ZenonT(30) DEF OnlyFlags
<1> HIDE DEF b
<1>4. OnlyFlags(b, d) /\ Flags(d, b.secure, b.tx, b.rx, b.src, b.rtcp \/ c = "RTCP")
  <2>1. CASE c = "RTCP"
    BY <1>3, <2>1, StartRtcp, ZenonT(30) DEF OnlyFlags, Flags
  <2>2. CASE c # "RTCP"
    <3>1. d = b /\ b.rtcp \in BOOLEAN
      BY <1>3, <2>2, Zenon DEF StreamRec, OnlyFlags
    <3>2. OnlyFlags(b, d)
      BY <1>3, <3>1, Zenon DEF OnlyFlags, SameCall, SameState
    <3>3. QED BY <2>2, <3>1, <3>2, Zenon DEF Flags
  <2> QED BY <2>1, <2>2, Zenon
<1> HIDE DEF d
<1>5. OnlyFlags(x, d) /\ OnlyFlags(a, d)
  BY <1>2, <1>3, <1>4, FlagsTrans, Zenon
<1>6. d \in StreamRec /\ d.rsdp.port
  BY <1>5, Zenon DEF OnlyFlags, SameCall
<1>7. OnlyFlags(d, y) /\ Flags(y, d.secure, d.tx, Receives(d), Sends(d), d.rtcp)
  BY <1>1, <1>6, AudioUpdate, ZenonT(30)
<1>8. OnlyFlags(x, y) /\ OnlyFlags(a, y)
  BY <1>5, <1>7, FlagsTrans, Zenon
<1>9. y.secure = a.secure
  BY <1>3, <1>4, <1>7, Zenon DEF Flags
<1>10. stream_is_ready(y) = stream_is_ready(a) /\ Sends(y) = Sends(a)
  BY <1>8, <1>9, ReadySame, Zenon DEF OnlyFlags, SameState
<1>11. Sends(y) = Sends(d) /\ Receives(y) = Receives(d)
  BY <1>7, ReadySame, Zenon DEF OnlyFlags
<1> QED BY <1>2, <1>3, <1>4, <1>7, <1>8, <1>10, <1>11, Zenon DEF Flags

\* menc_error_handler(): the call is closed, and audio stopped.
LEMMA ErrorEvent ==
  ASSUME NEW x \in StreamRec, NEW y, y = menc_error_handler(x)
  PROVE  /\ y \in StreamRec /\ SameCall(x, y) /\ SameState(x, y) /\ y.call = "closed"
         /\ y.secure = x.secure /\ y.tx = x.tx /\ y.rtcp = x.rtcp
<1> DEFINE a == audio_stop(x)
<1>1. OnlyFlags(x, a) /\ Flags(a, x.secure, x.tx, FALSE, FALSE, x.rtcp)
  BY AudioStop, ZenonT(30)
<1>2. y = [a EXCEPT !.call = "closed"]
  BY Zenon DEF menc_error_handler
<1> HIDE DEF a
<1>3. y \in StreamRec /\ y.call = "closed" /\ SameState(a, y)
      /\ y.secure = a.secure /\ y.tx = a.tx /\ y.rtcp = a.rtcp
  BY <1>1, <1>2 DEF StreamRec, Calls, OnlyFlags, SameState
<1>4. SameCall(a, y)
  BY <1>1, <1>2 DEF StreamRec, OnlyFlags, SameCall
<1>5. SameCall(x, y)
  BY <1>1, <1>4, SameTrans, Zenon DEF OnlyFlags
<1> QED BY <1>1, <1>3, <1>5, Zenon DEF OnlyFlags, SameState, Flags

-----------------------------------------------------------------------------
(* The struct dtls_srtp *)

\* Only the struct dtls_srtp and the error change from x to y.
OnlyDtls(x, y) ==
  /\ y \in StreamRec /\ SameCall(x, y) /\ y.call = x.call /\ y.raddr = x.raddr
  /\ y.sd = x.sd /\ Flags(y, x.secure, x.tx, x.rx, x.src, x.rtcp)

LEMMA DtlsTrans ==
  ASSUME NEW x, NEW y, NEW z, OnlyDtls(x, y) /\ OnlyDtls(y, z)
  PROVE  OnlyDtls(x, z)
BY SameTrans, Zenon DEF OnlyDtls, Flags

\* A stream with another struct dtls_srtp, and an error or none.
LEMMA SetDtls ==
  ASSUME NEW x \in StreamRec, NEW d \in Dtls, NEW y, y = [x EXCEPT !.dt = d]
  PROVE  OnlyDtls(x, y) /\ y.dt = d /\ y.err = x.err
<1>1. y \in StreamRec /\ y.dt = d
  BY DEF StreamRec
<1>2. SameCall(x, y)
  BY ZenonT(30) DEF StreamRec, SameCall
<1>3. /\ y.call = x.call /\ y.raddr = x.raddr /\ y.err = x.err /\ y.sd = x.sd
      /\ Flags(y, x.secure, x.tx, x.rx, x.src, x.rtcp)
  BY Zenon DEF StreamRec, Flags
<1> QED BY <1>1, <1>2, <1>3, Zenon DEF OnlyDtls

LEMMA SetErr ==
  ASSUME NEW x \in StreamRec, NEW b \in BOOLEAN, NEW y, y = [x EXCEPT !.err = b]
  PROVE  OnlyDtls(x, y) /\ y.dt = x.dt /\ y.err = b
<1>1. y \in StreamRec /\ y.err = b
  BY DEF StreamRec
<1>2. SameCall(x, y)
  BY Zenon DEF StreamRec, SameCall
<1>3. /\ y.call = x.call /\ y.raddr = x.raddr /\ y.dt = x.dt /\ y.sd = x.sd
      /\ Flags(y, x.secure, x.tx, x.rx, x.src, x.rtcp)
  BY Zenon DEF StreamRec, Flags
<1> QED BY <1>1, <1>2, <1>3, Zenon DEF OnlyDtls

\* The rest of the struct dtls_srtp.
SameRole(x, y) ==
  /\ y.dt.active = x.dt.active /\ y.dt.swapped = x.dt.swapped /\ y.dt.again = x.dt.again
  /\ y.dt.early = x.dt.early

\* A stream with another component.
SetComp(x, c, k) == [x EXCEPT !.dt.comp[c] = k]

LEMMA SetComponent ==
  ASSUME NEW x \in StreamRec, NEW c \in Components, NEW k \in ComponentRec
  PROVE  /\ OnlyDtls(x, SetComp(x, c, k)) /\ SetComp(x, c, k).err = x.err
         /\ SameRole(x, SetComp(x, c, k)) /\ SetComp(x, c, k).dt.comp[c] = k
         /\ \A e \in Components : e # c => SetComp(x, c, k).dt.comp[e] = x.dt.comp[e]
<1> DEFINE y == SetComp(x, c, k)
<1> DEFINE f == [x.dt.comp EXCEPT ![c] = k]
           d == [x.dt EXCEPT !.comp = f]
<1>1. x.dt \in Dtls /\ x.dt.comp \in [Components -> ComponentRec]
  BY Zenon DEF StreamRec, Dtls
<1>2. /\ f \in [Components -> ComponentRec]
      /\ f[c] = k /\ \A e \in Components : e # c => f[e] = x.dt.comp[e]
  BY <1>1, Zenon
<1>3. y = [x EXCEPT !.dt = d]
  BY Zenon DEF SetComp
<1> HIDE DEF f, y
<1>4. /\ d \in Dtls /\ d.comp = f /\ d.active = x.dt.active /\ d.swapped = x.dt.swapped
      /\ d.again = x.dt.again /\ d.early = x.dt.early
  <2>1. d \in Dtls
    BY <1>1, <1>2, Zenon DEF Dtls
  <2>2. /\ d.comp = f /\ d.active = x.dt.active /\ d.swapped = x.dt.swapped
        /\ d.again = x.dt.again /\ d.early = x.dt.early
    BY <1>1, Zenon DEF Dtls
  <2> QED BY <2>1, <2>2, Zenon
<1> HIDE DEF d
<1>5. OnlyDtls(x, y) /\ y.dt = d /\ y.err = x.err
  BY <1>3, <1>4, SetDtls, Zenon
<1>6. OnlyDtls(x, y) /\ y.err = x.err /\ SameRole(x, y) /\ y.dt.comp[c] = k
      /\ \A e \in Components : e # c => y.dt.comp[e] = x.dt.comp[e]
  BY <1>2, <1>4, <1>5, Zenon DEF SameRole
<1> QED BY <1>6, Zenon DEF y

\* The same, of a stream that has a name.
LEMMA ComponentSet ==
  ASSUME NEW x \in StreamRec, NEW c \in Components, NEW k \in ComponentRec,
         NEW y, y = SetComp(x, c, k)
  PROVE  /\ OnlyDtls(x, y) /\ y.err = x.err /\ SameRole(x, y)
         /\ y.dt.comp[c] = k /\ \A e \in Components : e # c => y.dt.comp[e] = x.dt.comp[e]
BY SetComponent

\* All components.
ComponentsInv(x) == \A c \in Components : ComponentInv(x, c)

\* A component that does not change is as good as before.
LEMMA ComponentKept ==
  ASSUME NEW x, NEW y, NEW c, ComponentInv(x, c), SameCall(x, y), SameRole(x, y),
         y.dt.comp[c] = x.dt.comp[c]
  PROVE  ComponentInv(y, c)
<1>1. Used(y) = Used(x) /\ mnat_ready(y) = mnat_ready(x)
  BY ReadySame, Zenon
<1>2. y.enc = x.enc /\ y.dt.active = x.dt.active /\ y.dt.swapped = x.dt.swapped
      /\ y.dt.again = x.dt.again
  BY Zenon DEF SameCall, SameRole
<1> QED BY <1>1, <1>2, ZenonT(30) DEF ComponentInv

\* A connection is opened.
Opened(x, c, v) == [x EXCEPT !.dt.comp[c].conn = v, !.dt.comp[c].hs = TRUE]
Open(x, c, v) == [x.dt.comp[c] EXCEPT !.conn = v, !.hs = TRUE]

LEMMA OpenComponent ==
  ASSUME NEW x \in StreamRec, NEW c \in Components, NEW v \in {"client", "server"},
         NEW k, k = Open(x, c, v)
  PROVE  /\ k \in ComponentRec /\ k.conn = v /\ k.hs /\ k.sock = x.dt.comp[c].sock
         /\ k.negotiated = x.dt.comp[c].negotiated /\ k.tx = x.dt.comp[c].tx
         /\ k.rx = x.dt.comp[c].rx /\ k.layers = x.dt.comp[c].layers
         /\ Opened(x, c, v) = SetComp(x, c, k)
<1>1. x.dt \in Dtls /\ x.dt.comp \in [Components -> ComponentRec] /\ x.dt.comp[c] \in ComponentRec
  BY Zenon DEF StreamRec, Dtls
<1>2. /\ k \in ComponentRec /\ k.conn = v /\ k.hs /\ k.sock = x.dt.comp[c].sock
      /\ k.negotiated = x.dt.comp[c].negotiated /\ k.tx = x.dt.comp[c].tx
      /\ k.rx = x.dt.comp[c].rx /\ k.layers = x.dt.comp[c].layers
  BY <1>1, ZenonT(30) DEF ComponentRec, Open
<1> DEFINE k1 == [x.dt.comp[c] EXCEPT !.conn = v]
           a == [x EXCEPT !.dt.comp[c] = k1]
<1>3. a.dt.comp[c] = k1 /\ [a EXCEPT !.dt.comp[c] = [k1 EXCEPT !.hs = TRUE]] = SetComp(x, c, k)
  <2>1. k = [k1 EXCEPT !.hs = TRUE]
    BY Zenon DEF Open
  <2> HIDE DEF k1
  <2>2. a.dt.comp = [x.dt.comp EXCEPT ![c] = k1]
    BY <1>1, Zenon DEF StreamRec, Dtls
  <2>3. a.dt.comp[c] = k1
    BY <1>1, <2>2, Zenon
  <2>4. [a.dt.comp EXCEPT ![c] = k] = [x.dt.comp EXCEPT ![c] = k]
    BY <1>1, <2>2, Zenon
  <2>5. [a.dt EXCEPT !.comp = [x.dt.comp EXCEPT ![c] = k]] = [x.dt EXCEPT !.comp = [x.dt.comp EXCEPT ![c] = k]]
    BY <1>1, ZenonT(30) DEF StreamRec, Dtls
  <2>6. [a EXCEPT !.dt = [x.dt EXCEPT !.comp = [x.dt.comp EXCEPT ![c] = k]]]
         = [x EXCEPT !.dt = [x.dt EXCEPT !.comp = [x.dt.comp EXCEPT ![c] = k]]]
    BY ZenonT(30) DEF StreamRec
  <2> QED BY <2>1, <2>3, <2>4, <2>5, <2>6, ZenonT(30) DEF SetComp
<1> QED BY <1>2, <1>3, ZenonT(30) DEF Opened

\* The peer connects.
LEMMA OpenServer ==
  ASSUME NEW x \in StreamRec, NEW c \in Components, NEW k, k = Open(x, c, "server"),
         NEW a, a = Opened(x, c, "server")
  PROVE  /\ k \in ComponentRec /\ k.conn = "server" /\ k.hs /\ k.sock = x.dt.comp[c].sock
         /\ k.negotiated = x.dt.comp[c].negotiated /\ k.tx = x.dt.comp[c].tx
         /\ k.rx = x.dt.comp[c].rx /\ k.layers = x.dt.comp[c].layers
         /\ a = SetComp(x, c, k)
<1> DEFINE v == "server"
<1>1. v \in {"client", "server"} /\ k = Open(x, c, v) /\ a = Opened(x, c, v)
  BY Zenon
<1>2. v = "server"
  BY Zenon
<1> HIDE DEF v
<1>3. /\ k \in ComponentRec /\ k.conn = v /\ k.hs /\ k.sock = x.dt.comp[c].sock
      /\ k.negotiated = x.dt.comp[c].negotiated /\ k.tx = x.dt.comp[c].tx
      /\ k.rx = x.dt.comp[c].rx /\ k.layers = x.dt.comp[c].layers
      /\ Opened(x, c, v) = SetComp(x, c, k)
  BY <1>1, OpenComponent
<1> QED BY <1>1, <1>2, <1>3, Zenon

\* We connect.
AsClient(x, c, k, a) ==
  /\ k \in ComponentRec /\ k.conn = "client" /\ k.hs /\ k.sock = x.dt.comp[c].sock
  /\ k.negotiated = x.dt.comp[c].negotiated /\ k.tx = x.dt.comp[c].tx
  /\ k.rx = x.dt.comp[c].rx /\ k.layers = x.dt.comp[c].layers
  /\ a = SetComp(x, c, k)

LEMMA OpenClient ==
  ASSUME NEW x \in StreamRec, NEW c \in Components, NEW k, k = Open(x, c, "client"),
         NEW a, a = Opened(x, c, "client")
  PROVE  AsClient(x, c, k, a)
<1> DEFINE v == "client"
<1>1. v \in {"client", "server"} /\ k = Open(x, c, v) /\ a = Opened(x, c, v)
  BY Zenon
<1>2. v = "client"
  BY Zenon
<1> HIDE DEF v
<1>3. /\ k \in ComponentRec /\ k.conn = v /\ k.hs /\ k.sock = x.dt.comp[c].sock
      /\ k.negotiated = x.dt.comp[c].negotiated /\ k.tx = x.dt.comp[c].tx
      /\ k.rx = x.dt.comp[c].rx /\ k.layers = x.dt.comp[c].layers
      /\ Opened(x, c, v) = SetComp(x, c, k)
  BY <1>1, OpenComponent
<1> QED BY <1>1, <1>2, <1>3, ZenonT(30) DEF AsClient

\* A connection is closed.
Closed(x, c) == [x EXCEPT !.dt.comp[c].conn = None, !.dt.comp[c].hs = FALSE]
Close(x, c) == [x.dt.comp[c] EXCEPT !.conn = None, !.hs = FALSE]

LEMMA CloseComponent ==
  ASSUME NEW x \in StreamRec, NEW c \in Components, NEW k, k = Close(x, c)
  PROVE  /\ k \in ComponentRec /\ k.conn = None /\ ~k.hs /\ k.sock = x.dt.comp[c].sock
         /\ k.negotiated = x.dt.comp[c].negotiated /\ k.tx = x.dt.comp[c].tx
         /\ k.rx = x.dt.comp[c].rx /\ k.layers = x.dt.comp[c].layers
         /\ Closed(x, c) = SetComp(x, c, k)
<1>1. x.dt \in Dtls /\ x.dt.comp \in [Components -> ComponentRec] /\ x.dt.comp[c] \in ComponentRec
  BY Zenon DEF StreamRec, Dtls
<1>2. /\ k \in ComponentRec /\ k.conn = None /\ ~k.hs /\ k.sock = x.dt.comp[c].sock
      /\ k.negotiated = x.dt.comp[c].negotiated /\ k.tx = x.dt.comp[c].tx
      /\ k.rx = x.dt.comp[c].rx /\ k.layers = x.dt.comp[c].layers
  BY <1>1, ZenonT(30) DEF ComponentRec, Close
<1> DEFINE k1 == [x.dt.comp[c] EXCEPT !.conn = None]
           a == [x EXCEPT !.dt.comp[c] = k1]
<1>3. a.dt.comp[c] = k1 /\ [a EXCEPT !.dt.comp[c] = [k1 EXCEPT !.hs = FALSE]] = SetComp(x, c, k)
  <2>1. k = [k1 EXCEPT !.hs = FALSE]
    BY Zenon DEF Close
  <2> HIDE DEF k1
  <2>2. a.dt.comp = [x.dt.comp EXCEPT ![c] = k1]
    BY <1>1, Zenon DEF StreamRec, Dtls
  <2>3. a.dt.comp[c] = k1
    BY <1>1, <2>2, Zenon
  <2>4. [a.dt.comp EXCEPT ![c] = k] = [x.dt.comp EXCEPT ![c] = k]
    BY <1>1, <2>2, Zenon
  <2>5. [a.dt EXCEPT !.comp = [x.dt.comp EXCEPT ![c] = k]] = [x.dt EXCEPT !.comp = [x.dt.comp EXCEPT ![c] = k]]
    BY <1>1, ZenonT(30) DEF StreamRec, Dtls
  <2>6. [a EXCEPT !.dt = [x.dt EXCEPT !.comp = [x.dt.comp EXCEPT ![c] = k]]]
         = [x EXCEPT !.dt = [x.dt EXCEPT !.comp = [x.dt.comp EXCEPT ![c] = k]]]
    BY ZenonT(30) DEF StreamRec
  <2> QED BY <2>1, <2>3, <2>4, <2>5, <2>6, ZenonT(30) DEF SetComp
<1> QED BY <1>2, <1>3, ZenonT(30) DEF Closed

\* The components are those of x.
LEMMA ComponentsKept ==
  ASSUME NEW x, NEW y, ComponentsInv(x), SameCall(x, y), SameRole(x, y),
         y.dt.comp = x.dt.comp
  PROVE  ComponentsInv(y)
BY ComponentKept, Zenon DEF ComponentsInv

\* The components and the flag secure after a step that keeps both.
LEMMA DtlsKept ==
  ASSUME NEW x, NEW y, DtlsInv(x), SameCall(x, y), y.dt = x.dt,
         y.enc = "dtls" => y.secure = x.secure, x.rtcp => y.rtcp
  PROVE  DtlsInv(y)
<1>1. mnat_ready(y) = mnat_ready(x) /\ y.enc = x.enc
  BY ReadySame, Zenon DEF SameCall
<1>2. SameRole(x, y)
  BY Zenon DEF SameRole
<1>3. ComponentsInv(x)
  BY Zenon DEF DtlsInv, ComponentsInv
<1>4. ComponentsInv(y)
  BY <1>2, <1>3, ComponentsKept, Zenon
<1> QED BY <1>1, <1>4, Zenon DEF DtlsInv, ComponentsInv

\* The keys after a step that leaves them alone.
LEMMA SdesKept ==
  ASSUME NEW x, NEW y, SdesState(x), y.sd = x.sd
  PROVE  SdesState(y)
BY Zenon DEF SdesState, SessionsInv

-----------------------------------------------------------------------------
(* The exchange of SDP *)

\* What the exchange of SDP does not change.
SameStream(x, y) ==
  /\ y.enc = x.enc /\ y.nat = x.nat /\ y.mux = x.mux /\ y.natup = x.natup
  /\ y.raddr = x.raddr /\ y.ldir = x.ldir /\ y.rsdp = x.rsdp /\ y.peerkey = x.peerkey
  /\ y.err = x.err /\ y.sd = x.sd /\ y.dt = x.dt
  /\ Flags(y, x.secure, x.tx, x.rx, x.src, x.rtcp)

LEMMA StreamSame ==
  ASSUME NEW x, NEW y, SameStream(x, y)
  PROVE  /\ sdp_media_dir(y) = sdp_media_dir(x)
         /\ Sends(y) = Sends(x) /\ Receives(y) = Receives(x) /\ mnat_ready(y) = mnat_ready(x)
         /\ stream_is_ready(y) = stream_is_ready(x) /\ Used(y) = Used(x)
BY Zenon DEF SameStream, Flags, sdp_media_dir, Sends, Receives, mnat_ready, stream_is_ready, Used

\* The invariants of the keys and of DTLS depend on the stream only.
LEMMA StreamKept ==
  ASSUME NEW x, NEW y, SameStream(x, y), SdesState(x), DtlsInv(x)
  PROVE  SdesState(y) /\ DtlsInv(y)
<1>1. y.sd = x.sd /\ y.dt = x.dt /\ y.enc = x.enc /\ y.secure = x.secure /\ y.rtcp = x.rtcp
  BY Zenon DEF SameStream, Flags
<1>2. mnat_ready(y) = mnat_ready(x) /\ Used(y) = Used(x)
  BY StreamSame, Zenon
<1>3. ASSUME NEW c \in Components
      PROVE  ComponentInv(y, c)
  BY <1>1, <1>2 DEF DtlsInv, ComponentInv
<1> QED BY <1>1, <1>2, <1>3, SdesKept, Zenon DEF DtlsInv

\* What the invariant says of a stream, without the SDP that was sent.
StreamInv(x) ==
  x \in StreamRec /\ SdpInv(x) /\ SdesState(x) /\ SdesMedia(x) /\ DtlsInv(x) /\ MediaInv(x)

\* The exchange alone does not disturb the stream.
LEMMA StreamInvKept ==
  ASSUME NEW x, StreamInv(x), NEW y \in StreamRec, SameStream(x, y), y.call = x.call
  PROVE  StreamInv(y)
<1>1. SdesState(y) /\ DtlsInv(y)
  BY StreamKept, Zenon DEF StreamInv
<1>2. /\ Sends(y) = Sends(x) /\ Receives(y) = Receives(x) /\ mnat_ready(y) = mnat_ready(x)
      /\ stream_is_ready(y) = stream_is_ready(x)
  BY StreamSame, Zenon
<1>3. /\ y.enc = x.enc /\ y.nat = x.nat /\ y.raddr = x.raddr /\ y.rsdp = x.rsdp
      /\ y.peerkey = x.peerkey /\ y.err = x.err /\ y.sd = x.sd /\ y.dt = x.dt
      /\ y.tx = x.tx /\ y.rx = x.rx /\ y.src = x.src /\ y.rtcp = x.rtcp
  BY Zenon DEF SameStream, Flags
<1>4. SdpInv(y)
  BY <1>3, Zenon DEF StreamInv, SdpInv, SdpContent, Connected
<1>5. SdesMedia(y)
  BY <1>2, <1>3, Zenon DEF StreamInv, SdesMedia, Connected
<1>6. MediaInv(y)
  BY <1>2, <1>3, ZenonT(30) DEF StreamInv, MediaInv, Connected
<1> QED BY <1>1, <1>4, <1>5, <1>6, Zenon DEF StreamInv

\* The state of the exchange.
Exchange(y, sent, known, suite, reinv, alien, refused, left, call) ==
  /\ y.sent = sent /\ y.known = known /\ y.suite = suite /\ y.reinv = reinv
  /\ y.alien = alien /\ y.refused = refused /\ y.left = left /\ y.call = call

\* From x to y only the exchange changes.
OnlyExchange(x, y) == y \in StreamRec /\ SameStream(x, y)

LEMMA ExchangeTrans ==
  ASSUME NEW x, NEW y, NEW z, OnlyExchange(x, y) /\ OnlyExchange(y, z)
  PROVE  OnlyExchange(x, z)
BY Zenon DEF OnlyExchange, SameStream, Flags

\* A stream with another field of the exchange.
LEMMA SetExchange ==
  ASSUME NEW x \in StreamRec, NEW y, NEW v
  PROVE
    /\ v \in Sessions /\ y = [x EXCEPT !.sent = v] =>
         /\ OnlyExchange(x, y)
         /\ Exchange(y, v, x.known, x.suite, x.reinv, x.alien, x.refused, x.left, x.call)
    /\ v \in Sessions /\ y = [x EXCEPT !.known = v] =>
         /\ OnlyExchange(x, y)
         /\ Exchange(y, x.sent, v, x.suite, x.reinv, x.alien, x.refused, x.left, x.call)
    /\ v \in Supported \cup {None} /\ y = [x EXCEPT !.suite = v] =>
         /\ OnlyExchange(x, y)
         /\ Exchange(y, x.sent, x.known, v, x.reinv, x.alien, x.refused, x.left, x.call)
    /\ v \in BOOLEAN /\ y = [x EXCEPT !.reinv = v] =>
         /\ OnlyExchange(x, y)
         /\ Exchange(y, x.sent, x.known, x.suite, v, x.alien, x.refused, x.left, x.call)
    /\ v \in BOOLEAN /\ y = [x EXCEPT !.alien = v] =>
         /\ OnlyExchange(x, y)
         /\ Exchange(y, x.sent, x.known, x.suite, x.reinv, v, x.refused, x.left, x.call)
    /\ v \in BOOLEAN /\ y = [x EXCEPT !.refused = v] =>
         /\ OnlyExchange(x, y)
         /\ Exchange(y, x.sent, x.known, x.suite, x.reinv, x.alien, v, x.left, x.call)
    /\ v \in 0..MaxExchanges /\ y = [x EXCEPT !.left = v] =>
         /\ OnlyExchange(x, y)
         /\ Exchange(y, x.sent, x.known, x.suite, x.reinv, x.alien, x.refused, v, x.call)
    /\ v \in Calls /\ y = [x EXCEPT !.call = v] =>
         /\ OnlyExchange(x, y)
         /\ Exchange(y, x.sent, x.known, x.suite, x.reinv, x.alien, x.refused, x.left, v)
<1>1. ASSUME v \in Sessions, y = [x EXCEPT !.sent = v]
      PROVE  /\ OnlyExchange(x, y)
             /\ Exchange(y, v, x.known, x.suite, x.reinv, x.alien, x.refused, x.left, x.call)
  <2>1. y \in StreamRec
    BY <1>1 DEF StreamRec
  <2>2. SameStream(x, y)
    BY <1>1, ZenonT(30) DEF StreamRec, SameStream, Flags
  <2> QED BY <1>1, <2>1, <2>2 DEF StreamRec, OnlyExchange, Exchange
<1>2. ASSUME v \in Sessions, y = [x EXCEPT !.known = v]
      PROVE  /\ OnlyExchange(x, y)
             /\ Exchange(y, x.sent, v, x.suite, x.reinv, x.alien, x.refused, x.left, x.call)
  <2>1. y \in StreamRec
    BY <1>2 DEF StreamRec
  <2>2. SameStream(x, y)
    BY <1>2, Zenon DEF StreamRec, SameStream, Flags
  <2> QED BY <1>2, <2>1, <2>2 DEF StreamRec, OnlyExchange, Exchange
<1>3. ASSUME v \in Supported \cup {None}, y = [x EXCEPT !.suite = v]
      PROVE  /\ OnlyExchange(x, y)
             /\ Exchange(y, x.sent, x.known, v, x.reinv, x.alien, x.refused, x.left, x.call)
  <2>1. y \in StreamRec
    BY <1>3 DEF StreamRec
  <2>2. SameStream(x, y)
    BY <1>3, ZenonT(30) DEF StreamRec, SameStream, Flags
  <2> QED BY <1>3, <2>1, <2>2 DEF StreamRec, OnlyExchange, Exchange
<1>4. ASSUME v \in BOOLEAN, y = [x EXCEPT !.reinv = v]
      PROVE  /\ OnlyExchange(x, y)
             /\ Exchange(y, x.sent, x.known, x.suite, v, x.alien, x.refused, x.left, x.call)
  <2>1. y \in StreamRec
    BY <1>4 DEF StreamRec
  <2>2. SameStream(x, y)
    BY <1>4, ZenonT(30) DEF StreamRec, SameStream, Flags
  <2> QED BY <1>4, <2>1, <2>2 DEF StreamRec, OnlyExchange, Exchange
<1>5. ASSUME v \in BOOLEAN, y = [x EXCEPT !.alien = v]
      PROVE  /\ OnlyExchange(x, y)
             /\ Exchange(y, x.sent, x.known, x.suite, x.reinv, v, x.refused, x.left, x.call)
  <2>1. y \in StreamRec
    BY <1>5 DEF StreamRec
  <2>2. SameStream(x, y)
    BY <1>5, Zenon DEF StreamRec, SameStream, Flags
  <2> QED BY <1>5, <2>1, <2>2 DEF StreamRec, OnlyExchange, Exchange
<1>6. ASSUME v \in BOOLEAN, y = [x EXCEPT !.refused = v]
      PROVE  /\ OnlyExchange(x, y)
             /\ Exchange(y, x.sent, x.known, x.suite, x.reinv, x.alien, v, x.left, x.call)
  <2>1. y \in StreamRec
    BY <1>6 DEF StreamRec
  <2>2. SameStream(x, y)
    BY <1>6, Zenon DEF StreamRec, SameStream, Flags
  <2> QED BY <1>6, <2>1, <2>2 DEF StreamRec, OnlyExchange, Exchange
<1>7. ASSUME v \in 0..MaxExchanges, y = [x EXCEPT !.left = v]
      PROVE  /\ OnlyExchange(x, y)
             /\ Exchange(y, x.sent, x.known, x.suite, x.reinv, x.alien, x.refused, v, x.call)
  <2>1. y \in StreamRec
    BY <1>7 DEF StreamRec
  <2>2. SameStream(x, y)
    BY <1>7, ZenonT(30) DEF StreamRec, SameStream, Flags
  <2> QED BY <1>7, <2>1, <2>2 DEF StreamRec, OnlyExchange, Exchange
<1>8. ASSUME v \in Calls, y = [x EXCEPT !.call = v]
      PROVE  /\ OnlyExchange(x, y)
             /\ Exchange(y, x.sent, x.known, x.suite, x.reinv, x.alien, x.refused, x.left, v)
  <2>1. y \in StreamRec
    BY <1>8 DEF StreamRec
  <2>2. SameStream(x, y)
    BY <1>8, ZenonT(30) DEF StreamRec, SameStream, Flags
  <2> QED BY <1>8, <2>1, <2>2 DEF StreamRec, OnlyExchange, Exchange
<1> QED BY <1>1, <1>2, <1>3, <1>4, <1>5, <1>6, <1>7, <1>8

-----------------------------------------------------------------------------
(* The steps of the DTLS stack *)

\* A call that is closed with nothing sent.
LEMMA ClosedInv ==
  ASSUME NEW x \in StreamRec, SdpContent(x), SdesState(x), DtlsInv(x), x.call = "closed",
         x.tx => stream_is_ready(x) /\ Sends(x), ~mnat_ready(x) => ~x.err,
         x.enc = "sdes" => x.sd.on /\ (x.tx => x.sd.use), x.alien => x.nat
  PROVE  Inv(x)
<1>1. SdpInv(x)
  BY Zenon DEF SdpInv, Connected
<1>2. SdesMedia(x) /\ SdesSdp(x)
  BY Zenon DEF SdesMedia, SdesSdp, Connected
<1>3. MediaInv(x)
  BY Zenon DEF MediaInv, Connected
<1> QED BY <1>1, <1>2, <1>3, Zenon DEF Inv

\* The bound of the exchanges is in no part of the invariant.
LEMMA LeftInv ==
  ASSUME NEW x, Inv(x), NEW v \in 0..MaxExchanges, NEW y, y = [x EXCEPT !.left = v]
  PROVE  Inv(y)
<1>1. /\ OnlyExchange(x, y)
      /\ Exchange(y, x.sent, x.known, x.suite, x.reinv, x.alien, x.refused, v, x.call)
  BY SetExchange, Zenon DEF Inv
<1>2. SameStream(x, y) /\ y \in StreamRec
  BY <1>1, Zenon DEF OnlyExchange
<1>3. /\ y.call = x.call /\ y.sent = x.sent /\ y.known = x.known /\ y.suite = x.suite
      /\ y.alien = x.alien /\ y.refused = x.refused /\ y.reinv = x.reinv
  BY <1>1, Zenon DEF Exchange
<1>4. StreamInv(y)
  BY <1>2, <1>3, StreamInvKept, ZenonT(30) DEF Inv, StreamInv
<1>5. y.enc = x.enc /\ y.sd = x.sd /\ y.rsdp = x.rsdp /\ y.nat = x.nat
  BY <1>2, Zenon DEF SameStream
<1>6. SdesSdp(y)
  BY <1>3, <1>5, ZenonT(30) DEF Inv, SdesSdp, Connected
<1> QED BY <1>3, <1>4, <1>5, <1>6, Zenon DEF Inv, StreamInv

\* menc_error_handler() closes a call.
LEMMA ErrorInv ==
  ASSUME NEW x, Inv(x), Connected(x), NEW y, y = menc_error_handler(x)
  PROVE  Inv(y)
<1>1. /\ y \in StreamRec /\ SameCall(x, y) /\ SameState(x, y) /\ y.call = "closed"
      /\ y.secure = x.secure /\ y.tx = x.tx /\ y.rtcp = x.rtcp
  BY ErrorEvent, Zenon DEF Inv
<1>2. y.raddr = x.raddr /\ y.err = x.err /\ y.sd = x.sd /\ y.dt = x.dt
  BY <1>1, Zenon DEF SameState
<1>3. /\ y.enc = x.enc /\ y.nat = x.nat /\ y.rsdp = x.rsdp /\ y.peerkey = x.peerkey
      /\ y.alien = x.alien
  BY <1>1, Zenon DEF SameCall
<1>4. Sends(y) = Sends(x) /\ mnat_ready(y) = mnat_ready(x) /\ stream_is_ready(y) = stream_is_ready(x)
  BY <1>1, <1>2, ReadySame, Zenon
<1>5. SdesState(y) /\ DtlsInv(y)
  BY <1>1, <1>2, SdesKept, DtlsKept, Zenon DEF Inv
<1>6. SdpContent(y)
  BY <1>3, Zenon DEF Inv, SdpInv, SdpContent
<1>7. y.tx => stream_is_ready(y) /\ Sends(y)
  BY <1>1, <1>4, Zenon DEF Inv, MediaInv
<1>8. ~mnat_ready(y) => ~y.err
  BY <1>2, <1>4, Zenon DEF Inv, MediaInv
<1>9. y.enc = "sdes" => y.sd.on /\ (y.tx => y.sd.use)
  BY <1>1, <1>2, <1>3, Zenon DEF Inv, SdesMedia, Connected
<1> QED BY <1>1, <1>3, <1>5, <1>6, <1>7, <1>8, <1>9, ClosedInv, Zenon DEF Inv

\* A component changes, and nothing of the media.
LEMMA DtlsChanged ==
  ASSUME NEW x, Inv(x), NEW y, OnlyDtls(x, y), y.err = x.err, DtlsInv(y),
         y.dt.comp["RTCP"].negotiated = x.dt.comp["RTCP"].negotiated
  PROVE  Inv(y)
<1>1. y \in StreamRec /\ SameCall(x, y) /\ y.call = x.call /\ y.raddr = x.raddr /\ y.sd = x.sd
  BY Zenon DEF OnlyDtls
<1>2. /\ y.secure = x.secure /\ y.tx = x.tx /\ y.rx = x.rx /\ y.src = x.src /\ y.rtcp = x.rtcp
  BY Zenon DEF OnlyDtls, Flags
<1>3. /\ y.enc = x.enc /\ y.nat = x.nat /\ y.rsdp = x.rsdp /\ y.peerkey = x.peerkey
      /\ y.alien = x.alien /\ y.sent = x.sent /\ y.known = x.known /\ y.suite = x.suite
      /\ y.reinv = x.reinv /\ y.refused = x.refused
  BY <1>1, Zenon DEF SameCall
<1>4. /\ Sends(y) = Sends(x) /\ Receives(y) = Receives(x) /\ mnat_ready(y) = mnat_ready(x)
      /\ stream_is_ready(y) = stream_is_ready(x)
  BY <1>1, <1>2, ReadySame, Zenon
<1>5. SdpInv(y)
  BY <1>1, <1>3, ZenonT(30) DEF Inv, SdpInv, SdpContent, Connected
<1>6. SdesState(y)
  BY <1>1, SdesKept, Zenon DEF Inv
<1>7. SdesMedia(y)
  BY <1>1, <1>2, <1>3, <1>4, Zenon DEF Inv, SdesMedia, Connected
<1>8. SdesSdp(y)
  BY <1>1, <1>3, Zenon DEF Inv, SdesSdp, Connected
<1>9. MediaInv(y)
  BY <1>1, <1>2, <1>3, <1>4, ZenonT(30) DEF Inv, MediaInv, Connected
<1> QED BY <1>1, <1>3, <1>5, <1>6, <1>7, <1>8, <1>9, Zenon DEF Inv

\* A component is replaced by k, the others stay.
LEMMA Replaced ==
  ASSUME NEW x, Inv(x), NEW c \in Components, NEW k \in ComponentRec, NEW y, y = SetComp(x, c, k)
  PROVE  /\ OnlyDtls(x, y) /\ y.err = x.err /\ SameRole(x, y) /\ y.dt.comp[c] = k
         /\ \A e \in Components : e # c => y.dt.comp[e] = x.dt.comp[e]
         /\ \A e \in Components : e # c => ComponentInv(y, e)
<1>1. /\ OnlyDtls(x, y) /\ y.err = x.err /\ SameRole(x, y) /\ y.dt.comp[c] = k
      /\ \A e \in Components : e # c => y.dt.comp[e] = x.dt.comp[e]
  BY SetComponent DEF Inv
<1>2. SameCall(x, y) /\ DtlsInv(x)
  BY <1>1, Zenon DEF OnlyDtls, Inv
<1>3. ASSUME NEW e \in Components, e # c
      PROVE  ComponentInv(y, e)
  BY <1>1, <1>2, <1>3, ComponentKept, Zenon DEF DtlsInv
<1> QED BY <1>1, <1>3, Zenon

\* dtls_close_handler(): the connection is gone, the keys stay.
LEMMA CloseInv ==
  ASSUME NEW x, Inv(x), NEW c \in Components, NEW y, y = Closed(x, c)
  PROVE  Inv(y) /\ y.call = x.call /\ y.left = x.left
<1> DEFINE k == Close(x, c)
<1>1. x \in StreamRec /\ DtlsInv(x) /\ ComponentInv(x, c)
  BY Zenon DEF Inv, DtlsInv
<1>2. /\ k \in ComponentRec /\ k.conn = None /\ ~k.hs /\ k.sock = x.dt.comp[c].sock
      /\ k.negotiated = x.dt.comp[c].negotiated /\ k.tx = x.dt.comp[c].tx
      /\ k.rx = x.dt.comp[c].rx /\ k.layers = x.dt.comp[c].layers
      /\ Closed(x, c) = SetComp(x, c, k)
  BY <1>1, CloseComponent, Zenon
<1> HIDE DEF k
<1>3. /\ OnlyDtls(x, y) /\ y.err = x.err /\ SameRole(x, y) /\ y.dt.comp[c] = k
      /\ \A e \in Components : e # c => y.dt.comp[e] = x.dt.comp[e]
      /\ \A e \in Components : e # c => ComponentInv(y, e)
  BY <1>2, Replaced
<1>4. SameCall(x, y) /\ y.secure = x.secure /\ y.rtcp = x.rtcp
  BY <1>3, Zenon DEF OnlyDtls, Flags
<1>5. Used(y) = Used(x) /\ mnat_ready(y) = mnat_ready(x) /\ y.enc = x.enc
  BY <1>4, ReadySame, Zenon DEF SameCall
<1>6. ComponentInv(y, c)
  BY <1>1, <1>2, <1>3, <1>5, ZenonT(30) DEF ComponentInv, SameRole
<1>7. \A e \in Components : y.dt.comp[e].negotiated = x.dt.comp[e].negotiated
  BY <1>2, <1>3, Zenon
<1>8. y.dt.early = x.dt.early
  BY <1>3, Zenon DEF SameRole
<1>9. DtlsInv(y)
  <2>1. "RTP" \in Components /\ "RTCP" \in Components
    BY Zenon DEF Components
  <2> QED BY <1>1, <1>3, <1>4, <1>5, <1>6, <1>7, <1>8, <2>1, ZenonT(30) DEF DtlsInv
<1>10. Inv(y)
  BY <1>3, <1>7, <1>9, DtlsChanged, Zenon DEF Components
<1> QED BY <1>3, <1>10, Zenon DEF OnlyDtls, SameCall

LEMMA CloseHandler ==
  ASSUME Inv(s), NEW c \in Components, dtls_closed(c)
  PROVE  Inv(s')
<1> DEFINE a == Closed(s, c)
           b == IF s.dt.comp[c].negotiated THEN a ELSE menc_error_handler(a)
           v == b.left - 1
<1>1. Connected(s) /\ s.left > 0 /\ s' = [b EXCEPT !.left = v]
  BY Zenon DEF dtls_closed, Talks, Connected, Becomes, dtls_close_handler, Closed
<1>2. Inv(a) /\ a.call = s.call /\ a.left = s.left
  BY CloseInv, Zenon
<1> HIDE DEF a
<1>3. Connected(a) /\ a \in StreamRec
  BY <1>1, <1>2, Zenon DEF Connected, Inv
<1>4. Inv(b) /\ b.left = s.left
  <2>1. CASE s.dt.comp[c].negotiated
    BY <1>2, <2>1, Zenon
  <2>2. CASE ~s.dt.comp[c].negotiated
    <3>1. b = menc_error_handler(a)
      BY <2>2, Zenon
    <3>2. Inv(b)
      BY <1>2, <1>3, <3>1, ErrorInv, Zenon
    <3>3. SameCall(a, b)
      BY <1>3, <3>1, ErrorEvent, Zenon
    <3> QED BY <1>2, <3>2, <3>3, Zenon DEF SameCall
  <2> QED BY <2>1, <2>2, Zenon
<1> HIDE DEF b
<1>5. v \in 0..MaxExchanges
  <2>1. s.left \in 0..MaxExchanges
    BY Zenon DEF Inv, StreamRec
  <2> QED BY <1>1, <1>4, <2>1, BoundsAssumption
<1> HIDE DEF v
<1> QED BY <1>1, <1>4, <1>5, LeftInv, Zenon

\* verify_fingerprint() fails.
LEMMA FingerprintMismatch ==
  ASSUME Inv(s), NEW c \in Components, dtls_fails(c)
  PROVE  Inv(s')
<1>1. Connected(s) /\ s' = menc_error_handler(s)
  BY Zenon DEF dtls_fails, Talks, Connected, Becomes, fingerprint_mismatch
<1> QED BY <1>1, ErrorInv, Zenon

\* A component with a connection of the peer, and the stream with it.
ServerOf(x, c, k) ==
  /\ k \in ComponentRec /\ k.conn = "server" /\ k.hs /\ k.sock = x.dt.comp[c].sock
  /\ k.negotiated = x.dt.comp[c].negotiated /\ k.tx = x.dt.comp[c].tx
  /\ k.layers = x.dt.comp[c].layers

WithAgain(x, k, y) ==
  /\ OnlyDtls(x, y) /\ y.err = x.err /\ y.dt.comp = x.dt.comp
  /\ y.dt.again <=> (x.dt.again \/ k.negotiated)
  /\ y.dt.active = x.dt.active /\ y.dt.swapped = x.dt.swapped /\ y.dt.early = x.dt.early

\* dtls_conn_handler(): the peer connects, for the first time or again.
LEMMA ConnectInv ==
  ASSUME NEW x, Inv(x), NEW c \in Components, x.dt.comp[c].sock, ~x.dt.active,
         NEW k, ServerOf(x, c, k), NEW a, a = SetComp(x, c, k), NEW y, WithAgain(a, k, y)
  PROVE  Inv(y) /\ y.left = x.left
<1> USE DEF ServerOf, WithAgain
<1>1. x \in StreamRec /\ DtlsInv(x) /\ ComponentInv(x, c)
  BY Zenon DEF Inv, DtlsInv
<1>3. /\ OnlyDtls(x, a) /\ a.err = x.err /\ SameRole(x, a) /\ a.dt.comp[c] = k
      /\ \A e \in Components : e # c => a.dt.comp[e] = x.dt.comp[e]
      /\ \A e \in Components : e # c => ComponentInv(a, e)
  BY Replaced
<1>7. OnlyDtls(x, y)
  BY <1>3, DtlsTrans, Zenon
<1>8. SameCall(x, y) /\ SameCall(a, y) /\ y.secure = x.secure /\ y.rtcp = x.rtcp
  BY <1>7, Zenon DEF OnlyDtls, Flags
<1>9. /\ Used(y) = Used(x) /\ mnat_ready(y) = mnat_ready(x) /\ y.enc = x.enc
      /\ Used(y) = Used(a) /\ mnat_ready(y) = mnat_ready(a) /\ y.enc = a.enc
  <2>1. Used(y) = Used(x) /\ mnat_ready(y) = mnat_ready(x)
    BY <1>8, ReadySame, ZenonT(30)
  <2>2. Used(y) = Used(a) /\ mnat_ready(y) = mnat_ready(a)
    BY <1>8, ReadySame, ZenonT(30)
  <2> QED BY <1>8, <2>1, <2>2, ZenonT(30) DEF SameCall
<1>10. y.dt.active = x.dt.active /\ y.dt.swapped = x.dt.swapped /\ y.dt.early = x.dt.early
       /\ a.dt.again = x.dt.again
  BY <1>3, Zenon DEF SameRole
<1>11. ComponentInv(y, c)
  <2>1. y.dt.comp[c] = k
    BY <1>3, Zenon
  <2>2. k.negotiated => y.dt.again
    BY Zenon
  <2>3. ~y.dt.again => k.layers <= 1
    BY <1>1, <1>10, Zenon DEF ComponentInv
  <2> QED BY <1>1, <1>9, <1>10, <2>1, <2>2, <2>3, ZenonT(30) DEF ComponentInv, None
<1>12. ASSUME NEW e \in Components, e # c
       PROVE  ComponentInv(y, e)
  <2>1. ComponentInv(a, e)
    BY <1>3, <1>12, Zenon
  <2> QED BY <1>9, <2>1, ZenonT(30) DEF ComponentInv
<1>13. \A e \in Components : y.dt.comp[e].negotiated = x.dt.comp[e].negotiated
  BY <1>3
<1>14. DtlsInv(y)
  <2>1. "RTP" \in Components /\ "RTCP" \in Components
    BY Zenon DEF Components
  <2> QED BY <1>1, <1>8, <1>9, <1>10, <1>11, <1>12, <1>13, <2>1, ZenonT(30) DEF DtlsInv
<1>15. Inv(y)
  BY <1>3, <1>7, <1>13, <1>14, DtlsChanged, ZenonT(30) DEF Components
<1> QED BY <1>8, <1>15, Zenon DEF SameCall

LEMMA ConnHandler ==
  ASSUME Inv(s), NEW c \in Components, dtls_incoming(c)
  PROVE  Inv(s')
<1> DEFINE b == dtls_conn_handler(s, c)
           v == IF s.dt.comp[c].conn = None THEN b.left ELSE b.left - 1
           k == Open(s, c, "server")
           a == Opened(s, c, "server")
           d == [a.dt EXCEPT !.again = s.dt.again \/ s.dt.comp[c].negotiated]
<1>1. /\ Connected(s) /\ s.dt.comp[c].sock /\ s' = [b EXCEPT !.left = v]
      /\ s.left > 0 \/ s.dt.comp[c].conn = None
  BY Zenon DEF dtls_incoming, Talks, Connected, Becomes
<1>2. s \in StreamRec /\ s.left \in 0..MaxExchanges
  BY Zenon DEF Inv, StreamRec
<1>3. \/ b = s
      \/ b = menc_error_handler(s)
      \/ ~s.dt.active /\ s.dt.comp[c].conn = None /\ b = [a EXCEPT !.dt = d]
  <2> DEFINE w == [a EXCEPT !.dt = d]
  <2>1. b = IF s.dt.active THEN s
            ELSE IF s.dt.comp[c].conn # None THEN menc_error_handler(s) ELSE w
    BY Zenon DEF dtls_conn_handler, Opened
  <2> HIDE DEF b, w
  <2>2. b = s \/ b = menc_error_handler(s) \/ (~s.dt.active /\ s.dt.comp[c].conn = None /\ b = w)
    BY <2>1, Zenon
  <2> QED BY <2>2, Zenon DEF w
<1>4. /\ k \in ComponentRec /\ k.conn = "server" /\ k.hs /\ k.sock = s.dt.comp[c].sock
      /\ k.negotiated = s.dt.comp[c].negotiated /\ k.tx = s.dt.comp[c].tx
      /\ k.rx = s.dt.comp[c].rx /\ k.layers = s.dt.comp[c].layers
      /\ a = SetComp(s, c, k)
  <2>1. k = Open(s, c, "server") /\ a = Opened(s, c, "server")
    BY Zenon
  <2> HIDE DEF a, k
  <2> QED BY <1>2, <2>1, OpenServer
<1> HIDE DEF a, b, k
<1>5. a \in StreamRec /\ a.dt.again = s.dt.again
  BY <1>2, <1>4, SetComponent DEF OnlyDtls, SameRole
<1>6. Inv(b) /\ b.left = s.left
  <2>1. CASE b = s
    BY <2>1, Zenon
  <2>2. CASE b = menc_error_handler(s)
    <3>1. Inv(b)
      BY <1>1, <2>2, ErrorInv, Zenon
    <3>2. SameCall(s, b)
      BY <1>2, <2>2, ErrorEvent, Zenon
    <3> QED BY <3>1, <3>2, Zenon DEF SameCall
  <2>3. CASE ~s.dt.active /\ s.dt.comp[c].conn = None /\ b = [a EXCEPT !.dt = d]
    <3>1. a.dt \in Dtls
      BY <1>5, Zenon DEF StreamRec
    <3>2. d \in Dtls
      BY <3>1, ZenonT(30) DEF Dtls
    <3>3. /\ d.comp = a.dt.comp /\ d.active = a.dt.active /\ d.swapped = a.dt.swapped
          /\ d.early = a.dt.early /\ (d.again <=> (a.dt.again \/ k.negotiated))
      BY <1>4, <1>5, <3>1, ZenonT(30) DEF Dtls
    <3> HIDE DEF d
    <3>4. OnlyDtls(a, b) /\ b.dt = d /\ b.err = a.err
      BY <1>5, <2>3, <3>2, SetDtls, ZenonT(30)
    <3>5. /\ b.dt.comp = a.dt.comp /\ b.dt.active = a.dt.active /\ b.dt.swapped = a.dt.swapped
          /\ b.dt.early = a.dt.early /\ (b.dt.again <=> (a.dt.again \/ k.negotiated))
          /\ b.err = a.err /\ OnlyDtls(a, b)
      BY <3>3, <3>4, Zenon
    <3>6. ~s.dt.active /\ s.dt.comp[c].sock
      BY <1>1, <2>3, Zenon
    <3>7. /\ k \in ComponentRec /\ k.conn = "server" /\ k.hs /\ k.sock = s.dt.comp[c].sock
          /\ k.negotiated = s.dt.comp[c].negotiated /\ k.tx = s.dt.comp[c].tx
          /\ k.layers = s.dt.comp[c].layers /\ a = SetComp(s, c, k)
      BY <1>4, Zenon
    <3>8. ServerOf(s, c, k) /\ a = SetComp(s, c, k) /\ WithAgain(a, k, b)
      BY <3>5, <3>7, Zenon DEF ServerOf, WithAgain
    <3> QED BY <3>6, <3>8, ConnectInv
  <2> QED BY <1>3, <2>1, <2>2, <2>3, Zenon
<1>7. v \in 0..MaxExchanges
  BY <1>1, <1>2, <1>6, BoundsAssumption
<1> HIDE DEF v
<1> QED BY <1>1, <1>6, <1>7, LeftInv, ZenonT(30)

\* dtls_estab_handler(): the keys of the handshake, by our role.
Keyed(x, c, k) ==
  /\ k \in ComponentRec /\ k.negotiated /\ ~k.hs
  /\ k.sock = x.dt.comp[c].sock /\ k.conn = x.dt.comp[c].conn
  /\ k.tx = (IF x.dt.active THEN "cli" ELSE "srv")
  /\ k.rx = (IF x.dt.active THEN "srv" ELSE "cli")
  /\ k.layers <= x.dt.comp[c].layers + 1

LEMMA KeyComponent ==
  ASSUME NEW x, NEW c, NEW d \in ComponentRec, d = x.dt.comp[c], NEW k,
         k = [d EXCEPT !.negotiated = TRUE, !.hs = FALSE,
                       !.tx = IF x.dt.active THEN "cli" ELSE "srv",
                       !.rx = IF x.dt.active THEN "srv" ELSE "cli",
                       !.layers = IF d.layers < 2 THEN d.layers + 1 ELSE d.layers]
  PROVE  Keyed(x, c, k)
<1> DEFINE t == IF x.dt.active THEN "cli" ELSE "srv"
           r == IF x.dt.active THEN "srv" ELSE "cli"
           l == IF d.layers < 2 THEN d.layers + 1 ELSE d.layers
<1>1. t \in {None, "cli", "srv"} /\ r \in {None, "cli", "srv"}
  BY Zenon
<1>2. d.layers \in 0..2
  BY Zenon DEF ComponentRec
<1>3. l \in 0..2 /\ l <= d.layers + 1
  BY <1>2
<1>4. k = [d EXCEPT !.negotiated = TRUE, !.hs = FALSE, !.tx = t, !.rx = r, !.layers = l]
  BY Zenon
<1>5. t = (IF x.dt.active THEN "cli" ELSE "srv") /\ r = (IF x.dt.active THEN "srv" ELSE "cli")
  BY Zenon
<1> HIDE DEF t, r, l
<1>6. k \in ComponentRec
  BY <1>1, <1>3, <1>4, ZenonT(30) DEF ComponentRec
<1>7. k.negotiated /\ ~k.hs /\ k.sock = d.sock /\ k.conn = d.conn /\ k.tx = t /\ k.rx = r
      /\ k.layers = l
  BY <1>4, ZenonT(30) DEF ComponentRec
<1>8. k.layers <= x.dt.comp[c].layers + 1
  BY <1>3, <1>7, Zenon
<1> QED BY <1>5, <1>6, <1>7, <1>8, Zenon DEF Keyed

\* The stream with the history of an early RTCP.
WithEarly(x, c, y) ==
  /\ OnlyDtls(x, y) /\ y.err = x.err /\ y.dt.comp = x.dt.comp /\ y.dt.again = x.dt.again
  /\ y.dt.early <=> (x.dt.early \/ (c = "RTCP" /\ ~x.dt.comp["RTP"].negotiated))
  /\ y.dt.active = x.dt.active /\ y.dt.swapped = x.dt.swapped

EarlyOf(x, c) == [x EXCEPT !.dt.early = @ \/ (c = "RTCP" /\ ~x.dt.comp["RTP"].negotiated)]

LEMMA EarlySet ==
  ASSUME NEW x \in StreamRec, NEW c, NEW y, y = EarlyOf(x, c)
  PROVE  WithEarly(x, c, y)
<1> DEFINE e == x.dt.early \/ (c = "RTCP" /\ ~x.dt.comp["RTP"].negotiated)
           d == [x.dt EXCEPT !.early = e]
<1>1. y = [x EXCEPT !.dt = d] /\ e \in BOOLEAN
  BY Zenon DEF EarlyOf
<1>2. x.dt \in Dtls
  BY Zenon DEF StreamRec
<1>3. d.early <=> e
  BY <1>2, ZenonT(30) DEF Dtls
<1> HIDE DEF e
<1>4. d \in Dtls
  BY <1>1, <1>2, Zenon DEF Dtls
<1>5. d.comp = x.dt.comp /\ d.active = x.dt.active /\ d.swapped = x.dt.swapped
      /\ d.again = x.dt.again
  BY <1>2, Zenon DEF Dtls
<1> HIDE DEF d
<1>6. OnlyDtls(x, y) /\ y.dt = d /\ y.err = x.err
  BY <1>1, <1>4, SetDtls
<1> QED BY <1>3, <1>5, <1>6, Zenon DEF WithEarly, e

\* The components when a handshake is over.
LEMMA KeysInv ==
  ASSUME NEW x, Inv(x), NEW c \in Components, x.dt.comp[c].hs,
         NEW k, Keyed(x, c, k), NEW a, WithEarly(x, c, a), NEW y, y = SetComp(a, c, k)
  PROVE  /\ OnlyDtls(x, y) /\ y.err = x.err /\ ComponentsInv(y)
         /\ y.enc = "dtls" /\ mnat_ready(y) /\ y.dt.comp[c].negotiated
         /\ c = "RTCP" => y.dt.comp["RTP"].negotiated \/ y.dt.early
         /\ c # "RTCP" => y.dt.comp["RTCP"].negotiated = x.dt.comp["RTCP"].negotiated
<1>1. /\ x \in StreamRec /\ x.dt.comp[c] \in ComponentRec /\ DtlsInv(x) /\ ComponentInv(x, c)
      /\ k \in ComponentRec
  BY Zenon DEF Inv, DtlsInv, StreamRec, Dtls, Keyed
<1>2. OnlyDtls(x, a) /\ a \in StreamRec /\ a.err = x.err /\ a.dt.comp = x.dt.comp
      /\ a.dt.again = x.dt.again /\ a.dt.active = x.dt.active /\ a.dt.swapped = x.dt.swapped
  BY Zenon DEF WithEarly, OnlyDtls
<1>3. /\ OnlyDtls(a, y) /\ y.err = a.err /\ SameRole(a, y) /\ y.dt.comp[c] = k
      /\ \A e \in Components : e # c => y.dt.comp[e] = a.dt.comp[e]
  BY <1>1, <1>2, SetComponent
<1>4. OnlyDtls(x, y)
  BY <1>2, <1>3, DtlsTrans, Zenon
<1>5. Used(y) = Used(x) /\ mnat_ready(y) = mnat_ready(x) /\ y.enc = x.enc
  BY <1>4, ReadySame, Zenon DEF OnlyDtls, SameCall
<1>6. y.dt.active = x.dt.active /\ y.dt.swapped = x.dt.swapped /\ y.dt.again = x.dt.again
      /\ y.dt.early = a.dt.early
  BY <1>2, <1>3, Zenon DEF SameRole
<1>7. x.dt.comp[c].sock /\ x.dt.comp[c].conn # None /\ c \in Used(x) /\ x.enc = "dtls" /\ mnat_ready(x)
  BY <1>1, Zenon DEF ComponentInv
<1>8. ComponentInv(y, c)
  <2>1. ~x.dt.swapped => (x.dt.comp[c].conn = "client" <=> x.dt.active)
    BY <1>1, Zenon DEF ComponentInv
  <2>2. x.dt.comp[c].conn \in {"client", "server"}
    BY <1>1, <1>7, Zenon DEF ComponentRec
  <2>3. ~x.dt.swapped => /\ k.tx = (IF k.conn = "server" THEN "srv" ELSE "cli")
                         /\ k.rx = (IF k.conn = "server" THEN "cli" ELSE "srv")
    BY <2>1, <2>2, Zenon DEF Keyed
  <2>4. ~x.dt.again => k.layers <= 1
    <3>1. ~x.dt.again => ~x.dt.comp[c].negotiated
      BY <1>1, Zenon DEF ComponentInv
    <3>2. x.dt.comp[c].layers \in 0..2 /\ k.layers \in 0..2
      BY <1>1, Zenon DEF ComponentRec
    <3>3. ~x.dt.again => x.dt.comp[c].layers = 0
      BY <1>1, <3>1, <3>2 DEF ComponentInv
    <3> QED BY <3>2, <3>3 DEF Keyed
  <2>5. k.tx # None /\ k.negotiated /\ ~k.hs /\ k.sock
    BY <1>7, Zenon DEF Keyed, None
  <2> QED BY <1>3, <1>5, <1>6, <1>7, <2>3, <2>4, <2>5 DEF ComponentInv
<1>9. ASSUME NEW e \in Components, e # c
      PROVE  ComponentInv(y, e)
  <2>1. ComponentInv(x, e) /\ y.dt.comp[e] = x.dt.comp[e]
    BY <1>1, <1>2, <1>3, <1>9, ZenonT(30) DEF DtlsInv
  <2> QED BY <1>5, <1>6, <2>1 DEF ComponentInv
<1>10. ComponentsInv(y)
  BY <1>8, <1>9, Zenon DEF ComponentsInv
<1>11. y.dt.comp[c].negotiated
  BY <1>3, Zenon DEF Keyed
<1>12. c = "RTCP" => y.dt.comp["RTP"].negotiated \/ y.dt.early
  BY <1>2, <1>3, <1>6, ZenonT(30) DEF WithEarly, Components
<1>13. c # "RTCP" => y.dt.comp["RTCP"].negotiated = x.dt.comp["RTCP"].negotiated
  BY <1>2, <1>3, Zenon DEF Components
<1>14. y.err = x.err /\ y.enc = "dtls" /\ mnat_ready(y)
  BY <1>2, <1>3, <1>5, <1>7, Zenon
<1> QED BY <1>4, <1>10, <1>11, <1>12, <1>13, <1>14, Zenon

\* The stream is secure, and audio runs.
LEMMA SecureInv ==
  ASSUME NEW x, Inv(x), Connected(x), NEW c \in Components, NEW y, OnlyDtls(x, y), y.err = x.err,
         ComponentsInv(y), y.enc = "dtls", mnat_ready(y), y.dt.comp[c].negotiated,
         c = "RTCP" => y.dt.comp["RTP"].negotiated \/ y.dt.early,
         c # "RTCP" => y.dt.comp["RTCP"].negotiated = x.dt.comp["RTCP"].negotiated,
         NEW z, z = menc_event_handler(y, c)
  PROVE  Inv(z)
<1>1. y \in StreamRec /\ SameCall(x, y) /\ y.call = x.call /\ y.raddr = x.raddr /\ y.sd = x.sd
      /\ y.secure = x.secure /\ y.tx = x.tx /\ y.rtcp = x.rtcp
  BY Zenon DEF OnlyDtls, Flags
<1>2. x.raddr /\ x.rsdp.port
  BY Zenon DEF Inv, SdpInv, Connected
<1>3. y.rsdp.port
  BY <1>1, <1>2, Zenon DEF SameCall
<1>4. /\ OnlyFlags(y, z)
      /\ Flags(z, TRUE, y.tx \/ (stream_is_ready(z) /\ Sends(z)), Receives(z), Sends(z),
               y.rtcp \/ c = "RTCP")
  BY <1>1, <1>3, SecureEvent, ZenonT(30)
<1>5. z \in StreamRec /\ SameCall(y, z) /\ SameState(y, z) /\ z.call = x.call
  BY <1>1, <1>4, Zenon DEF OnlyFlags
<1>6. SameCall(x, z)
  BY <1>1, <1>5, SameTrans, Zenon
<1>7. z.raddr = x.raddr /\ z.err = x.err /\ z.sd = x.sd /\ z.dt = y.dt
  BY <1>1, <1>5, Zenon DEF SameState
<1>8. /\ z.secure /\ z.tx = (x.tx \/ (stream_is_ready(z) /\ Sends(z))) /\ z.rx = Receives(z)
      /\ z.src = Sends(z) /\ z.rtcp = (x.rtcp \/ c = "RTCP")
  BY <1>1, <1>4, Zenon DEF Flags
<1>9. /\ z.enc = x.enc /\ z.nat = x.nat /\ z.rsdp = x.rsdp /\ z.peerkey = x.peerkey
      /\ z.alien = x.alien /\ z.enc = y.enc
  BY <1>5, <1>6, Zenon DEF SameCall
<1>10. Sends(z) = Sends(x) /\ mnat_ready(z) /\ sdp_media_dir(z) = sdp_media_dir(x)
  BY <1>5, <1>6, ReadySame, Zenon
<1>11. Sends(z) => stream_is_ready(z)
  <2>1. Sends(z) => sdp_media_dir(z) # {}
    BY <1>5, Conditions, Zenon
  <2> QED BY <1>2, <1>7, <1>8, <1>10, <2>1, ZenonT(30) DEF stream_is_ready
<1>12. z.dt.comp["RTCP"].negotiated => z.rtcp
  <2>1. CASE c = "RTCP"
    BY <1>8, <2>1, ZenonT(30)
  <2>2. CASE c # "RTCP"
    <3>1. x.dt.comp["RTCP"].negotiated => x.rtcp
      BY Zenon DEF Inv, DtlsInv
    <3> QED BY <1>7, <1>8, <2>2, <3>1, ZenonT(30)
  <2> QED BY <2>1, <2>2, Zenon
<1>13. DtlsInv(z)
  <2>1. SameRole(y, z) /\ z.dt.comp = y.dt.comp
    BY <1>7, Zenon DEF SameRole
  <2>2. ComponentsInv(z)
    BY <1>5, <2>1, ComponentsKept, ZenonT(30)
  <2>3. z.dt.comp["RTP"].negotiated \/ z.dt.early
    BY <1>7, Zenon DEF Components
  <2> QED BY <1>10, <1>12, <2>2, <2>3, ZenonT(30) DEF DtlsInv, ComponentsInv
<1>14. MediaInv(z)
  <2>1. x.tx => Sends(x)
    BY Zenon DEF Inv, MediaInv
  <2>2. z.tx => stream_is_ready(z) /\ Sends(z)
    BY <1>8, <1>10, <1>11, <2>1, ZenonT(30)
  <2>3. stream_is_ready(z) /\ Sends(z) => z.tx
    BY <1>8, ZenonT(30)
  <2>4. Sends(z) \in BOOLEAN /\ stream_is_ready(z) \in BOOLEAN
    BY <1>5, Conditions, Zenon
  <2>5. z.src = (stream_is_ready(z) /\ Sends(z))
    BY <1>8, <1>11, <2>4, Zenon
  <2>6. z.enc = "dtls"
    BY <1>9, Zenon
  <2> QED BY <1>8, <1>10, <1>12, <2>2, <2>3, <2>5, <2>6, ZenonT(30) DEF MediaInv
<1>15. SdpInv(z)
  BY <1>5, <1>7, <1>9, ZenonT(30) DEF Inv, SdpInv, SdpContent, Connected
<1>16. SdesState(z)
  BY <1>7, SdesKept, Zenon DEF Inv
<1>17. SdesMedia(z) /\ SdesSdp(z)
  BY <1>9, Zenon DEF SdesMedia, SdesSdp
<1> QED BY <1>5, <1>9, <1>13, <1>14, <1>15, <1>16, <1>17, ZenonT(30) DEF Inv

LEMMA DtlsEstabHandler ==
  ASSUME Inv(s), NEW c \in Components, dtls_estab(c)
  PROVE  Inv(s')
<1> DEFINE a == EarlyOf(s, c)
           d == s.dt.comp[c]
           k == [d EXCEPT !.negotiated = TRUE, !.hs = FALSE,
                          !.tx = IF s.dt.active THEN "cli" ELSE "srv",
                          !.rx = IF s.dt.active THEN "srv" ELSE "cli",
                          !.layers = IF d.layers < 2 THEN d.layers + 1 ELSE d.layers]
           y == SetComp(a, c, k)
<1>1. Connected(s) /\ s.dt.comp[c].hs
  BY Zenon DEF dtls_estab, Talks, Connected
<1>2. s' = menc_event_handler(y, c)
  BY Zenon DEF dtls_estab, Becomes, dtls_estab_handler, EarlyOf, SetComp
<1>3. s \in StreamRec /\ d \in ComponentRec
  BY Zenon DEF Inv, StreamRec, Dtls
<1>4. WithEarly(s, c, a)
  BY <1>3, EarlySet, Zenon
<1> HIDE DEF a
<1>5. k = [d EXCEPT !.negotiated = TRUE, !.hs = FALSE,
                    !.tx = IF s.dt.active THEN "cli" ELSE "srv",
                    !.rx = IF s.dt.active THEN "srv" ELSE "cli",
                    !.layers = IF d.layers < 2 THEN d.layers + 1 ELSE d.layers]
      /\ d = s.dt.comp[c]
  BY Zenon
<1> HIDE DEF d, k
<1>6. Keyed(s, c, k)
  BY <1>3, <1>5, KeyComponent, ZenonT(30)
<1>7. /\ OnlyDtls(s, y) /\ y.err = s.err /\ ComponentsInv(y)
      /\ y.enc = "dtls" /\ mnat_ready(y) /\ y.dt.comp[c].negotiated
      /\ c = "RTCP" => y.dt.comp["RTP"].negotiated \/ y.dt.early
      /\ c # "RTCP" => y.dt.comp["RTCP"].negotiated = s.dt.comp["RTCP"].negotiated
  <2>1. y = SetComp(a, c, k)
    BY Zenon
  <2> HIDE DEF y
  <2> QED BY <1>1, <1>4, <1>6, <2>1, KeysInv
<1> HIDE DEF y
<1> QED BY <1>1, <1>2, <1>7, SecureInv, Zenon

-----------------------------------------------------------------------------
(* What the invariant says *)

\* What the invariant says of the types,
LEMMA TypesFollow ==
  ASSUME Inv(s)
  PROVE  TypeOK
<1>1. s \in StreamRec /\ s.sd \in Sdes /\ s.dt \in Dtls
  BY Zenon DEF Inv, StreamRec
<1>2. /\ s.enc \in {"none", "sdes", "dtls"} /\ s.ldir \in SUBSET Both /\ s.left \in 0..MaxExchanges
      /\ s.call \in {"idle", "offered", "incoming", "answered", "up", "closed"}
      /\ s.peerkey \in 1..MaxKey /\ s.peerrole \in {None, "active", "passive"}
  BY <1>1, Zenon DEF StreamRec, Calls
<1>3. /\ s.nat \in BOOLEAN /\ s.mux \in BOOLEAN /\ s.natup \in BOOLEAN /\ s.secure \in BOOLEAN
      /\ s.raddr \in BOOLEAN /\ s.tx \in BOOLEAN /\ s.rx \in BOOLEAN /\ s.rtcp \in BOOLEAN
      /\ s.src \in BOOLEAN /\ s.err \in BOOLEAN /\ s.reinv \in BOOLEAN /\ s.alien \in BOOLEAN
      /\ s.refused \in BOOLEAN
  BY <1>1, Zenon DEF StreamRec
<1>4. \A f \in {"nat", "mux", "natup", "secure", "raddr", "tx", "rx", "rtcp", "src", "err",
                "reinv", "alien", "refused"} : s[f] \in BOOLEAN
  BY <1>3, Zenon
<1>5. s.sd.key_tx \in 0..MaxKey /\ s.sd.key_rx \in 0..MaxKey /\ s.sd.suite \in Supported \cup {None}
  BY <1>1, Zenon DEF Sdes
<1>6. s.sd.tx # NoSession => s.sd.tx[1] \in Supported
  BY Zenon DEF Inv, SdesState, SessionsInv
<1>7. ASSUME NEW c \in Components
      PROVE  /\ s.dt.comp[c].conn \in {None, "client", "server"} /\ s.dt.comp[c].layers \in 0..2
             /\ s.dt.comp[c].hs => s.dt.comp[c].conn # None
  <2>1. s.dt.comp[c] \in ComponentRec /\ ComponentInv(s, c)
    BY <1>1, Zenon DEF Dtls, Inv, DtlsInv
  <2> QED BY <2>1, Zenon DEF ComponentRec, ComponentInv
<1> QED BY <1>2, <1>4, <1>5, <1>6, <1>7, ZenonT(30) DEF TypeOK

\* of what is sent,
LEMMA PlainFollows ==
  ASSUME Inv(s)
  PROVE  NoPlainMedia
<1>1. ASSUME s.tx, s.enc = "sdes"
      PROVE  send_handler(s) \notin {Plain, NoSession}
  <2>1. s.sd.use /\ s.sd.tx # NoSession /\ s.sd.tx[1] \in Supported
    BY <1>1, ZenonT(30) DEF Inv, SdesMedia, SdesState, SessionsInv
  <2>2. send_handler(s) = s.sd.tx
    BY <2>1, Zenon DEF send_handler
  <2>3. s.sd.tx # Plain
    BY <2>1 DEF Plain, Session, Supported
  <2> QED BY <2>1, <2>2, <2>3, Zenon
<1>2. ASSUME s.tx, s.enc = "dtls"
      PROVE  srtp_send_handler(s, "RTP") # None \/ s.dt.early
  <2>1. s.secure
    BY <1>2, Zenon DEF Inv, MediaInv, stream_is_ready
  <2>2. s.dt.comp["RTP"].negotiated \/ s.dt.early
    BY <1>2, <2>1, Zenon DEF Inv, DtlsInv
  <2>3. "RTP" \in Components
    BY Zenon DEF Components
  <2>4. ComponentInv(s, "RTP")
    BY <2>3, Zenon DEF Inv, DtlsInv
  <2> QED BY <2>2, <2>4, Zenon DEF ComponentInv, srtp_send_handler
<1> QED BY <1>1, <1>2, Zenon DEF NoPlainMedia

\* of the keys,
LEMMA KeysFollow ==
  ASSUME Inv(s)
  PROVE  KeysAgree
<1>1. TypeOK
  BY TypesFollow, Zenon
<1>2. TxAgrees
  <2> SUFFICES ASSUME Established, s.enc = "sdes", ~s.reinv, ~s.refused, ~s.alien
               PROVE  /\ send_handler(s)[2] = s.known[2]
                      /\ ~s.sd.changed => send_handler(s) = s.known
    BY Zenon DEF TxAgrees
  <2>1. Connected(s) /\ mnat_ready(s)
    BY Zenon DEF Established, Connected
  <2>2. s.sd.use /\ s.sd.on
    BY <2>1, Zenon DEF Inv, SdesMedia, Connected
  <2>3. /\ s.sd.tx # NoSession /\ s.sd.tx[2] = s.sd.key_tx
        /\ ~s.sd.changed => s.sd.tx[1] = s.sd.suite
        /\ s.sd.lattr = Session(s.sd.suite, s.sd.key_tx)
    BY <2>2, Zenon DEF Inv, SdesState, SessionsInv
  <2>4. s.known = s.sd.lattr
    BY <2>1, Zenon DEF Inv, SdesSdp
  <2>5. send_handler(s) = s.sd.tx
    BY <2>2, Zenon DEF send_handler
  <2>6. s.sd.tx = <<s.sd.tx[1], s.sd.tx[2]>>
    <3>1. s.sd.tx \in Sessions
      BY Zenon DEF Inv, StreamRec, Sdes
    <3> QED BY <3>1 DEF Sessions
  <2>7. s.known[2] = s.sd.key_tx
    BY <2>3, <2>4 DEF Session
  <2>8. ~s.sd.changed => s.sd.tx = s.known
    BY <2>3, <2>4, <2>6, Zenon DEF Session
  <2> QED BY <2>3, <2>5, <2>7, <2>8, Zenon
<1>3. RxAgrees
  <2> SUFFICES ASSUME Established, s.enc = "sdes", ~s.alien,
                      NEW a \in Supported, NEW k \in 1..MaxKey
               PROVE  recv_handler(s, Session(a, k)) <=> (a = s.suite /\ k = s.peerkey)
    BY Zenon DEF RxAgrees
  <2>1. Connected(s) /\ mnat_ready(s)
    BY Zenon DEF Established, Connected
  <2>2. s.sd.use /\ s.sd.got_sdp /\ s.sd.key_rx = s.peerkey
    BY <2>1, Zenon DEF Inv, SdesMedia
  <2>3. s.suite = s.sd.suite
    BY <2>1, Zenon DEF Inv, SdesSdp
  <2>4. s.sd.rx = Session(s.suite, s.peerkey) /\ s.sd.rx # NoSession
    BY <2>2, <2>3, Zenon DEF Inv, SdesState, SessionsInv
  <2>5. recv_handler(s, Session(a, k)) <=> Session(a, k) = Session(s.suite, s.peerkey)
    BY <2>2, <2>4, Zenon DEF recv_handler
  <2> QED BY <2>5, Zenon DEF Session
<1>4. AnswerFitsOffer
  BY Zenon DEF Inv, AnswerFitsOffer
<1>5. KeysByRole
  BY Zenon DEF Inv, DtlsInv, ComponentInv, KeysByRole
<1>6. OneLayer
  BY Zenon DEF Inv, DtlsInv, ComponentInv, OneLayer
<1> QED BY <1>1, <1>2, <1>3, <1>4, <1>5, <1>6, ZenonT(30) DEF KeysAgree

\* and of the media.
LEMMA MediaFollows ==
  ASSUME Inv(s)
  PROVE  MediaRuns
<1>1. Sends(s) \in BOOLEAN /\ stream_is_ready(s) \in BOOLEAN /\ s \in StreamRec
  BY Conditions, Zenon DEF Inv
<1>2. s.src \in BOOLEAN /\ s.tx \in BOOLEAN
  BY <1>1, Zenon DEF StreamRec
<1>3. AudioRuns
  <2> SUFFICES ASSUME Established, ~s.err
               PROVE  IF stream_is_ready(s)
                        THEN s.tx = Sends(s) /\ s.src = Sends(s) /\ s.rx = Receives(s)
                        ELSE ~s.src /\ ~s.tx
    BY Zenon DEF AudioRuns
  <2>1. s.call = "up" /\ Connected(s)
    BY Zenon DEF Established, Connected
  <2>2. /\ s.tx => stream_is_ready(s) /\ Sends(s)
        /\ stream_is_ready(s) /\ Sends(s) => s.tx
        /\ s.src = (stream_is_ready(s) /\ Sends(s))
        /\ stream_is_ready(s) => s.rx = Receives(s)
    BY <2>1, Zenon DEF Inv, MediaInv
  <2> QED BY <1>1, <1>2, <2>2, Zenon
<1>4. RtcpRuns
  BY Zenon DEF Inv, MediaInv, RtcpRuns, Established, Connected
<1> QED BY <1>3, <1>4, Zenon DEF MediaRuns

-----------------------------------------------------------------------------
(* SRTP with the keys in the SDP *)

\* Only the state of the encryption changes from x to y.
OnlySdes(x, y) ==
  /\ y \in StreamRec /\ SameCall(x, y) /\ y.call = x.call
  /\ y.raddr = x.raddr /\ y.err = x.err /\ y.dt = x.dt
  /\ Flags(y, x.secure, x.tx, x.rx, x.src, x.rtcp)

\* A stream with another struct menc_st.
LEMMA SetSdes ==
  ASSUME NEW x \in StreamRec, NEW d \in Sdes, NEW y, y = [x EXCEPT !.sd = d]
  PROVE  OnlySdes(x, y) /\ y.sd = d
<1>1. y \in StreamRec /\ y.sd = d
  BY DEF StreamRec
<1>2. SameCall(x, y)
  BY Zenon DEF StreamRec, SameCall
<1>3. /\ y.call = x.call /\ y.raddr = x.raddr /\ y.err = x.err /\ y.dt = x.dt
      /\ Flags(y, x.secure, x.tx, x.rx, x.src, x.rtcp)
  BY Zenon DEF StreamRec, Flags
<1> QED BY <1>1, <1>2, <1>3, Zenon DEF OnlySdes

\* Sessions are pairs.
LEMMA SessionType ==
  ASSUME NEW a \in Supported \cup {None}, NEW k \in Nat
  PROVE  /\ Session(a, k) \in Sessions /\ Session(a, k)[1] = a /\ Session(a, k)[2] = k
         /\ a \in Supported => Session(a, k) # NoSession
BY Zenon DEF Session, Sessions, NoSession, Supported, None

LEMMA NoSessionType == NoSession \in Sessions
BY Zenon DEF Session, Sessions, NoSession, None

\* The stream has become secure, and audio runs.
Secured(x, y) ==
  /\ y \in StreamRec /\ SameCall(x, y) /\ y.call = x.call
  /\ y.raddr = x.raddr /\ y.err = x.err
  /\ y.secure /\ y.tx = (x.tx \/ (stream_is_ready(y) /\ Sends(y)))
  /\ y.rx = Receives(y) /\ y.src = Sends(y)

\* The struct menc_st of x and y, but for what the steps below change.
SameSdes(x, y) ==
  y.sd.on = x.sd.on /\ y.sd.got_sdp = x.sd.got_sdp /\ y.sd.key_tx = x.sd.key_tx

\* sdp_attr_handler(): the first step, the suite ...
SetSuite(x, r, a, b) == [x EXCEPT !.sd.rx = r, !.sd.suite = a, !.sd.changed = b]

LEMMA ApplySuite ==
  ASSUME NEW x \in StreamRec, NEW a \in Supported, NEW r \in Sessions, NEW b \in BOOLEAN,
         NEW y, y = SetSuite(x, r, a, b)
  PROVE  /\ OnlySdes(x, y) /\ SameSdes(x, y) /\ y.sd.tx = x.sd.tx
         /\ y.sd.rx = r /\ y.sd.suite = a /\ y.sd.changed = b /\ y.sd.key_rx = x.sd.key_rx
<1> DEFINE d == [x.sd EXCEPT !.rx = r, !.suite = a, !.changed = b]
<1>1. x.sd \in Sdes
  BY Zenon DEF StreamRec
<1>2. d \in Sdes
  BY <1>1, ZenonT(30) DEF Sdes
<1>3. y = [x EXCEPT !.sd = d]
  BY <1>1, ZenonT(30) DEF StreamRec, SetSuite
<1>4. /\ d.on = x.sd.on /\ d.got_sdp = x.sd.got_sdp /\ d.key_tx = x.sd.key_tx
      /\ d.tx = x.sd.tx /\ d.rx = r /\ d.suite = a /\ d.changed = b /\ d.key_rx = x.sd.key_rx
  BY <1>1, Zenon DEF Sdes
<1> HIDE DEF d
<1>5. OnlySdes(x, y) /\ y.sd = d
  BY <1>2, <1>3, SetSdes, Zenon
<1> QED BY <1>4, <1>5, Zenon DEF SameSdes

\* ... the key of the peer ...
SetKey(x, r, k) == [x EXCEPT !.sd.rx = r, !.sd.key_rx = k]

LEMMA ApplyKey ==
  ASSUME NEW x \in StreamRec, NEW k \in 1..MaxKey, NEW r \in Sessions,
         NEW y, y = SetKey(x, r, k)
  PROVE  /\ OnlySdes(x, y) /\ SameSdes(x, y) /\ y.sd.tx = x.sd.tx
         /\ y.sd.suite = x.sd.suite /\ y.sd.changed = x.sd.changed
         /\ y.sd.rx = r /\ y.sd.key_rx = k
<1> DEFINE d == [x.sd EXCEPT !.rx = r, !.key_rx = k]
<1>1. x.sd \in Sdes /\ k \in 0..MaxKey
  BY BoundsAssumption DEF StreamRec
<1>2. d \in Sdes
  BY <1>1, ZenonT(30) DEF Sdes
<1>3. y = [x EXCEPT !.sd = d]
  BY <1>1, ZenonT(30) DEF StreamRec, SetKey
<1>4. /\ d.on = x.sd.on /\ d.got_sdp = x.sd.got_sdp /\ d.key_tx = x.sd.key_tx
      /\ d.tx = x.sd.tx /\ d.suite = x.sd.suite /\ d.changed = x.sd.changed
      /\ d.rx = r /\ d.key_rx = k
  BY <1>1, Zenon DEF Sdes
<1> HIDE DEF d
<1>5. OnlySdes(x, y) /\ y.sd = d
  BY <1>2, <1>3, SetSdes, Zenon
<1> QED BY <1>4, <1>5, Zenon DEF SameSdes

\* ... the sessions ...
Started(session, suite, key) == IF session = NoSession THEN Session(suite, key) ELSE session

LEMMA StartSessions ==
  ASSUME NEW x \in StreamRec, x.sd.suite \in Supported, NEW y, y = start_srtp(x)
  PROVE  /\ OnlySdes(x, y) /\ SameSdes(x, y) /\ y.sd.use
         /\ y.sd.suite = x.sd.suite /\ y.sd.changed = x.sd.changed /\ y.sd.key_rx = x.sd.key_rx
         /\ y.sd.tx = Started(x.sd.tx, x.sd.suite, x.sd.key_tx)
         /\ y.sd.rx = Started(x.sd.rx, x.sd.suite, x.sd.key_rx)
<1> DEFINE t == Started(x.sd.tx, x.sd.suite, x.sd.key_tx)
           r == Started(x.sd.rx, x.sd.suite, x.sd.key_rx)
           d == [x.sd EXCEPT !.tx = t, !.rx = r, !.use = TRUE]
<1>1. x.sd \in Sdes
  BY Zenon DEF StreamRec
<1>2. t \in Sessions /\ r \in Sessions
  <2>1. /\ x.sd.key_tx \in Nat /\ x.sd.key_rx \in Nat
        /\ x.sd.tx \in Sessions /\ x.sd.rx \in Sessions
    BY <1>1, BoundsAssumption DEF Sdes
  <2> QED BY <2>1, SessionType, Zenon DEF Started
<1>3. y = [x EXCEPT !.sd.tx = t, !.sd.rx = r, !.sd.use = TRUE]
  <2>1. y = [x EXCEPT !.sd.tx = IF x.sd.tx = NoSession THEN Session(x.sd.suite, x.sd.key_tx) ELSE @,
                      !.sd.rx = IF x.sd.rx = NoSession THEN Session(x.sd.suite, x.sd.key_rx) ELSE @,
                      !.sd.use = TRUE]
    BY Zenon DEF start_srtp
  <2>2. [x EXCEPT !.sd.tx = t].sd.rx = x.sd.rx
    <3> HIDE DEF t
    <3> QED BY <1>1, <1>2, Zenon DEF StreamRec, Sdes
  <2> QED BY <2>1, <2>2, Zenon DEF Started
<1> HIDE DEF t, r
<1>4. d \in Sdes
  BY <1>1, <1>2, ZenonT(30) DEF Sdes
<1>5. y = [x EXCEPT !.sd = d]
  BY <1>1, <1>3, ZenonT(30) DEF StreamRec
<1>6. /\ d.on = x.sd.on /\ d.got_sdp = x.sd.got_sdp /\ d.key_tx = x.sd.key_tx /\ d.use
      /\ d.tx = t /\ d.suite = x.sd.suite /\ d.changed = x.sd.changed
      /\ d.rx = r /\ d.key_rx = x.sd.key_rx
  BY <1>1, Zenon DEF Sdes
<1> HIDE DEF d
<1>7. OnlySdes(x, y) /\ y.sd = d
  BY <1>4, <1>5, SetSdes, Zenon
<1> QED BY <1>6, <1>7, Zenon DEF SameSdes, t, r

\* ... and the a=crypto line.
LEMMA EncodeAttr ==
  ASSUME NEW x \in StreamRec, NEW y, y = sdp_enc(x)
  PROVE  /\ OnlySdes(x, y) /\ SameSdes(x, y) /\ y.sd.use = x.sd.use
         /\ y.sd.suite = x.sd.suite /\ y.sd.changed = x.sd.changed /\ y.sd.key_rx = x.sd.key_rx
         /\ y.sd.tx = x.sd.tx /\ y.sd.rx = x.sd.rx
         /\ y.sd.lattr = Session(x.sd.suite, x.sd.key_tx)
<1> DEFINE l == Session(x.sd.suite, x.sd.key_tx)
           d == [x.sd EXCEPT !.lattr = l]
<1>1. x.sd \in Sdes
  BY Zenon DEF StreamRec
<1>2. l \in Sessions
  BY <1>1, BoundsAssumption, SessionType DEF Sdes
<1>3. y = [x EXCEPT !.sd.lattr = l]
  BY Zenon DEF sdp_enc
<1> HIDE DEF l
<1>4. d \in Sdes
  BY <1>1, <1>2, Zenon DEF Sdes
<1>5. y = [x EXCEPT !.sd = d]
  BY <1>1, <1>3, Zenon DEF StreamRec
<1>6. /\ d.on = x.sd.on /\ d.got_sdp = x.sd.got_sdp /\ d.key_tx = x.sd.key_tx
      /\ d.use = x.sd.use /\ d.tx = x.sd.tx /\ d.suite = x.sd.suite
      /\ d.changed = x.sd.changed /\ d.rx = x.sd.rx /\ d.key_rx = x.sd.key_rx /\ d.lattr = l
  BY <1>1, Zenon DEF Sdes
<1> HIDE DEF d
<1>7. OnlySdes(x, y) /\ y.sd = d
  BY <1>4, <1>5, SetSdes, Zenon
<1> QED BY <1>6, <1>7, Zenon DEF SameSdes, l

\* sdp_attr_handler(): the attribute is applied.  The session for receiving is of
\* its suite and key; that for sending is kept if there was one.
LEMMA ApplyAttr ==
  ASSUME NEW x \in StreamRec, x.rsdp.port, x.sd.on, SessionsInv(x),
         NEW c \in Attrs, c.suite \in Supported, NEW y, y = sdp_attr_handler(x, c)
  PROVE  /\ Secured(x, y) /\ y.dt = x.dt /\ y.rtcp = x.rtcp /\ SdesState(y)
         /\ y.sd.on /\ y.sd.use /\ y.sd.got_sdp = x.sd.got_sdp
         /\ y.sd.suite = c.suite /\ y.sd.key_rx = c.key /\ y.sd.key_tx = x.sd.key_tx
<1> DEFINE r1 == IF x.sd.suite # c.suite THEN NoSession ELSE x.sd.rx
           b1 == x.sd.changed \/ (x.sd.tx # NoSession /\ x.sd.suite # c.suite)
           x1 == SetSuite(x, r1, c.suite, b1)
           r2 == IF x1.sd.key_rx # c.key THEN NoSession ELSE x1.sd.rx
           x2 == SetKey(x1, r2, c.key)
           x3 == start_srtp(x2)
           x4 == menc_event_handler(x3, "RTP")
<1>1. x.sd \in Sdes /\ c.key \in 1..MaxKey /\ MaxKey \in Nat
  BY BoundsAssumption, Zenon DEF StreamRec, Attrs
<1>2. r1 \in Sessions /\ b1 \in BOOLEAN
  BY <1>1, NoSessionType, Zenon DEF Sdes
<1>3. y = sdp_enc(x4)
  <2>1. x1 = [x EXCEPT !.sd.rx = IF x.sd.suite # c.suite THEN NoSession ELSE @,
                       !.sd.suite = c.suite,
                       !.sd.changed = @ \/ (x.sd.tx # NoSession /\ x.sd.suite # c.suite)]
    <3> HIDE DEF r1
    <3>1. [x EXCEPT !.sd.rx = r1, !.sd.suite = c.suite].sd.changed = x.sd.changed
      BY <1>1, ZenonT(30) DEF StreamRec, Sdes
    <3> QED BY <3>1, Zenon DEF r1, SetSuite
  <2>2. x2 = [x1 EXCEPT !.sd.rx = IF x1.sd.key_rx # c.key THEN NoSession ELSE @,
                        !.sd.key_rx = c.key]
    BY Zenon DEF SetKey
  <2> HIDE DEF x1, x2, x3, x4
  <2>3. y = sdp_enc(start_crypto(x1, c.key))
    BY <2>1, Zenon DEF sdp_attr_handler
  <2>4. start_crypto(x1, c.key) = menc_event_handler(start_srtp(x2), "RTP")
    BY <2>2, Zenon DEF start_crypto
  <2> QED BY <2>3, <2>4, Zenon DEF x3, x4
<1> HIDE DEF r1, b1
<1>4. /\ OnlySdes(x, x1) /\ SameSdes(x, x1) /\ x1.sd.tx = x.sd.tx
      /\ x1.sd.rx = r1 /\ x1.sd.suite = c.suite /\ x1.sd.changed = b1
      /\ x1.sd.key_rx = x.sd.key_rx
  BY <1>2, ApplySuite
<1> HIDE DEF x1
<1>5. x1 \in StreamRec /\ r2 \in Sessions
  BY <1>2, <1>4, NoSessionType, Zenon DEF OnlySdes
<1> HIDE DEF r2
<1>6. /\ OnlySdes(x1, x2) /\ SameSdes(x1, x2) /\ x2.sd.tx = x1.sd.tx
      /\ x2.sd.suite = x1.sd.suite /\ x2.sd.changed = x1.sd.changed
      /\ x2.sd.rx = r2 /\ x2.sd.key_rx = c.key
  BY <1>1, <1>5, ApplyKey
<1> HIDE DEF x2
<1>7. x2 \in StreamRec /\ x2.sd.suite = c.suite
  BY <1>4, <1>6, Zenon DEF OnlySdes
<1>8. /\ OnlySdes(x2, x3) /\ SameSdes(x2, x3) /\ x3.sd.use
      /\ x3.sd.suite = x2.sd.suite /\ x3.sd.changed = x2.sd.changed
      /\ x3.sd.key_rx = x2.sd.key_rx
      /\ x3.sd.tx = Started(x2.sd.tx, x2.sd.suite, x2.sd.key_tx)
      /\ x3.sd.rx = Started(x2.sd.rx, x2.sd.suite, x2.sd.key_rx)
  BY <1>7, StartSessions, Zenon
<1> HIDE DEF x3
<1>9. SameCall(x, x3) /\ x3 \in StreamRec /\ x3.call = x.call /\ x3.raddr = x.raddr
      /\ x3.err = x.err /\ x3.dt = x.dt
      /\ Flags(x3, x.secure, x.tx, x.rx, x.src, x.rtcp)
  <2>1. SameCall(x, x3)
    BY <1>4, <1>6, <1>8, SameTrans, Zenon DEF OnlySdes
  <2> QED BY <1>4, <1>6, <1>8, <2>1, ZenonT(30) DEF OnlySdes, Flags
<1>10. x3.rsdp.port
  BY <1>9, Zenon DEF SameCall
<1>11. /\ OnlyFlags(x3, x4)
       /\ Flags(x4, TRUE, x3.tx \/ (stream_is_ready(x4) /\ Sends(x4)), Receives(x4), Sends(x4),
                x3.rtcp \/ "RTP" = "RTCP")
  BY <1>9, <1>10, SecureEvent, ZenonT(30) DEF Components
<1> HIDE DEF x4
<1>12. x4 \in StreamRec /\ x4.rtcp = x.rtcp
  <2>1. x3.rtcp \in BOOLEAN
    BY <1>9, Zenon DEF StreamRec
  <2> QED BY <1>9, <1>11, <2>1, ZenonT(30) DEF OnlyFlags, Flags
<1>13. /\ OnlySdes(x4, y) /\ SameSdes(x4, y) /\ y.sd.use = x4.sd.use
       /\ y.sd.suite = x4.sd.suite /\ y.sd.changed = x4.sd.changed
       /\ y.sd.key_rx = x4.sd.key_rx /\ y.sd.tx = x4.sd.tx /\ y.sd.rx = x4.sd.rx
       /\ y.sd.lattr = Session(x4.sd.suite, x4.sd.key_tx)
  BY <1>3, <1>12, EncodeAttr, ZenonT(30)
<1>14. SameCall(x, y) /\ SameCall(x4, y)
  BY <1>9, <1>11, <1>13, SameTrans, Zenon DEF OnlyFlags, OnlySdes
<1>15. stream_is_ready(y) = stream_is_ready(x4) /\ Sends(y) = Sends(x4) /\ Receives(y) = Receives(x4)
  BY <1>13, <1>14, ReadySame, Zenon DEF OnlySdes, Flags
<1>16. Secured(x, y) /\ y.dt = x.dt /\ y.rtcp = x.rtcp
  BY <1>9, <1>11, <1>12, <1>13, <1>14, <1>15, Zenon
  DEF Secured, OnlyFlags, OnlySdes, SameState, Flags
<1>17. x4.sd = x3.sd
  BY <1>11, Zenon DEF OnlyFlags, SameState
<1>18. /\ y.sd.on = x.sd.on /\ y.sd.use /\ y.sd.got_sdp = x.sd.got_sdp
       /\ y.sd.suite = c.suite /\ y.sd.key_rx = c.key /\ y.sd.key_tx = x.sd.key_tx
       /\ y.sd.changed = b1 /\ y.sd.lattr = Session(c.suite, x.sd.key_tx)
       /\ y.sd.tx = Started(x.sd.tx, c.suite, x.sd.key_tx)
       /\ y.sd.rx = Started(r2, c.suite, c.key)
  <2>1. /\ x2.sd.on = x.sd.on /\ x2.sd.got_sdp = x.sd.got_sdp /\ x2.sd.key_tx = x.sd.key_tx
        /\ x2.sd.tx = x.sd.tx /\ x2.sd.changed = b1 /\ x2.sd.suite = c.suite
    BY <1>4, <1>6, Zenon DEF SameSdes
  <2>2. /\ x3.sd.on = x.sd.on /\ x3.sd.got_sdp = x.sd.got_sdp /\ x3.sd.key_tx = x.sd.key_tx
        /\ x3.sd.changed = b1 /\ x3.sd.suite = c.suite /\ x3.sd.key_rx = c.key
        /\ x3.sd.tx = Started(x.sd.tx, c.suite, x.sd.key_tx)
        /\ x3.sd.rx = Started(r2, c.suite, c.key)
    BY <1>6, <1>8, <2>1, ZenonT(30) DEF SameSdes
  <2>3. y.sd.use
    BY <1>8, <1>13, <1>17, Zenon
  <2>4. SameSdes(x3, y) /\ y.sd.suite = x3.sd.suite /\ y.sd.changed = x3.sd.changed
        /\ y.sd.key_rx = x3.sd.key_rx /\ y.sd.tx = x3.sd.tx /\ y.sd.rx = x3.sd.rx
        /\ y.sd.lattr = Session(x3.sd.suite, x3.sd.key_tx)
    BY <1>13, <1>17, Zenon DEF SameSdes
  <2> QED BY <2>2, <2>3, <2>4, Zenon DEF SameSdes
<1>19. y.sd.rx = Session(c.suite, c.key)
  <2>1. x1.sd.key_rx = x.sd.key_rx /\ x1.sd.rx = r1
    BY <1>4, Zenon
  <2>2. CASE x.sd.suite = c.suite /\ x.sd.key_rx = c.key
    <3>1. r2 = x.sd.rx
      BY <2>1, <2>2, Zenon DEF r1, r2
    <3> QED BY <1>18, <2>2, <3>1, Zenon DEF SessionsInv, Started
  <2>3. CASE ~(x.sd.suite = c.suite /\ x.sd.key_rx = c.key)
    <3>1. r2 = NoSession
      BY <2>1, <2>3, Zenon DEF r1, r2
    <3> QED BY <1>18, <3>1, Zenon DEF Started
  <2> QED BY <2>2, <2>3, Zenon
<1>20. SdesState(y)
  <2>1. /\ Session(c.suite, c.key) # NoSession
        /\ Session(c.suite, x.sd.key_tx) # NoSession
        /\ Session(c.suite, x.sd.key_tx)[1] = c.suite
        /\ Session(c.suite, x.sd.key_tx)[2] = x.sd.key_tx
    <3>1. x.sd.key_tx \in Nat /\ c.key \in Nat
      BY <1>1 DEF Sdes
    <3> QED BY <3>1, SessionType
  <2>2. y.sd.tx # NoSession /\ y.sd.tx[1] \in Supported /\ y.sd.tx[2] = x.sd.key_tx
    BY <1>18, <2>1, Zenon DEF SessionsInv, Started
  <2>3. ~y.sd.changed => y.sd.tx[1] = c.suite
    BY <1>18, <2>1, ZenonT(30) DEF SessionsInv, Started, b1
  <2> QED BY <1>18, <1>19, <2>1, <2>2, <2>3, ZenonT(30) DEF SdesState, SessionsInv
<1> QED BY <1>16, <1>18, <1>20, Zenon

\* The first attribute of the peer that is supported is its last one.
LEMMA AppliesLast ==
  ASSUME NEW x, NEW l \in Seq(Attrs), NEW key, Offered(l, key)
  PROVE  /\ attr_apply(x, l) = sdp_attr_handler(x, Last(l))
         /\ \E i \in 1..Len(l) : l[i].suite \in Supported
         /\ Last(l) \in Attrs /\ Last(l).suite \in Supported /\ Last(l).key = key
<1> DEFINE good == {i \in 1..Len(l) : l[i].suite \in Supported}
<1>1. Len(l) \in {1, 2} /\ Len(l) \in 1..Len(l) /\ l[Len(l)].suite \in Supported
  BY DEF Offered, Last
<1>2. \A i \in 1..Len(l) : i # Len(l) => l[i].suite \notin Supported
  <2>1. ASSUME NEW i \in 1..Len(l), i # Len(l)
        PROVE  l[i].suite \notin Supported
    <3>1. Len(l) = 2 /\ i = 1
      BY <1>1, <2>1
    <3> QED BY <3>1, Zenon DEF Offered, Supported
  <2> QED BY <2>1, Zenon
<1>3. good = {Len(l)}
  BY <1>1, <1>2, Zenon
<1>4. (CHOOSE i \in good : \A j \in good : i <= j) = Len(l)
  <2>1. \A i \in good : \A j \in good : i <= j
    BY <1>1, <1>3
  <2> HIDE DEF good
  <2> QED BY <1>3, <2>1, Zenon
<1>5. attr_apply(x, l) = sdp_attr_handler(x, Last(l))
  <2>1. good # {}
    BY <1>3, Zenon
  <2> QED BY <1>4, <2>1, Zenon DEF attr_apply, Last
<1>6. Last(l) \in Attrs
  BY <1>1 DEF Last
<1> QED BY <1>1, <1>5, <1>6, Zenon DEF Offered, Last

\* media_alloc() of "srtp": the struct is made by the first call.
Allocated(x) ==
  IF x.sd.on THEN x
  ELSE [x EXCEPT !.sd.on = TRUE, !.sd.suite = preferred_suite, !.sd.key_tx = 1]

LEMMA AllocStruct ==
  ASSUME NEW x \in StreamRec, SdesState(x), NEW y, y = Allocated(x)
  PROVE  /\ OnlySdes(x, y) /\ y.sd.on /\ SessionsInv(y) /\ y.sd.suite \in Supported
         /\ x.sd.on => y = x
         /\ y.sd.got_sdp = x.sd.got_sdp /\ y.sd.use = x.sd.use
         /\ y.sd.tx = x.sd.tx /\ y.sd.rx = x.sd.rx
<1>1. CASE x.sd.on
  <2>1. y = x
    BY <1>1, Zenon DEF Allocated
  <2>2. OnlySdes(x, x)
    BY Zenon DEF OnlySdes, SameCall, Flags
  <2> QED BY <1>1, <2>1, <2>2, ZenonT(30) DEF SdesState
<1>2. CASE ~x.sd.on
  <2> DEFINE d == [x.sd EXCEPT !.on = TRUE, !.suite = preferred_suite, !.key_tx = 1]
  <2>1. x.sd \in Sdes /\ 1 \in 0..MaxKey /\ preferred_suite \in Supported
    BY BoundsAssumption DEF StreamRec, Supported, preferred_suite
  <2>2. d \in Sdes
    BY <2>1, ZenonT(30) DEF Sdes
  <2>3. y = [x EXCEPT !.sd = d]
    BY <1>2, <2>1, ZenonT(30) DEF StreamRec, Allocated
  <2>4. /\ d.on /\ d.suite = preferred_suite /\ d.got_sdp = x.sd.got_sdp /\ d.use = x.sd.use
        /\ d.tx = x.sd.tx /\ d.rx = x.sd.rx
    BY <2>1, Zenon DEF Sdes
  <2> HIDE DEF d
  <2>5. OnlySdes(x, y) /\ y.sd = d
    BY <2>2, <2>3, SetSdes, Zenon
  <2> QED BY <1>2, <2>1, <2>4, <2>5, ZenonT(30) DEF SdesState, SessionsInv
<1> QED BY <1>1, <1>2, ZenonT(30)

\* From x to y the media may have changed, but not the address, RTCP and DTLS.
OnlyMedia(x, y) ==
  /\ y \in StreamRec /\ SameCall(x, y) /\ y.call = x.call
  /\ y.raddr = x.raddr /\ y.rtcp = x.rtcp /\ y.dt = x.dt

\* The peer's attributes are in use.
Applied(x, y) ==
  /\ y.secure /\ y.tx = (x.tx \/ (stream_is_ready(y) /\ Sends(y)))
  /\ y.rx = Receives(y) /\ y.src = Sends(y)
  /\ y.sd.use /\ y.sd.suite = Last(x.rsdp.crypto).suite /\ y.sd.key_rx = x.peerkey

\* What the SDP of the peer has for "srtp".
CryptoInv(x) ==
  IF x.rsdp.port THEN Offered(x.rsdp.crypto, x.peerkey) ELSE x.rsdp.crypto = <<>>

\* attr_apply() with the attributes of the latest SDP.
LEMMA ApplySdp ==
  ASSUME NEW x \in StreamRec, x.sd.on, SessionsInv(x), x.rsdp.port, CryptoInv(x),
         NEW y, y = attr_apply(x, x.rsdp.crypto)
  PROVE  /\ OnlyMedia(x, y) /\ y.err = x.err /\ Applied(x, y) /\ SdesState(y)
         /\ y.sd.on /\ y.sd.got_sdp = x.sd.got_sdp /\ y.sd.key_tx = x.sd.key_tx
<1> DEFINE c == Last(x.rsdp.crypto)
<1>1. x.rsdp.crypto \in Seq(Attrs) /\ Offered(x.rsdp.crypto, x.peerkey)
  BY Zenon DEF StreamRec, Sdps, CryptoInv
<1>2. y = sdp_attr_handler(x, c) /\ c \in Attrs /\ c.suite \in Supported /\ c.key = x.peerkey
  BY <1>1, AppliesLast, Zenon
<1> HIDE DEF c
<1>3. /\ Secured(x, y) /\ y.dt = x.dt /\ y.rtcp = x.rtcp /\ SdesState(y)
      /\ y.sd.on /\ y.sd.use /\ y.sd.got_sdp = x.sd.got_sdp
      /\ y.sd.suite = c.suite /\ y.sd.key_rx = c.key /\ y.sd.key_tx = x.sd.key_tx
  BY <1>2, ApplyAttr
<1> QED BY <1>2, <1>3, ZenonT(30) DEF Secured, OnlyMedia, Applied, c

\* got_sdp is set, and there is no error.
SetSdp(x, b) == [x EXCEPT !.sd.got_sdp = b, !.err = FALSE]

WithSdp(x, b, y) ==
  /\ OnlyMedia(x, y) /\ ~y.err /\ Flags(y, x.secure, x.tx, x.rx, x.src, x.rtcp)
  /\ y.sd.got_sdp = b /\ y.sd.on = x.sd.on /\ y.sd.use = x.sd.use
  /\ y.sd.suite = x.sd.suite /\ y.sd.key_tx = x.sd.key_tx /\ y.sd.key_rx = x.sd.key_rx
  /\ y.sd.tx = x.sd.tx /\ y.sd.rx = x.sd.rx /\ y.sd.changed = x.sd.changed

LEMMA GotSdp ==
  ASSUME NEW x \in StreamRec, NEW b \in BOOLEAN, NEW y, y = SetSdp(x, b)
  PROVE  WithSdp(x, b, y)
<1> DEFINE d == [x.sd EXCEPT !.got_sdp = b]
           a == [x EXCEPT !.sd = d]
<1>1. x.sd \in Sdes
  BY Zenon DEF StreamRec
<1>2. d \in Sdes
  BY <1>1, Zenon DEF Sdes
<1>3. y = [a EXCEPT !.err = FALSE]
  BY <1>1, Zenon DEF StreamRec, SetSdp
<1>4. /\ d.got_sdp = b /\ d.on = x.sd.on /\ d.use = x.sd.use
      /\ d.suite = x.sd.suite /\ d.key_tx = x.sd.key_tx /\ d.key_rx = x.sd.key_rx
      /\ d.tx = x.sd.tx /\ d.rx = x.sd.rx /\ d.changed = x.sd.changed
  BY <1>1, Zenon DEF Sdes
<1> HIDE DEF d
<1>5. OnlySdes(x, a) /\ a.sd = d
  BY <1>2, SetSdes, Zenon
<1> HIDE DEF a
<1>6. /\ y \in StreamRec /\ ~y.err /\ y.sd = a.sd /\ y.call = a.call /\ y.raddr = a.raddr
      /\ y.dt = a.dt /\ Flags(y, a.secure, a.tx, a.rx, a.src, a.rtcp)
  <2>1. a \in StreamRec
    BY <1>5, Zenon DEF OnlySdes
  <2>2. OnlyDtls(a, y) /\ y.dt = a.dt /\ y.err = FALSE
    BY <1>3, <2>1, SetErr, ZenonT(30)
  <2> QED BY <2>2, ZenonT(30) DEF OnlyDtls
<1>7. SameCall(a, y)
  BY <1>3, <1>5 DEF OnlySdes, StreamRec, SameCall
<1>8. SameCall(x, y)
  BY <1>5, <1>7, SameTrans, Zenon DEF OnlySdes
<1>9. OnlyMedia(x, y) /\ Flags(y, x.secure, x.tx, x.rx, x.src, x.rtcp)
  BY <1>5, <1>6, <1>8, Zenon DEF OnlySdes, OnlyMedia, Flags
<1> QED BY <1>4, <1>5, <1>6, <1>9, ZenonT(30) DEF WithSdp

\* media_alloc(): the attributes are applied if there are any.
LEMMA SdesAlloc ==
  ASSUME NEW x \in StreamRec, SdesState(x), CryptoInv(x), NEW y, y = srtp_media_alloc(x)
  PROVE  /\ OnlyMedia(x, y) /\ ~y.err /\ SdesState(y) /\ y.sd.on
         /\ x.rsdp.port => Applied(x, y) /\ y.sd.got_sdp
         /\ ~x.rsdp.port => Flags(y, x.secure, x.tx, x.rx, x.src, x.rtcp)
         /\ x.sd.on => y.sd.key_tx = x.sd.key_tx
<1> DEFINE a == Allocated(x)
           b == a.sd.got_sdp \/ x.rsdp.port
           z == SetSdp(a, b)
<1>1. y = IF \E i \in 1..Len(x.rsdp.crypto) : x.rsdp.crypto[i].suite \in Supported
          THEN attr_apply(z, x.rsdp.crypto) ELSE sdp_enc(z)
  BY Zenon DEF srtp_media_alloc, Allocated, SetSdp
<1>2. /\ OnlySdes(x, a) /\ a.sd.on /\ SessionsInv(a) /\ a.sd.suite \in Supported
      /\ x.sd.on => a = x
      /\ a.sd.got_sdp = x.sd.got_sdp /\ a.sd.use = x.sd.use
      /\ a.sd.tx = x.sd.tx /\ a.sd.rx = x.sd.rx
  BY AllocStruct, Zenon
<1> HIDE DEF a
<1>3. b \in BOOLEAN /\ a \in StreamRec /\ (x.rsdp.port => b)
  BY <1>2, Zenon DEF OnlySdes
<1> HIDE DEF b
<1>4. /\ OnlyMedia(a, z) /\ ~z.err /\ Flags(z, a.secure, a.tx, a.rx, a.src, a.rtcp)
      /\ z.sd.got_sdp = b /\ z.sd.on = a.sd.on /\ z.sd.use = a.sd.use
      /\ z.sd.suite = a.sd.suite /\ z.sd.key_tx = a.sd.key_tx /\ z.sd.key_rx = a.sd.key_rx
      /\ z.sd.tx = a.sd.tx /\ z.sd.rx = a.sd.rx /\ z.sd.changed = a.sd.changed
  <2>1. z = SetSdp(a, b)
    BY Zenon
  <2> HIDE DEF z
  <2>2. WithSdp(a, b, z)
    BY <1>3, <2>1, GotSdp, Zenon
  <2> QED BY <2>2, Zenon DEF WithSdp
<1> HIDE DEF z
<1>5. SameCall(x, z)
  BY <1>2, <1>4, SameTrans, Zenon DEF OnlySdes, OnlyMedia
<1>6. OnlyMedia(x, z) /\ Flags(z, x.secure, x.tx, x.rx, x.src, x.rtcp)
  BY <1>2, <1>4, <1>5, Zenon DEF OnlySdes, OnlyMedia, Flags
<1>7. z \in StreamRec /\ z.rsdp = x.rsdp /\ z.peerkey = x.peerkey /\ z.sd.on /\ SessionsInv(z)
      /\ z.sd.suite \in Supported
  BY <1>2, <1>4, <1>6 DEF OnlyMedia, SameCall, SessionsInv
<1>8. x.sd.on => z.sd.key_tx = x.sd.key_tx
  BY <1>2, <1>4, Zenon
<1>9. CASE x.rsdp.port
  <2>1. y = attr_apply(z, z.rsdp.crypto)
    <3>1. x.rsdp.crypto \in Seq(Attrs) /\ Offered(x.rsdp.crypto, x.peerkey)
      BY <1>9, Zenon DEF StreamRec, Sdps, CryptoInv
    <3>2. \E i \in 1..Len(x.rsdp.crypto) : x.rsdp.crypto[i].suite \in Supported
      BY <3>1, AppliesLast, Zenon
    <3> QED BY <1>1, <1>7, <3>2, Zenon
  <2>2. z.rsdp.port /\ CryptoInv(z)
    BY <1>7, <1>9, Zenon DEF CryptoInv
  <2>3. /\ OnlyMedia(z, y) /\ y.err = z.err /\ Applied(z, y) /\ SdesState(y)
        /\ y.sd.on /\ y.sd.got_sdp = z.sd.got_sdp /\ y.sd.key_tx = z.sd.key_tx
    BY <1>7, <2>1, <2>2, ApplySdp, Zenon
  <2>4. SameCall(x, y)
    BY <1>5, <2>3, SameTrans, Zenon DEF OnlyMedia
  <2>5. OnlyMedia(x, y)
    BY <1>6, <2>3, <2>4, ZenonT(30) DEF OnlyMedia
  <2>6. Applied(x, y)
    BY <1>6, <1>7, <2>3, Zenon DEF Applied, Flags
  <2>7. ~y.err /\ y.sd.got_sdp
    BY <1>3, <1>4, <1>9, <2>3, Zenon
  <2> QED BY <1>8, <1>9, <2>3, <2>5, <2>6, <2>7, Zenon
<1>10. CASE ~x.rsdp.port
  <2>1. y = sdp_enc(z)
    BY <1>1, <1>10 DEF CryptoInv
  <2>2. /\ OnlySdes(z, y) /\ SameSdes(z, y) /\ y.sd.use = z.sd.use
        /\ y.sd.suite = z.sd.suite /\ y.sd.changed = z.sd.changed /\ y.sd.key_rx = z.sd.key_rx
        /\ y.sd.tx = z.sd.tx /\ y.sd.rx = z.sd.rx
        /\ y.sd.lattr = Session(z.sd.suite, z.sd.key_tx)
    BY <1>7, <2>1, EncodeAttr, ZenonT(30)
  <2>3. SameCall(x, y)
    BY <1>5, <2>2, SameTrans, Zenon DEF OnlySdes
  <2>4. OnlyMedia(x, y) /\ Flags(y, x.secure, x.tx, x.rx, x.src, x.rtcp) /\ ~y.err
    BY <1>4, <1>6, <2>2, <2>3, Zenon DEF OnlyMedia, OnlySdes, Flags
  <2>5. /\ y.sd.on /\ y.sd.use = x.sd.use /\ y.sd.tx = x.sd.tx /\ y.sd.rx = x.sd.rx
        /\ y.sd.key_tx = z.sd.key_tx
    BY <1>2, <1>4, <2>2, Zenon DEF SameSdes
  <2>6. SessionsInv(y)
    BY <1>7, <2>2, <2>5, Zenon DEF SessionsInv
  <2>7. SdesState(y)
    BY <1>7, <2>2, <2>5, <2>6, Zenon DEF SdesState
  <2> QED BY <1>8, <1>10, <2>4, <2>5, <2>7, Zenon
<1> QED BY <1>9, <1>10, Zenon

\* media_txrekey(): a new key of ours is in use, with what the peer sent last.
LEMMA Rekey ==
  ASSUME NEW x \in StreamRec, x.sd.on, SessionsInv(x), x.rsdp.port, CryptoInv(x),
         x.sd.key_tx < MaxKey, NEW y, y = media_txrekey(x)
  PROVE  /\ OnlyMedia(x, y) /\ y.err = x.err /\ Applied(x, y) /\ SdesState(y)
         /\ y.sd.on /\ y.sd.got_sdp = x.sd.got_sdp
<1> DEFINE k == x.sd.key_tx + 1
           d == [x.sd EXCEPT !.tx = NoSession, !.key_tx = k, !.changed = FALSE]
           a == [x EXCEPT !.sd.tx = NoSession, !.sd.key_tx = k, !.sd.changed = FALSE]
<1>1. x.sd \in Sdes /\ k \in 0..MaxKey /\ NoSession \in Sessions
  BY BoundsAssumption, NoSessionType DEF StreamRec, Sdes
<1>2. y = attr_apply(a, x.rsdp.crypto)
  <2>1. [x EXCEPT !.sd.tx = NoSession].sd.key_tx = x.sd.key_tx
    BY <1>1, Zenon DEF StreamRec, Sdes
  <2> QED BY <2>1, Zenon DEF media_txrekey
<1> HIDE DEF k
<1>3. d \in Sdes
  BY <1>1, ZenonT(30) DEF Sdes
<1>4. a = [x EXCEPT !.sd = d]
  BY <1>1, ZenonT(30) DEF StreamRec
<1>5. /\ d.on = x.sd.on /\ d.got_sdp = x.sd.got_sdp /\ d.suite = x.sd.suite
      /\ d.key_rx = x.sd.key_rx /\ d.rx = x.sd.rx /\ d.tx = NoSession
  BY <1>1, ZenonT(30) DEF Sdes
<1> HIDE DEF a, d
<1>6. OnlySdes(x, a) /\ a.sd = d
  BY <1>3, <1>4, SetSdes, Zenon
<1>7. /\ a \in StreamRec /\ a.sd.on /\ SessionsInv(a) /\ a.rsdp = x.rsdp /\ a.peerkey = x.peerkey
  BY <1>5, <1>6, ZenonT(30) DEF OnlySdes, SameCall, SessionsInv
<1>8. a.rsdp.port /\ CryptoInv(a)
  BY <1>7, Zenon DEF CryptoInv
<1>9. /\ OnlyMedia(a, y) /\ y.err = a.err /\ Applied(a, y) /\ SdesState(y)
      /\ y.sd.on /\ y.sd.got_sdp = a.sd.got_sdp
  BY <1>2, <1>7, <1>8, ApplySdp
<1>10. SameCall(x, y)
  BY <1>6, <1>9, SameTrans, Zenon DEF OnlySdes, OnlyMedia
<1>11. OnlyMedia(x, y) /\ y.err = x.err
  BY <1>6, <1>9, <1>10, Zenon DEF OnlySdes, OnlyMedia, Flags
<1>12. Applied(x, y)
  BY <1>6, <1>7, <1>9, Zenon DEF Applied, OnlySdes, Flags
<1> QED BY <1>5, <1>6, <1>9, <1>11, <1>12, Zenon

-----------------------------------------------------------------------------
(* SRTP with the keys of a DTLS handshake *)

\* The stack has refused something.
Refuse(x) == [x EXCEPT !.err = TRUE, !.dt.failed = TRUE]

LEMMA Refused ==
  ASSUME NEW x \in StreamRec, NEW y, y = Refuse(x)
  PROVE  OnlyDtls(x, y) /\ SameRole(x, y) /\ y.dt.comp = x.dt.comp /\ y.err
<1> DEFINE a == [x EXCEPT !.err = TRUE]
           d == [a.dt EXCEPT !.failed = TRUE]
<1>1. OnlyDtls(x, a) /\ a.dt = x.dt /\ a.err = TRUE
  BY SetErr, ZenonT(30)
<1>2. y = [a EXCEPT !.dt = d]
  BY Zenon DEF Refuse
<1> HIDE DEF a
<1>3. a \in StreamRec /\ a.dt \in Dtls
  BY <1>1, Zenon DEF OnlyDtls, StreamRec
<1>4. d \in Dtls
  BY <1>3, ZenonT(30) DEF Dtls
<1>5. /\ d.comp = a.dt.comp /\ d.active = a.dt.active /\ d.swapped = a.dt.swapped
      /\ d.again = a.dt.again /\ d.early = a.dt.early
  BY <1>3, Zenon DEF Dtls
<1> HIDE DEF d
<1>6. OnlyDtls(a, y) /\ y.dt = d /\ y.err = a.err
  BY <1>2, <1>3, <1>4, SetDtls
<1>7. OnlyDtls(x, y)
  BY <1>1, <1>6, DtlsTrans, Zenon
<1>8. SameRole(x, y) /\ y.dt.comp = x.dt.comp
  BY <1>1, <1>5, <1>6, Zenon DEF SameRole
<1> QED BY <1>1, <1>6, <1>7, <1>8, ZenonT(30)

\* What a start of components leaves alone.
OnlyStarted(x, y) ==
  /\ OnlyDtls(x, y) /\ SameRole(x, y)
  /\ \A c \in Components : y.dt.comp[c].negotiated = x.dt.comp[c].negotiated

LEMMA StartedTrans ==
  ASSUME NEW x, NEW y, NEW z, OnlyStarted(x, y) /\ OnlyStarted(y, z)
  PROVE  OnlyStarted(x, z)
<1>1. OnlyDtls(x, z)
  BY DtlsTrans, Zenon DEF OnlyStarted
<1> QED BY <1>1, Zenon DEF OnlyStarted, SameRole

\* component_start(): the component listens, and connects if we are active.
LEMMA ComponentStart ==
  ASSUME NEW x \in StreamRec, ComponentsInv(x), x.enc = "dtls", mnat_ready(x),
         NEW c \in Components, c \in Used(x), NEW r, NEW y, y = component_start(x, c, r)
  PROVE  OnlyStarted(x, y) /\ ComponentsInv(y)
<1> DEFINE k == x.dt.comp[c]
           k1 == [k EXCEPT !.sock = TRUE]
           a == SetComp(x, c, k1)
           k2 == Open(a, c, "client")
           b == SetComp(a, c, k2)
<1>1. x.dt \in Dtls /\ k \in ComponentRec /\ ComponentInv(x, c)
  BY Zenon DEF StreamRec, Dtls, ComponentsInv
<1>2. k1 \in ComponentRec /\ k1.sock /\ k1.conn = k.conn /\ k1.hs = k.hs /\ k1.tx = k.tx
      /\ k1.negotiated = k.negotiated /\ k1.rx = k.rx /\ k1.layers = k.layers
  BY <1>1, ZenonT(30) DEF ComponentRec
<1>3. \/ y = x
      \/ y = Refuse(x)
      \/ ~k.negotiated /\ ~k.sock /\ y = a
      \/ ~k.negotiated /\ ~k.sock /\ y = Refuse(a)
      \/ ~k.negotiated /\ ~k.sock /\ x.dt.active
           /\ y = Opened(a, c, "client")
  <2>1. a = [x EXCEPT !.dt.comp[c].sock = TRUE]
    BY <1>1, Zenon DEF SetComp
  <2> HIDE DEF a
  <2> QED BY <2>1, Zenon DEF component_start, Refuse, Opened
<1> HIDE DEF k1
<1>4. /\ OnlyDtls(x, a) /\ a.err = x.err /\ SameRole(x, a)
      /\ a.dt.comp[c] = k1 /\ \A e \in Components : e # c => a.dt.comp[e] = x.dt.comp[e]
  <2>1. a = SetComp(x, c, k1)
    BY Zenon
  <2> HIDE DEF a
  <2> QED BY <1>2, <2>1, ComponentSet
<1> HIDE DEF a, k
<1>5. a \in StreamRec /\ SameCall(x, a)
  BY <1>4, Zenon DEF OnlyDtls
<1>6. OnlyStarted(x, a)
  BY <1>2, <1>4, Zenon DEF OnlyStarted, k
<1>7. ASSUME ~k.negotiated, ~k.sock
      PROVE  ComponentsInv(a)
  <2>1. ASSUME NEW e \in Components, e # c
        PROVE  ComponentInv(a, e)
    BY <1>4, <1>5, <2>1, ComponentKept, Zenon DEF ComponentsInv
  <2>2. ComponentInv(a, c)
    <3>1. Used(a) = Used(x) /\ mnat_ready(a) = mnat_ready(x) /\ a.enc = x.enc
      BY <1>5, ReadySame, ZenonT(30) DEF SameCall
    <3>2. k.conn = None /\ ~k.hs /\ (k.layers > 0 => k.negotiated)
      BY <1>1, <1>7, Zenon DEF ComponentInv, k
    <3>3. k.layers \in Nat
      BY <1>1 DEF ComponentRec
    <3>4. k.layers = 0
      BY <1>7, <3>2, <3>3
    <3>5. ~(k1.layers > 0) /\ k1.layers <= 1
      BY <1>2, <3>4
    <3> QED BY <1>1, <1>2, <1>4, <1>7, <3>1, <3>2, <3>5, ZenonT(30) DEF ComponentInv
  <2> QED BY <2>1, <2>2, Zenon DEF ComponentsInv
<1>8. CASE y = x
  <2>1. OnlyStarted(x, x)
    BY Zenon DEF OnlyStarted, OnlyDtls, SameCall, SameRole, Flags
  <2> QED BY <1>8, <2>1, Zenon
<1>9. CASE y = Refuse(x)
  <2>1. OnlyDtls(x, y) /\ SameRole(x, y) /\ y.dt.comp = x.dt.comp
    BY <1>9, Refused, Zenon
  <2>2. OnlyStarted(x, y)
    BY <2>1, Zenon DEF OnlyStarted
  <2>3. ComponentsInv(y)
    BY <2>1, ComponentKept, Zenon DEF ComponentsInv, OnlyDtls
  <2> QED BY <2>2, <2>3, Zenon
<1>10. CASE ~k.negotiated /\ ~k.sock /\ y = a
  BY <1>6, <1>7, <1>10, Zenon
<1>11. CASE ~k.negotiated /\ ~k.sock /\ y = Refuse(a)
  <2>1. OnlyDtls(a, y) /\ SameRole(a, y) /\ y.dt.comp = a.dt.comp
    BY <1>5, <1>11, Refused, Zenon
  <2>2. OnlyStarted(a, y)
    BY <2>1, Zenon DEF OnlyStarted
  <2>3. ComponentsInv(y)
    BY <1>7, <1>11, <2>1, ComponentKept, ZenonT(30) DEF ComponentsInv, OnlyDtls
  <2> QED BY <1>6, <2>2, <2>3, StartedTrans, Zenon
<1>12. CASE ~k.negotiated /\ ~k.sock /\ x.dt.active
              /\ y = Opened(a, c, "client")
  <2>1. /\ k2 \in ComponentRec /\ k2.conn = "client" /\ k2.hs /\ k2.sock = k1.sock
        /\ k2.negotiated = k1.negotiated /\ k2.tx = k1.tx
        /\ k2.rx = k1.rx /\ k2.layers = k1.layers
        /\ y = b
    <3>1. k2 = Open(a, c, "client")
      BY Zenon
    <3> HIDE DEF k2
    <3>2. /\ k2 \in ComponentRec /\ k2.conn = "client" /\ k2.hs /\ k2.sock = a.dt.comp[c].sock
          /\ k2.negotiated = a.dt.comp[c].negotiated /\ k2.tx = a.dt.comp[c].tx
          /\ k2.rx = a.dt.comp[c].rx /\ k2.layers = a.dt.comp[c].layers
          /\ y = SetComp(a, c, k2)
      <4>1. y = Opened(a, c, "client") /\ a \in StreamRec
        BY <1>5, <1>12, Zenon
      <4>2. AsClient(a, c, k2, y)
        BY <3>1, <4>1, OpenClient, Zenon
      <4> QED BY <4>2, Zenon DEF AsClient
    <3> QED BY <1>4, <3>2, ZenonT(30)
  <2> HIDE DEF k2
  <2>2. /\ OnlyDtls(a, y) /\ y.err = a.err /\ SameRole(a, y)
        /\ y.dt.comp[c] = k2 /\ \A e \in Components : e # c => y.dt.comp[e] = a.dt.comp[e]
    BY <1>5, <2>1, ComponentSet
  <2>3. OnlyStarted(a, y)
    BY <1>4, <2>1, <2>2, Zenon DEF OnlyStarted
  <2>4. ComponentsInv(a)
    BY <1>7, <1>12, Zenon
  <2>5. ASSUME NEW e \in Components, e # c
        PROVE  ComponentInv(y, e)
    BY <2>2, <2>4, <2>5, ComponentKept, Zenon DEF ComponentsInv, OnlyDtls
  <2>6. ComponentInv(y, c)
    <3>1. Used(y) = Used(a) /\ mnat_ready(y) = mnat_ready(a) /\ y.enc = a.enc
      BY <2>2, ReadySame, Zenon DEF SameCall, OnlyDtls
    <3>2. y.dt.active /\ y.dt.again = a.dt.again
      BY <1>4, <1>12, <2>2, ZenonT(30) DEF SameRole
    <3>3. ComponentInv(a, c) /\ ~k1.negotiated /\ k1.sock
      BY <1>2, <1>12, <2>4, Zenon DEF ComponentsInv
    <3> QED BY <1>4, <2>1, <2>2, <3>1, <3>2, <3>3, Zenon DEF ComponentInv, None
  <2>7. ComponentsInv(y)
    BY <2>5, <2>6, Zenon DEF ComponentsInv
  <2> QED BY <1>6, <2>3, <2>7, StartedTrans, Zenon
<1> QED BY <1>3, <1>8, <1>9, <1>10, <1>11, <1>12, Zenon

\* A flag of the struct dtls_srtp that the invariant does not look at.
LEMMA SetOther ==
  ASSUME NEW x \in StreamRec, NEW b \in BOOLEAN, NEW y,
         y = [x EXCEPT !.dt.started = b] \/ y = [x EXCEPT !.dt.on = b]
  PROVE  OnlyDtls(x, y) /\ SameRole(x, y) /\ y.dt.comp = x.dt.comp /\ y.err = x.err
<1>1. x.dt \in Dtls
  BY Zenon DEF StreamRec
<1>2. PICK d \in Dtls :
        /\ y = [x EXCEPT !.dt = d] /\ d.comp = x.dt.comp /\ d.active = x.dt.active
        /\ d.swapped = x.dt.swapped /\ d.again = x.dt.again /\ d.early = x.dt.early
  <2>1. CASE y = [x EXCEPT !.dt.started = b]
    <3> DEFINE d == [x.dt EXCEPT !.started = b]
    <3>1. d \in Dtls
      BY <1>1, Zenon DEF Dtls
    <3>2. /\ d.comp = x.dt.comp /\ d.active = x.dt.active
          /\ d.swapped = x.dt.swapped /\ d.again = x.dt.again /\ d.early = x.dt.early
      BY <1>1, Zenon DEF Dtls
    <3>3. y = [x EXCEPT !.dt = d]
      BY <2>1, Zenon
    <3> HIDE DEF d
    <3> QED BY <3>1, <3>2, <3>3, Zenon
  <2>2. CASE y = [x EXCEPT !.dt.on = b]
    <3> DEFINE d == [x.dt EXCEPT !.on = b]
    <3>1. d \in Dtls
      BY <1>1, Zenon DEF Dtls
    <3>2. /\ d.comp = x.dt.comp /\ d.active = x.dt.active
          /\ d.swapped = x.dt.swapped /\ d.again = x.dt.again /\ d.early = x.dt.early
      BY <1>1, Zenon DEF Dtls
    <3>3. y = [x EXCEPT !.dt = d]
      BY <2>2, Zenon
    <3> HIDE DEF d
    <3> QED BY <3>1, <3>2, <3>3, Zenon
  <2> QED BY <2>1, <2>2, Zenon
<1>3. OnlyDtls(x, y) /\ y.dt = d /\ y.err = x.err
  BY <1>2, SetDtls
<1> QED BY <1>2, <1>3, Zenon DEF SameRole

\* media_start(): a component per socket.
LEMMA MediaStart ==
  ASSUME NEW x \in StreamRec, ComponentsInv(x), x.enc = "dtls", mnat_ready(x),
         NEW r, NEW y, y = media_start(x, r)
  PROVE  OnlyStarted(x, y) /\ ComponentsInv(y)
<1>1. CASE y = x
  <2>1. OnlyStarted(x, x)
    BY Zenon DEF OnlyStarted, OnlyDtls, SameCall, SameRole, Flags
  <2> QED BY <1>1, <2>1, Zenon
<1>2. CASE y # x
  <2> DEFINE a == component_start(x, "RTP", r)
             z == IF x.mux THEN a ELSE component_start(a, "RTCP", r)
  <2>1. y = [z EXCEPT !.dt.started = ~z.err]
    BY <1>2, Zenon DEF media_start
  <2>2. "RTP" \in Components /\ "RTCP" \in Components /\ "RTP" \in Used(x)
        /\ (~x.mux => "RTCP" \in Used(x))
    BY Zenon DEF Components, Used
  <2>3. OnlyStarted(x, a) /\ ComponentsInv(a)
    BY <2>2, ComponentStart, Zenon
  <2> HIDE DEF a
  <2>4. a \in StreamRec /\ a.enc = "dtls" /\ mnat_ready(a) /\ Used(a) = Used(x)
    BY <2>3, ReadySame, Zenon DEF OnlyStarted, OnlyDtls, SameCall
  <2>5. OnlyStarted(x, z) /\ ComponentsInv(z)
    <3>1. CASE x.mux
      BY <2>3, <3>1, Zenon
    <3>2. CASE ~x.mux
      <4>1. OnlyStarted(a, z) /\ ComponentsInv(z)
        BY <2>2, <2>4, <3>2, <2>3, ComponentStart, Zenon
      <4> QED BY <2>3, <4>1, StartedTrans, Zenon
    <3> QED BY <3>1, <3>2, Zenon
  <2> HIDE DEF z
  <2>6. z \in StreamRec /\ (~z.err) \in BOOLEAN
    BY <2>5, Zenon DEF OnlyStarted, OnlyDtls
  <2>7. OnlyDtls(z, y) /\ SameRole(z, y) /\ y.dt.comp = z.dt.comp
    BY <2>1, <2>6, SetOther, ZenonT(30)
  <2>8. OnlyStarted(z, y)
    BY <2>7, Zenon DEF OnlyStarted
  <2>9. ComponentsInv(y)
    BY <2>5, <2>7, ComponentsKept, Zenon DEF OnlyDtls
  <2> QED BY <2>5, <2>8, <2>9, StartedTrans, Zenon
<1> QED BY <1>1, <1>2, Zenon

\* The role.
SetRole(x, active, swapped) == [x EXCEPT !.dt.active = active, !.dt.swapped = swapped]

WithRole(x, y, active, swapped) ==
  /\ OnlyDtls(x, y) /\ y.err = x.err /\ y.dt.comp = x.dt.comp
  /\ y.dt.active = active /\ y.dt.swapped = swapped
  /\ y.dt.again = x.dt.again /\ y.dt.early = x.dt.early

LEMMA RoleSet ==
  ASSUME NEW x \in StreamRec, NEW active \in BOOLEAN, NEW swapped \in BOOLEAN,
         NEW y, y = SetRole(x, active, swapped)
  PROVE  WithRole(x, y, active, swapped)
<1> DEFINE d == [x.dt EXCEPT !.active = active, !.swapped = swapped]
<1>1. x.dt \in Dtls
  BY Zenon DEF StreamRec
<1>2. d \in Dtls
  BY <1>1, ZenonT(30) DEF Dtls
<1>3. /\ d.comp = x.dt.comp /\ d.active = active /\ d.swapped = swapped
      /\ d.again = x.dt.again /\ d.early = x.dt.early
  BY <1>1, Zenon DEF Dtls
<1>4. y = [x EXCEPT !.dt = d]
  BY <1>1, ZenonT(30) DEF SetRole, StreamRec
<1> HIDE DEF d
<1>5. OnlyDtls(x, y) /\ y.dt = d /\ y.err = x.err
  BY <1>2, <1>4, SetDtls
<1> QED BY <1>3, <1>5, Zenon DEF WithRole

\* media_alloc() of "dtls_srtp" keeps the components good: where the role turns
\* round with a handshake under way, that is noted in swapped.
LEMMA DtlsAlloc ==
  ASSUME NEW x \in StreamRec, ComponentsInv(x), x.enc = "dtls",
         x.rsdp.setup # None => mnat_ready(x), NEW r, NEW y, y = dtls_media_alloc(x, r)
  PROVE  /\ OnlyDtls(x, y) /\ ComponentsInv(y) /\ y.dt.early = x.dt.early
         /\ \A c \in Components : y.dt.comp[c].negotiated = x.dt.comp[c].negotiated
         /\ x.rsdp.setup = None => ~y.err
<1> DEFINE o == [x EXCEPT !.dt.on = TRUE]
           e == [o EXCEPT !.err = FALSE]
           active == x.rsdp.setup # "active"
           pending == \E c \in Used(x) :
                        x.dt.comp[c].sock /\ (x.dt.comp[c].hs \/ ~x.dt.comp[c].negotiated)
           swapped == e.dt.swapped \/ (pending /\ active # x.dt.active)
           a == SetRole(e, active, swapped)
<1>1. IF x.rsdp.setup = None THEN y = e ELSE y = media_start(a, r)
  <2>1. [e EXCEPT !.dt.active = active].dt.swapped = e.dt.swapped
    <3>1. e \in StreamRec
      BY ZenonT(30) DEF StreamRec, Dtls
    <3> HIDE DEF e, active
    <3> QED BY <3>1, Zenon DEF StreamRec, Dtls
  <2> QED BY <2>1, Zenon DEF dtls_media_alloc, SetRole
<1>2. OnlyDtls(x, o) /\ SameRole(x, o) /\ o.dt.comp = x.dt.comp
  BY SetOther, ZenonT(30)
<1> HIDE DEF o
<1>3. OnlyDtls(o, e) /\ e.dt = o.dt /\ ~e.err
  BY <1>2, SetErr, ZenonT(30) DEF OnlyDtls
<1> HIDE DEF e
<1>4. OnlyDtls(x, e) /\ SameRole(x, e) /\ e.dt.comp = x.dt.comp
  BY <1>2, <1>3, DtlsTrans, Zenon DEF SameRole
<1>5. ComponentsInv(e) /\ e \in StreamRec /\ SameCall(x, e)
  BY <1>4, ComponentsKept, Zenon DEF OnlyDtls
<1>6. CASE x.rsdp.setup = None
  BY <1>1, <1>3, <1>4, <1>5, <1>6, Zenon DEF SameRole
<1>7. CASE x.rsdp.setup # None
  <2>1. active \in BOOLEAN /\ swapped \in BOOLEAN
    BY Zenon
  <2>2. /\ swapped = (e.dt.swapped \/ (pending /\ active # x.dt.active))
        /\ pending = \E c \in Used(x) :
                        x.dt.comp[c].sock /\ (x.dt.comp[c].hs \/ ~x.dt.comp[c].negotiated)
    BY Zenon
  <2> HIDE DEF active, swapped, pending
  <2>a. a = SetRole(e, active, swapped) /\ e \in StreamRec
    BY <1>5, Zenon
  <2> HIDE DEF a
  <2>b. WithRole(e, a, active, swapped)
    BY <2>1, <2>a, RoleSet, Zenon
  <2>3. /\ OnlyDtls(e, a) /\ a.dt.comp = e.dt.comp
        /\ a.dt.active = active /\ a.dt.swapped = swapped
        /\ a.dt.again = e.dt.again /\ a.dt.early = e.dt.early
    BY <2>b, ZenonT(30) DEF WithRole
  <2>4. a \in StreamRec /\ SameCall(e, a) /\ SameCall(x, a)
    BY <1>5, <2>3, SameTrans, Zenon DEF OnlyDtls
  <2>5. a.enc = "dtls" /\ mnat_ready(a) /\ Used(a) = Used(x) /\ mnat_ready(x)
    BY <1>7, <2>4, ReadySame, Zenon DEF SameCall
  <2>6. ASSUME NEW c \in Components
        PROVE  ComponentInv(a, c)
    <3>1. ComponentInv(x, c) /\ a.dt.comp[c] = x.dt.comp[c] /\ a.dt.again = x.dt.again
      BY <1>4, <2>3, Zenon DEF ComponentsInv, SameRole
    <3>2. ~swapped => ~x.dt.swapped
      BY <1>4, <2>2, ZenonT(30) DEF SameRole
    <3>3. ~swapped /\ x.dt.comp[c].hs => active = x.dt.active
      BY <2>2, <3>1, ZenonT(30) DEF ComponentInv
    <3> QED BY <2>3, <2>5, <3>1, <3>2, <3>3, ZenonT(30) DEF ComponentInv
  <2>7. ComponentsInv(a)
    BY <2>6, Zenon DEF ComponentsInv
  <2>8. OnlyStarted(a, y) /\ ComponentsInv(y)
    BY <1>1, <1>7, <2>4, <2>5, <2>7, MediaStart, ZenonT(30)
  <2>9. OnlyDtls(x, y)
    BY <1>4, <2>3, <2>8, DtlsTrans, Zenon DEF OnlyStarted
  <2>10. y.dt.early = x.dt.early
    BY <1>4, <2>3, <2>8, Zenon DEF OnlyStarted, SameRole
  <2>11. \A c \in Components : y.dt.comp[c].negotiated = x.dt.comp[c].negotiated
    BY <1>4, <2>3, <2>8, Zenon DEF OnlyStarted
  <2> QED BY <1>7, <2>8, <2>9, <2>10, <2>11, ZenonT(30)
<1> QED BY <1>6, <1>7, Zenon

-----------------------------------------------------------------------------
(* Updates of the stream *)

\* What an update starts from.
SdpFits(x) ==
  /\ x.enc = "sdes" => CryptoInv(x)
  /\ ~x.rsdp.port \/ x.enc # "dtls" => x.rsdp.setup = None

Core(x) == x \in StreamRec /\ SdesState(x) /\ DtlsInv(x) /\ SdpFits(x)

\* The stream only sends when it may.
TxReady(x) == x.tx => stream_is_ready(x) /\ Sends(x)

\* What an update leaves alone.
OnlyUpdated(x, y) ==
  /\ y \in StreamRec /\ SameCall(x, y) /\ y.call = x.call
  /\ \A c \in Components : y.dt.comp[c].negotiated = x.dt.comp[c].negotiated
  /\ x.sd.on => y.sd.on /\ y.sd.key_tx = x.sd.key_tx

\* The peer's SDP is in use.
InUse(y) ==
  /\ y.sd.use /\ y.sd.got_sdp
  /\ y.sd.suite = Last(y.rsdp.crypto).suite /\ y.sd.key_rx = y.peerkey

\* stream_start_mediaenc() for "srtp" ...
LEMMA StartSdes ==
  ASSUME NEW x, Core(x), x.enc = "sdes", ~x.tx, NEW r, NEW y, y = stream_start_mediaenc(x, r)
  PROVE  /\ OnlyUpdated(x, y) /\ y.raddr = x.raddr /\ y.rtcp = x.rtcp
         /\ SdesState(y) /\ DtlsInv(y) /\ TxReady(y) /\ ~y.err /\ y.sd.on
         /\ x.rsdp.port => InUse(y) /\ y.rx = Receives(y) /\ y.src = Sends(y)
         /\ y.tx => y.sd.use
         /\ ~x.rsdp.port => ~y.tx
<1>1. y = srtp_media_alloc(x)
  BY Zenon DEF stream_start_mediaenc
<1>2. x \in StreamRec /\ SdesState(x) /\ CryptoInv(x) /\ DtlsInv(x)
  BY Zenon DEF Core, SdpFits
<1>3. /\ OnlyMedia(x, y) /\ ~y.err /\ SdesState(y) /\ y.sd.on
      /\ x.rsdp.port => Applied(x, y) /\ y.sd.got_sdp
      /\ ~x.rsdp.port => Flags(y, x.secure, x.tx, x.rx, x.src, x.rtcp)
      /\ x.sd.on => y.sd.key_tx = x.sd.key_tx
  BY <1>1, <1>2, SdesAlloc, Zenon
<1>4. y.enc = "sdes" /\ y.rsdp = x.rsdp /\ y.peerkey = x.peerkey
  BY <1>3, Zenon DEF OnlyMedia, SameCall
<1>5. DtlsInv(y)
  BY <1>2, <1>3, <1>4, DtlsKept, ZenonT(30) DEF OnlyMedia
<1>6. OnlyUpdated(x, y) /\ y.raddr = x.raddr /\ y.rtcp = x.rtcp
  BY <1>3, Zenon DEF OnlyMedia, OnlyUpdated
<1>7. CASE x.rsdp.port
  <2>1. InUse(y) /\ y.rx = Receives(y) /\ y.src = Sends(y)
    BY <1>3, <1>4, <1>7, Zenon DEF Applied, InUse
  <2>2. TxReady(y) /\ y.sd.use
    BY <1>3, <1>7, ZenonT(30) DEF Applied, TxReady
  <2> QED BY <1>3, <1>5, <1>6, <1>7, <2>1, <2>2, ZenonT(30)
<1>8. CASE ~x.rsdp.port
  <2>1. ~y.tx
    BY <1>3, <1>8, Zenon DEF Flags
  <2> QED BY <1>3, <1>5, <1>6, <1>8, <2>1, ZenonT(30) DEF TxReady
<1> QED BY <1>7, <1>8, ZenonT(30)

\* ... for "dtls_srtp" ...
LEMMA StartDtls ==
  ASSUME NEW x, Core(x), x.enc = "dtls", x.rsdp.port => mnat_ready(x),
         NEW r, NEW y, y = stream_start_mediaenc(x, r)
  PROVE  /\ OnlyUpdated(x, y) /\ OnlyDtls(x, y) /\ SdesState(y) /\ DtlsInv(y)
         /\ ~x.rsdp.port => ~y.err
<1>1. y = dtls_media_alloc(x, r)
  BY Zenon DEF stream_start_mediaenc
<1>2. x \in StreamRec /\ SdesState(x) /\ ComponentsInv(x) /\ DtlsInv(x)
  BY Zenon DEF Core, DtlsInv, ComponentsInv
<1>3. (x.rsdp.setup # None => mnat_ready(x)) /\ (~x.rsdp.port => x.rsdp.setup = None)
  BY Zenon DEF Core, SdpFits
<1>4. /\ OnlyDtls(x, y) /\ ComponentsInv(y) /\ y.dt.early = x.dt.early
      /\ \A c \in Components : y.dt.comp[c].negotiated = x.dt.comp[c].negotiated
      /\ x.rsdp.setup = None => ~y.err
  BY <1>1, <1>2, <1>3, DtlsAlloc, ZenonT(30)
<1>5. OnlyUpdated(x, y) /\ SdesState(y)
  <2>1. y.sd = x.sd
    BY <1>4, Zenon DEF OnlyDtls
  <2>2. SdesState(y)
    BY <1>2, <2>1, Zenon DEF SdesState, SessionsInv
  <2> QED BY <1>4, <2>1, <2>2, Zenon DEF OnlyUpdated, OnlyDtls
<1>6. DtlsInv(y)
  <2>1. mnat_ready(y) = mnat_ready(x) /\ y.enc = x.enc /\ y.secure = x.secure /\ y.rtcp = x.rtcp
    BY <1>4, ReadySame, Zenon DEF OnlyDtls, SameCall, Flags
  <2>2. y.dt.comp["RTP"].negotiated = x.dt.comp["RTP"].negotiated
        /\ y.dt.comp["RTCP"].negotiated = x.dt.comp["RTCP"].negotiated
    BY <1>4, Zenon DEF Components
  <2> QED BY <1>2, <1>4, <2>1, <2>2, ZenonT(30) DEF DtlsInv, ComponentsInv
<1> QED BY <1>3, <1>4, <1>5, <1>6, ZenonT(30)

\* ... and without encryption.
LEMMA StartNone ==
  ASSUME NEW x, Core(x), x.enc = "none", NEW r, NEW y, y = stream_start_mediaenc(x, r)
  PROVE  /\ OnlyUpdated(x, y) /\ OnlyDtls(x, y) /\ SdesState(y) /\ DtlsInv(y) /\ ~y.err
<1>1. y = [x EXCEPT !.err = FALSE] /\ x \in StreamRec /\ SdesState(x) /\ DtlsInv(x)
  BY Zenon DEF stream_start_mediaenc, Core
<1>2. OnlyDtls(x, y) /\ y.dt = x.dt /\ y.err = FALSE
  BY <1>1, SetErr, ZenonT(30)
<1>3. SameCall(x, y) /\ y.sd = x.sd /\ y.secure = x.secure /\ y.rtcp = x.rtcp
  BY <1>2, Zenon DEF OnlyDtls, Flags
<1>4. SdesState(y)
  BY <1>1, <1>3, Zenon DEF SdesState, SessionsInv
<1>5. DtlsInv(y)
  BY <1>1, <1>2, <1>3, DtlsKept, ZenonT(30)
<1>6. OnlyUpdated(x, y)
  BY <1>2, <1>3, Zenon DEF OnlyUpdated, OnlyDtls
<1> QED BY <1>2, <1>4, <1>5, <1>6, ZenonT(30)

\* stream_update(), first: the stream is off, and has the address of the SDP.
SetAddr(x, raddr) == [x EXCEPT !.raddr = raddr, !.err = FALSE]

LEMMA AddrSet ==
  ASSUME NEW x \in StreamRec, NEW b \in BOOLEAN, NEW y, y = SetAddr(x, b)
  PROVE  /\ y \in StreamRec /\ SameCall(x, y) /\ y.call = x.call /\ y.raddr = b /\ ~y.err
         /\ y.sd = x.sd /\ y.dt = x.dt /\ Flags(y, x.secure, x.tx, x.rx, x.src, x.rtcp)
<1> DEFINE a == [x EXCEPT !.raddr = b]
<1>0. a \in StreamRec
  BY ZenonT(30) DEF StreamRec
<1>a. y = [a EXCEPT !.err = FALSE]
  BY Zenon DEF SetAddr, StreamRec
<1>1. y \in StreamRec
  <2> HIDE DEF a
  <2> QED BY <1>0, <1>a, SetErr, ZenonT(30) DEF OnlyDtls
<1>4. y.raddr = b /\ ~y.err
  BY Zenon DEF StreamRec, SetAddr
<1>2. SameCall(x, y)
  BY Zenon DEF StreamRec, SetAddr, SameCall
<1>3. y.call = x.call /\ y.sd = x.sd /\ y.dt = x.dt /\ Flags(y, x.secure, x.tx, x.rx, x.src, x.rtcp)
  BY Zenon DEF StreamRec, SetAddr, Flags
<1> QED BY <1>1, <1>2, <1>3, <1>4, ZenonT(30)

\* An SDP that fits, after a step that leaves it alone.
LEMMA FitsKept ==
  ASSUME NEW x, NEW y, SdpFits(x), SameCall(x, y)
  PROVE  SdpFits(y)
BY Zenon DEF SdpFits, SameCall, CryptoInv

LEMMA UpdatedTrans ==
  ASSUME NEW x, NEW y, NEW z, OnlyUpdated(x, y) /\ OnlyUpdated(y, z)
  PROVE  OnlyUpdated(x, z)
<1>1. SameCall(x, z)
  BY SameTrans, Zenon DEF OnlyUpdated
<1> QED BY <1>1, Zenon DEF OnlyUpdated

\* Nothing of an update's concern has changed.
LEMMA UpdatedSame ==
  ASSUME NEW x, NEW y \in StreamRec, SameCall(x, y), y.call = x.call, y.dt = x.dt, y.sd = x.sd
  PROVE  OnlyUpdated(x, y)
BY Zenon DEF OnlyUpdated

LEMMA StreamUpdate ==
  ASSUME NEW x, Core(x), x.rsdp.port, NEW r, NEW y, y = stream_update(x, r)
  PROVE  /\ OnlyUpdated(x, y) /\ y.raddr /\ y.rtcp = x.rtcp
         /\ SdesState(y) /\ DtlsInv(y) /\ TxReady(y)
         /\ ~y.err /\ stream_is_ready(y) /\ Sends(y) => y.tx
         /\ ~mnat_ready(x) => ~y.err /\ y.sd = x.sd
         /\ x.enc = "sdes" /\ mnat_ready(x) => InUse(y)
<1> DEFINE o == stream_enable(x, FALSE)
           a == SetAddr(o, x.rsdp.port)
           z == IF mnat_ready(a) THEN stream_start_mediaenc(a, r) ELSE a
<1>1. y = IF z.err THEN z ELSE stream_enable(z, TRUE)
  BY Zenon DEF stream_update, SetAddr
<1>2. x \in StreamRec /\ SdesState(x) /\ DtlsInv(x) /\ SdpFits(x)
  BY Zenon DEF Core
<1>3. OnlyFlags(x, o) /\ Flags(o, x.secure, FALSE, FALSE, x.src, x.rtcp)
  BY <1>2, Disable, ZenonT(30)
<1> HIDE DEF o
<1>4. o \in StreamRec /\ x.rsdp.port \in BOOLEAN
  BY <1>2, <1>3, Zenon DEF OnlyFlags, StreamRec, Sdps
<1>5. /\ a \in StreamRec /\ SameCall(o, a) /\ a.call = o.call /\ a.raddr = x.rsdp.port /\ ~a.err
      /\ a.sd = o.sd /\ a.dt = o.dt /\ Flags(a, o.secure, o.tx, o.rx, o.src, o.rtcp)
  BY <1>4, AddrSet, ZenonT(30)
<1> HIDE DEF a
<1>6. SameCall(x, a) /\ a.sd = x.sd /\ a.dt = x.dt /\ a.call = x.call
      /\ Flags(a, x.secure, FALSE, FALSE, x.src, x.rtcp)
  <2>1. SameCall(x, a)
    BY <1>3, <1>5, SameTrans, Zenon DEF OnlyFlags
  <2> QED BY <1>3, <1>5, <2>1, ZenonT(30) DEF OnlyFlags, SameState, Flags
<1>7. Core(a) /\ a.raddr /\ ~a.tx /\ a.rsdp.port /\ a.enc = x.enc /\ mnat_ready(a) = mnat_ready(x)
  <2>1. SdesState(a)
    BY <1>2, <1>6, SdesKept, ZenonT(30)
  <2>2. DtlsInv(a)
    BY <1>2, <1>6, DtlsKept, Zenon DEF Flags
  <2>3. SdpFits(a)
    BY <1>2, <1>6, FitsKept, ZenonT(30)
  <2>4. ~a.tx /\ a.rsdp.port /\ a.enc = x.enc /\ mnat_ready(a) = mnat_ready(x)
    BY <1>6, ReadySame, ZenonT(30) DEF SameCall, Flags
  <2> QED BY <1>5, <2>1, <2>2, <2>3, <2>4, ZenonT(30) DEF Core
<1>8. OnlyUpdated(x, a)
  BY <1>5, <1>6, UpdatedSame, ZenonT(30)
<1>9. /\ OnlyUpdated(a, z) /\ z.raddr /\ z.rtcp = x.rtcp
      /\ SdesState(z) /\ DtlsInv(z) /\ TxReady(z)
      /\ ~mnat_ready(x) => ~z.err /\ z.sd = x.sd
      /\ x.enc = "sdes" /\ mnat_ready(x) => InUse(z)
  <2>1. CASE ~mnat_ready(x)
    <3>1. z = a
      BY <1>7, <2>1, Zenon
    <3>2. OnlyUpdated(a, a)
      BY <1>5, UpdatedSame, Zenon DEF SameCall
    <3> QED BY <1>5, <1>6, <1>7, <2>1, <3>1, <3>2, ZenonT(30) DEF Core, TxReady, Flags
  <2>2. CASE mnat_ready(x) /\ x.enc = "sdes"
    <3>1. z = stream_start_mediaenc(a, r)
      BY <1>7, <2>2, Zenon
    <3> HIDE DEF z
    <3>2. /\ OnlyUpdated(a, z) /\ z.raddr = a.raddr /\ z.rtcp = a.rtcp
          /\ SdesState(z) /\ DtlsInv(z) /\ TxReady(z) /\ ~z.err /\ InUse(z)
      BY <1>7, <2>2, <3>1, StartSdes, ZenonT(30)
    <3> QED BY <1>6, <1>7, <2>2, <3>2, Zenon DEF Flags
  <2>3. CASE mnat_ready(x) /\ x.enc # "sdes"
    <3>1. z = stream_start_mediaenc(a, r)
      BY <1>7, <2>3, Zenon
    <3> HIDE DEF z
    <3>2. OnlyUpdated(a, z) /\ OnlyDtls(a, z) /\ SdesState(z) /\ DtlsInv(z)
      <4>1. CASE x.enc = "dtls"
        BY <1>7, <2>3, <3>1, <4>1, StartDtls, ZenonT(30)
      <4>2. CASE x.enc = "none"
        BY <1>7, <3>1, <4>2, StartNone, Zenon
      <4> QED BY <1>2, <2>3, <4>1, <4>2, ZenonT(30) DEF StreamRec
    <3>3. z.raddr /\ z.rtcp = x.rtcp /\ ~z.tx
      BY <1>6, <1>7, <3>2, ZenonT(30) DEF OnlyDtls, Flags
    <3> QED BY <2>3, <3>2, <3>3, Zenon DEF TxReady
  <2> QED BY <2>1, <2>2, <2>3, ZenonT(30)
<1> HIDE DEF z
<1>10. OnlyUpdated(x, z) /\ z \in StreamRec
  BY <1>8, <1>9, UpdatedTrans, ZenonT(30) DEF OnlyUpdated
<1>11. CASE z.err
  BY <1>1, <1>9, <1>10, <1>11, Zenon
<1>12. CASE ~z.err
  <2>1. y = stream_enable(z, TRUE)
    BY <1>1, <1>12, Zenon
  <2>2. /\ OnlyFlags(z, y)
        /\ Flags(y, z.secure, z.tx \/ (stream_is_ready(z) /\ Sends(z)), z.rx \/ Receives(z),
                 z.src, z.rtcp)
    BY <1>10, <2>1, Enable, ZenonT(30)
  <2>3. y \in StreamRec /\ SameCall(z, y) /\ y.sd = z.sd /\ y.dt = z.dt /\ y.call = z.call
        /\ y.raddr = z.raddr /\ y.err = z.err /\ y.secure = z.secure /\ y.rtcp = z.rtcp
    BY <2>2, Zenon DEF OnlyFlags, SameState, Flags
  <2>4. OnlyUpdated(x, y)
    BY <1>10, <2>3, UpdatedSame, UpdatedTrans, Zenon
  <2>5. stream_is_ready(y) = stream_is_ready(z) /\ Sends(y) = Sends(z)
    BY <2>3, ReadySame, Zenon
  <2>6. TxReady(y) /\ (stream_is_ready(y) /\ Sends(y) => y.tx)
    BY <1>9, <2>2, <2>5, Zenon DEF TxReady, Flags
  <2>7. SdesState(y) /\ DtlsInv(y)
    BY <1>9, <2>3, SdesKept, DtlsKept, ZenonT(30)
  <2>8. InUse(z) => InUse(y)
    BY <2>3, Zenon DEF InUse, SameCall
  <2> QED BY <1>9, <1>12, <2>3, <2>4, <2>6, <2>7, <2>8, ZenonT(30)
<1> QED BY <1>11, <1>12, Zenon

\* What an update with the SDP of the peer achieves ...
Updated(x, y) ==
  /\ OnlyUpdated(x, y) /\ y.raddr /\ SdesState(y) /\ DtlsInv(y) /\ TxReady(y)
  /\ ~y.err /\ stream_is_ready(y) /\ Sends(y) => y.tx
  /\ ~mnat_ready(x) => ~y.err /\ y.sd = x.sd
  /\ x.enc = "sdes" /\ mnat_ready(x) => InUse(y)

\* ... and audio with it.
Runs(y) ==
  /\ y.src = (stream_is_ready(y) /\ Sends(y))
  /\ stream_is_ready(y) => y.rx = Receives(y)

\* Flags of audio and RTCP do not disturb it.
LEMMA UpdatedKept ==
  ASSUME NEW x, NEW z, NEW y, Updated(x, z), OnlyFlags(z, y), y.secure = z.secure, y.tx = z.tx,
         z.rtcp => y.rtcp
  PROVE  Updated(x, y) /\ stream_is_ready(y) = stream_is_ready(z)
<1>1. y \in StreamRec /\ SameCall(z, y) /\ y.sd = z.sd /\ y.dt = z.dt /\ y.call = z.call
      /\ y.raddr = z.raddr /\ y.err = z.err
  BY Zenon DEF OnlyFlags, SameState
<1>2. OnlyUpdated(x, y)
  BY <1>1, UpdatedSame, UpdatedTrans, Zenon DEF Updated
<1>3. stream_is_ready(y) = stream_is_ready(z) /\ Sends(y) = Sends(z)
  BY <1>1, ReadySame, Zenon
<1>4. SdesState(y) /\ DtlsInv(y)
  BY <1>1, SdesKept, DtlsKept, Zenon DEF Updated
<1>5. InUse(z) => InUse(y)
  BY <1>1, Zenon DEF InUse, SameCall
<1> QED BY <1>1, <1>2, <1>3, <1>4, <1>5, Zenon DEF Updated, TxReady

\* call_apply_sdp() starts RTCP as well, if the stream is ready.
LEMMA ApplyUpdate ==
  ASSUME NEW x, Core(x), x.rsdp.port, NEW r, NEW y, y = call_apply_sdp(x, r)
  PROVE  Updated(x, y) /\ (stream_is_ready(y) => y.rtcp)
<1> DEFINE z == stream_update(x, r)
<1>1. Updated(x, z)
  BY StreamUpdate, Zenon DEF Updated
<1>2. y = IF stream_is_ready(z) THEN stream_start_rtcp(z) ELSE z
  BY Zenon DEF call_apply_sdp
<1> HIDE DEF z
<1>3. CASE stream_is_ready(z)
  <2>1. OnlyFlags(z, y) /\ Flags(y, z.secure, z.tx, z.rx, z.src, TRUE)
    BY <1>1, <1>2, <1>3, StartRtcp, Zenon DEF Updated, OnlyUpdated
  <2> QED BY <1>1, <2>1, UpdatedKept, Zenon DEF Flags
<1>4. CASE ~stream_is_ready(z)
  BY <1>1, <1>2, <1>4, Zenon
<1> QED BY <1>3, <1>4, Zenon

\* update_streams() lets audio run in a stream that is ready, and stops it in
\* one that is not.
LEMMA UpdateStreams ==
  ASSUME NEW x \in StreamRec, x.rsdp.port, NEW y, y = update_streams(x)
  PROVE  OnlyFlags(x, y) /\ y.secure = x.secure /\ y.tx = x.tx /\ y.rtcp = x.rtcp /\ Runs(y)
<1>1. CASE stream_is_ready(x)
  <2>1. OnlyFlags(x, y) /\ Flags(y, x.secure, x.tx, Receives(x), Sends(x), x.rtcp)
    BY <1>1, AudioUpdate, ZenonT(30) DEF update_streams
  <2>2. stream_is_ready(y) = stream_is_ready(x) /\ Sends(y) = Sends(x) /\ Receives(y) = Receives(x)
    BY <2>1, ReadySame, Zenon DEF OnlyFlags, SameState, Flags
  <2>3. Sends(x) \in BOOLEAN
    BY Conditions, Zenon
  <2> QED BY <1>1, <2>1, <2>2, <2>3, ZenonT(30) DEF Flags, Runs
<1>2. CASE ~stream_is_ready(x)
  <2>1. OnlyFlags(x, y) /\ Flags(y, x.secure, x.tx, FALSE, FALSE, x.rtcp)
    BY <1>2, AudioStop, ZenonT(30) DEF update_streams
  <2>2. stream_is_ready(y) = stream_is_ready(x)
    BY <2>1, ReadySame, Zenon DEF OnlyFlags, SameState, Flags
  <2> QED BY <1>2, <2>1, <2>2, ZenonT(30) DEF Flags, Runs
<1> QED BY <1>1, <1>2, Zenon

\* call_update_media()
LEMMA UpdateMedia ==
  ASSUME NEW x, Core(x), x.rsdp.port, NEW r, NEW y, y = call_update_media(x, r)
  PROVE  Updated(x, y) /\ (stream_is_ready(y) => y.rtcp) /\ Runs(y)
<1> DEFINE z == call_apply_sdp(x, r)
<1>1. Updated(x, z) /\ (stream_is_ready(z) => z.rtcp)
  BY ApplyUpdate, Zenon
<1>2. y = update_streams(z)
  BY Zenon DEF call_update_media
<1> HIDE DEF z
<1>3. z \in StreamRec /\ z.rsdp.port
  BY <1>1, Zenon DEF Updated, OnlyUpdated, SameCall
<1>4. OnlyFlags(z, y) /\ y.secure = z.secure /\ y.tx = z.tx /\ y.rtcp = z.rtcp /\ Runs(y)
  BY <1>2, <1>3, UpdateStreams, Zenon
<1> QED BY <1>1, <1>4, UpdatedKept, ZenonT(30)

=============================================================================
