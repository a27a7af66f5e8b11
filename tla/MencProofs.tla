----------------------------- MODULE MencProofs -----------------------------
(***************************************************************************)
(* Proofs about Menc, second part: the offers and answers, the re-INVITEs, *)
(* the NAT traversal, and the theorems.  What is sent is encrypted, both   *)
(* sides use the same keys, and the media run when they should, for every  *)
(* bound of the keys and of the exchanges.                                 *)
(***************************************************************************)
EXTENDS MencStreamProofs

-----------------------------------------------------------------------------
(* SDP of the peer *)

\* An SDP that is as it should be fits.
LEMMA ContentFits ==
  ASSUME NEW x, SdpContent(x)
  PROVE  SdpFits(x)
BY Zenon DEF SdpContent, SdpFits, CryptoInv

\* The stream after an update and what the exchange of SDP adds to it.
LEMMA AfterUpdate ==
  ASSUME NEW x \in StreamRec, SdpContent(x), x.rsdp.port, x.enc = "sdes" => x.sd.on,
         NEW y, Updated(x, y), stream_is_ready(y) => y.rtcp,
         NEW z \in StreamRec, SameStream(y, z), Connected(z), z.call = "up" => Runs(y)
  PROVE  StreamInv(z)
<1>1. SameCall(x, y) /\ y \in StreamRec /\ SdesState(y) /\ DtlsInv(y)
  BY Zenon DEF Updated, OnlyUpdated
<1>2. SdesState(z) /\ DtlsInv(z)
  BY <1>1, StreamKept, Zenon
<1>3. z.enc = x.enc /\ z.nat = x.nat /\ z.rsdp = x.rsdp /\ z.peerkey = x.peerkey /\ z.raddr = y.raddr
      /\ z.sd = y.sd /\ z.tx = y.tx /\ z.err = y.err /\ z.rtcp = y.rtcp /\ z.src = y.src
      /\ z.rx = y.rx /\ y.enc = x.enc
  BY <1>1, Zenon DEF SameCall, SameStream, Flags
<1>4. /\ Sends(z) = Sends(y) /\ Receives(z) = Receives(y) /\ mnat_ready(z) = mnat_ready(x)
      /\ stream_is_ready(z) = stream_is_ready(y)
  BY <1>1, StreamSame, ReadySame
<1>5. SdpInv(z)
  BY <1>3, Zenon DEF SdpInv, SdpContent, Connected, Updated
<1>6. SdesMedia(z)
  <2>1. SUFFICES ASSUME z.enc = "sdes" PROVE SdesMedia(z)
    BY Zenon DEF SdesMedia
  <2>2. z.sd.on
    BY <1>3, <2>1, ZenonT(30) DEF Updated, OnlyUpdated
  <2>3. mnat_ready(z) => InUse(y)
    BY <1>3, <1>4, <2>1, ZenonT(30) DEF Updated
  <2>4. y.rsdp = x.rsdp /\ y.peerkey = x.peerkey
    BY <1>1, ZenonT(30) DEF SameCall
  <2>5. z.tx => mnat_ready(z)
    BY <1>3, <1>4, ZenonT(30) DEF Updated, TxReady, stream_is_ready
  <2> QED BY <1>3, <2>2, <2>3, <2>4, <2>5, ZenonT(30) DEF SdesMedia, InUse
<1>7. MediaInv(z)
  <2>1. z.tx => stream_is_ready(z) /\ Sends(z)
    BY <1>3, <1>4, Zenon DEF Updated, TxReady
  <2>2. ~z.err /\ stream_is_ready(z) /\ Sends(z) => z.tx
    BY <1>3, <1>4, Zenon DEF Updated
  <2>3. z.call = "up" => z.src = (stream_is_ready(z) /\ Sends(z))
                          /\ (stream_is_ready(z) => z.rx = Receives(z))
    BY <1>3, <1>4, Zenon DEF Runs
  <2>4. stream_is_ready(z) => z.rtcp
    BY <1>3, <1>4, ZenonT(30)
  <2>5. ~mnat_ready(z) => ~z.err
    BY <1>3, <1>4, ZenonT(30) DEF Updated
  <2> QED BY <2>1, <2>2, <2>3, <2>4, <2>5, ZenonT(30) DEF MediaInv
<1> QED BY <1>2, <1>5, <1>6, <1>7, Zenon DEF StreamInv

\* What the exchange of SDP has come to.
SameExchange(x, y) ==
  /\ y.sent = x.sent /\ y.known = x.known /\ y.suite = x.suite /\ y.reinv = x.reinv
  /\ y.alien = x.alien /\ y.refused = x.refused /\ y.left = x.left /\ y.call = x.call

\* An SDP of the peer for a stream with the encryption of x.
PeerSdp(x, sdp) ==
  /\ sdp \in Sdps /\ sdp.port
  /\ x.enc = "sdes" => \E k \in 1..MaxKey : Offered(sdp.crypto, k)
  /\ x.enc # "sdes" => sdp.crypto = <<>>
  /\ x.enc # "dtls" => sdp.setup = None

\* The peer's keys stay within the bound.
LEMMA PeerKeysType ==
  ASSUME NEW x \in StreamRec
  PROVE  PeerKeys(x) \subseteq 1..MaxKey
BY BoundsAssumption DEF PeerKeys, StreamRec

\* One a=crypto line, or one after a line that is not supported.
LEMMA Lines ==
  ASSUME NEW a \in Supported, NEW k \in 1..MaxKey
  PROVE  /\ <<Attr(a, k)>> \in Seq(Attrs) /\ Offered(<<Attr(a, k)>>, k)
         /\ Last(<<Attr(a, k)>>).suite = a
         /\ <<Attr("other", k), Attr(a, k)>> \in Seq(Attrs)
         /\ Offered(<<Attr("other", k), Attr(a, k)>>, k)
<1>1. Attr(a, k) \in Attrs /\ Attr(a, k).suite = a /\ Attr(a, k).key = k
  BY Zenon DEF Attr, Attrs
<1>2. Attr("other", k) \in Attrs /\ Attr("other", k).suite = "other" /\ Attr("other", k).key = k
  BY Zenon DEF Attr, Attrs
<1> DEFINE c == Attr(a, k)
           o == Attr("other", k)
<1> HIDE DEF c, o
<1>3. c \in Attrs /\ c.suite = a /\ c.key = k /\ o \in Attrs /\ o.suite = "other" /\ o.key = k
  BY <1>1, <1>2, Zenon DEF c, o
<1>4. <<c>> \in Seq(Attrs) /\ Offered(<<c>>, k) /\ Last(<<c>>).suite = a
  BY <1>3 DEF Offered, Last
<1>5. <<o, c>> \in Seq(Attrs) /\ Offered(<<o, c>>, k)
  BY <1>3 DEF Offered, Last
<1> QED BY <1>4, <1>5, Zenon DEF c, o

\* What the peer offers ...
LEMMA OfferFits ==
  ASSUME NEW x \in StreamRec, NEW sdp \in Offers(x)
  PROVE  PeerSdp(x, sdp)
<1> DEFINE C == IF x.enc # "sdes" THEN {<<>>}
                ELSE UNION {UNION {{<<Attr(a, k)>>, <<Attr("other", k), Attr(a, k)>>} :
                                     a \in Supported} : k \in PeerKeys(x)}
           T == IF x.enc # "dtls" THEN {None} ELSE {"actpass"} \cup ({x.peerrole} \ {None})
<1>1. sdp \in [port : {TRUE}, dir : Dirs, crypto : C, setup : T]
  BY ZenonT(30) DEF Offers
<1>2. x.enc # "sdes" => C = {<<>>}
  BY Zenon
<1>3. ASSUME x.enc = "sdes", NEW l \in C
      PROVE  l \in Seq(Attrs) /\ \E k \in 1..MaxKey : Offered(l, k)
  <2>1. PICK k \in PeerKeys(x), a \in Supported :
               l \in {<<Attr(a, k)>>, <<Attr("other", k), Attr(a, k)>>}
    BY <1>3
  <2>2. k \in 1..MaxKey
    BY PeerKeysType, Zenon
  <2> HIDE DEF C
  <2>3. l = <<Attr(a, k)>> \/ l = <<Attr("other", k), Attr(a, k)>>
    BY <2>1, Zenon
  <2> QED BY <2>2, <2>3, Lines, ZenonT(30)
<1>4. T \subseteq {None, "actpass", "active", "passive"} /\ (x.enc # "dtls" => T = {None})
  BY Zenon DEF StreamRec
<1> HIDE DEF C, T
<1>5. sdp.port /\ sdp.dir \in SUBSET Both /\ sdp.crypto \in C /\ sdp.setup \in T
  BY <1>1, ZenonT(30) DEF Dirs, Both
<1>6. sdp.crypto \in Seq(Attrs)
  <2>1. <<>> \in Seq(Attrs)
    OBVIOUS
  <2> QED BY <1>2, <1>3, <1>5, <2>1, Zenon
<1>7. sdp \in Sdps
  BY <1>1, <1>4, <1>5, <1>6, ZenonT(30) DEF Sdps
<1> QED BY <1>2, <1>3, <1>4, <1>5, <1>7, Zenon DEF PeerSdp

\* ... and what it answers, with the suite that was offered.
LEMMA AnswerFits ==
  ASSUME NEW x \in StreamRec, NEW sdp \in Answers(x), x.enc = "sdes" => x.sent[1] \in Supported
  PROVE  PeerSdp(x, sdp) /\ (x.enc = "sdes" => Last(sdp.crypto).suite = x.sent[1])
<1> DEFINE C == IF x.enc # "sdes" THEN {<<>>} ELSE {<<Attr(x.sent[1], k)>> : k \in PeerKeys(x)}
           T == IF x.enc # "dtls" THEN {None}
                ELSE IF x.peerrole = None THEN {"active", "passive"} ELSE {x.peerrole}
<1>1. sdp \in [port : {TRUE}, dir : Dirs, crypto : C, setup : T]
  BY ZenonT(30) DEF Answers
<1>2. x.enc # "sdes" => C = {<<>>}
  BY Zenon
<1>3. ASSUME x.enc = "sdes", NEW l \in C
      PROVE  /\ l \in Seq(Attrs) /\ (\E k \in 1..MaxKey : Offered(l, k))
             /\ Last(l).suite = x.sent[1]
  <2>1. PICK k \in PeerKeys(x) : l = <<Attr(x.sent[1], k)>>
    BY <1>3, Zenon
  <2>2. k \in 1..MaxKey
    BY PeerKeysType, Zenon
  <2> HIDE DEF C
  <2> QED BY <1>3, <2>1, <2>2, Lines, ZenonT(30)
<1>4. T \subseteq {None, "actpass", "active", "passive"} /\ (x.enc # "dtls" => T = {None})
  BY Zenon DEF StreamRec
<1> HIDE DEF C, T
<1>5. sdp.port /\ sdp.dir \in SUBSET Both /\ sdp.crypto \in C /\ sdp.setup \in T
  BY <1>1, ZenonT(30) DEF Dirs, Both
<1>6. sdp.crypto \in Seq(Attrs)
  <2>1. <<>> \in Seq(Attrs)
    OBVIOUS
  <2> QED BY <1>2, <1>3, <1>5, <2>1, ZenonT(30)
<1>7. sdp \in Sdps
  BY <1>1, <1>4, <1>5, <1>6, ZenonT(30) DEF Sdps
<1> QED BY <1>2, <1>3, <1>4, <1>5, <1>7, ZenonT(30) DEF PeerSdp

\* sdp_decode(): the SDP, the key and the role of the peer.
LEMMA Decode ==
  ASSUME NEW x \in StreamRec, NEW sdp, PeerSdp(x, sdp), NEW y, y = sdp_decode(x, sdp)
  PROVE  /\ y \in StreamRec /\ SameState(x, y) /\ SameExchange(x, y)
         /\ Flags(y, x.secure, x.tx, x.rx, x.src, x.rtcp)
         /\ y.enc = x.enc /\ y.nat = x.nat /\ y.mux = x.mux /\ y.natup = x.natup /\ y.ldir = x.ldir
         /\ y.rsdp = sdp /\ y.rsdp.port /\ SdpContent(y)
<1> DEFINE k == IF sdp.crypto = <<>> THEN x.peerkey ELSE sdp.crypto[1].key
           p == IF x.peerrole # None \/ sdp.setup = None THEN x.peerrole
                ELSE IF sdp.setup = "active" THEN "active" ELSE "passive"
<1>1. y = [x EXCEPT !.rsdp = sdp, !.peerkey = k, !.peerrole = p]
  BY Zenon DEF sdp_decode
<1>2. sdp \in Sdps /\ sdp.port /\ p \in {None, "active", "passive"}
  BY Zenon DEF PeerSdp, StreamRec
<1>3. x.peerkey \in 1..MaxKey
  BY Zenon DEF StreamRec
<1>4. k \in 1..MaxKey /\ (x.enc = "sdes" => Offered(sdp.crypto, k))
  <2>1. CASE x.enc = "sdes"
    <3>1. PICK j \in 1..MaxKey : Offered(sdp.crypto, j)
      BY <2>1, ZenonT(30) DEF PeerSdp
    <3>2. sdp.crypto # <<>> /\ sdp.crypto[1].key = j
      BY <3>1 DEF Offered
    <3> QED BY <3>1, <3>2, ZenonT(30)
  <2>2. CASE x.enc # "sdes"
    BY <1>3, <2>2, ZenonT(30) DEF PeerSdp
  <2> QED BY <2>1, <2>2, ZenonT(30)
<1> DEFINE a == [x EXCEPT !.rsdp = sdp]
           b == [a EXCEPT !.peerkey = k]
<1>5. y = [b EXCEPT !.peerrole = p]
  BY <1>1, Zenon
<1> HIDE DEF k, p
<1>a. a \in StreamRec
  BY <1>2, ZenonT(30) DEF StreamRec
<1>b. /\ a.rsdp = sdp /\ a.enc = x.enc /\ a.nat = x.nat /\ a.mux = x.mux /\ a.natup = x.natup
      /\ a.ldir = x.ldir /\ SameState(x, a) /\ SameExchange(x, a)
      /\ Flags(a, x.secure, x.tx, x.rx, x.src, x.rtcp)
  BY ZenonT(30) DEF StreamRec, SameState, SameExchange, Flags
<1> HIDE DEF a
<1>c. b \in StreamRec
  BY <1>4, <1>a, ZenonT(30) DEF StreamRec
<1>d. /\ b.rsdp = a.rsdp /\ b.peerkey = k /\ b.enc = a.enc /\ b.nat = a.nat /\ b.mux = a.mux
      /\ b.natup = a.natup /\ b.ldir = a.ldir /\ SameState(a, b) /\ SameExchange(a, b)
      /\ Flags(b, a.secure, a.tx, a.rx, a.src, a.rtcp)
  BY <1>a, ZenonT(30) DEF StreamRec, SameState, SameExchange, Flags
<1> HIDE DEF b
<1>e. y \in StreamRec
  BY <1>2, <1>5, <1>c DEF StreamRec
<1>f. /\ y.rsdp = b.rsdp /\ y.peerkey = b.peerkey /\ y.enc = b.enc /\ y.nat = b.nat
      /\ y.mux = b.mux /\ y.natup = b.natup /\ y.ldir = b.ldir /\ SameState(b, y)
      /\ SameExchange(b, y) /\ Flags(y, b.secure, b.tx, b.rx, b.src, b.rtcp)
  BY <1>5, <1>c DEF StreamRec, SameState, SameExchange, Flags
<1>6. y.rsdp = sdp /\ y.peerkey = k /\ y.enc = x.enc
  BY <1>b, <1>d, <1>f, ZenonT(30)
<1>7. /\ y.nat = x.nat /\ y.mux = x.mux /\ y.natup = x.natup /\ y.ldir = x.ldir
      /\ SameState(x, y) /\ SameExchange(x, y)
  BY <1>b, <1>d, <1>f, ZenonT(30) DEF SameState, SameExchange
<1>8. Flags(y, x.secure, x.tx, x.rx, x.src, x.rtcp)
  BY <1>b, <1>d, <1>f, ZenonT(30) DEF Flags
<1>9. SdpContent(y)
  BY <1>2, <1>4, <1>6, ZenonT(30) DEF SdpContent, PeerSdp
<1> QED BY <1>2, <1>e, <1>6, <1>7, <1>8, <1>9, ZenonT(30)

-----------------------------------------------------------------------------
(* SDP of ours *)

\* sdp_encode(): our attribute is sent.
LEMMA Encode ==
  ASSUME NEW x \in StreamRec, NEW y, y = sdp_encode(x)
  PROVE  /\ OnlyExchange(x, y)
         /\ Exchange(y, x.sd.lattr, x.known, x.suite, x.reinv, x.alien, x.refused, x.left, x.call)
<1>1. x.sd.lattr \in Sessions
  BY Zenon DEF StreamRec, Sdes
<1>2. y = [x EXCEPT !.sent = x.sd.lattr]
  BY Zenon DEF sdp_encode
<1> QED BY <1>1, <1>2, SetExchange, ZenonT(30)

\* The end of an exchange.
LEMMA EndExchange ==
  ASSUME NEW x \in StreamRec, NEW y, y = Exchanged(x)
  PROVE  /\ OnlyExchange(x, y)
         /\ Exchange(y, x.sent, x.sent, x.sent[1], x.reinv, x.alien, x.refused, x.left, x.call)
<1> DEFINE a == [x EXCEPT !.known = x.sent]
<1>1. y = [a EXCEPT !.suite = x.sent[1]]
  BY Zenon DEF Exchanged
<1>2. x.sent \in Sessions /\ x.sent[1] \in Supported \cup {None}
  BY Zenon DEF StreamRec, Sessions
<1>3. /\ OnlyExchange(x, a)
      /\ Exchange(a, x.sent, x.sent, x.suite, x.reinv, x.alien, x.refused, x.left, x.call)
  BY <1>2, SetExchange, ZenonT(30)
<1> HIDE DEF a
<1> DEFINE u == x.sent[1]
<1> HIDE DEF u
<1>4. y = [a EXCEPT !.suite = u] /\ u \in Supported \cup {None} /\ a \in StreamRec
  BY <1>1, <1>2, <1>3, ZenonT(30) DEF u, OnlyExchange
<1>5. /\ OnlyExchange(a, y)
      /\ Exchange(y, a.sent, a.known, u, a.reinv, a.alien, a.refused, a.left, a.call)
  BY <1>4, SetExchange, ZenonT(30)
<1>6. OnlyExchange(x, y)
  BY <1>3, <1>5, ExchangeTrans, ZenonT(30)
<1> QED BY <1>3, <1>5, <1>6, Zenon DEF Exchange, u

\* An answer of ours.
LEMMA Answer ==
  ASSUME NEW x \in StreamRec, NEW y, y = Answered(x)
  PROVE  /\ OnlyExchange(x, y)
         /\ Exchange(y, x.sd.lattr, x.sd.lattr, x.sd.lattr[1], x.reinv,
                     x.alien \/ (x.enc = "sdes" /\ x.sd.lattr[1] # Last(x.rsdp.crypto).suite),
                     x.refused, x.left, x.call)
<1> DEFINE a == sdp_encode(x)
           b == Exchanged(a)
           v == x.alien \/ (x.enc = "sdes" /\ a.sent[1] # Last(x.rsdp.crypto).suite)
           w == b.alien \/ (x.enc = "sdes" /\ a.sent[1] # Last(x.rsdp.crypto).suite)
<1>1. y = [b EXCEPT !.alien = w]
  BY Zenon DEF Answered, Last
<1> HIDE DEF a, b
<1>2. /\ OnlyExchange(x, a)
      /\ Exchange(a, x.sd.lattr, x.known, x.suite, x.reinv, x.alien, x.refused, x.left, x.call)
  BY Encode, Zenon DEF a
<1>3. /\ OnlyExchange(a, b)
      /\ Exchange(b, a.sent, a.sent, a.sent[1], a.reinv, a.alien, a.refused, a.left, a.call)
  BY <1>2, EndExchange, Zenon DEF b, OnlyExchange
<1>4. w \in BOOLEAN /\ w = v /\ b \in StreamRec
  BY <1>2, <1>3, Zenon DEF Exchange, OnlyExchange
<1> HIDE DEF v, w
<1>5. /\ OnlyExchange(b, y)
      /\ Exchange(y, b.sent, b.known, b.suite, b.reinv, w, b.refused, b.left, b.call)
  BY <1>1, <1>4, SetExchange, Zenon
<1>6. OnlyExchange(x, y)
  BY <1>2, <1>3, <1>5, ExchangeTrans, ZenonT(30)
<1>7. v = (x.alien \/ (x.enc = "sdes" /\ x.sd.lattr[1] # Last(x.rsdp.crypto).suite))
  BY <1>2, Zenon DEF v, Exchange
<1> QED BY <1>2, <1>3, <1>4, <1>5, <1>6, <1>7, ZenonT(30) DEF Exchange

\* The call goes on, with a re-INVITE of ours or without.
LEMMA GoOn ==
  ASSUME NEW x \in StreamRec, NEW reinv \in BOOLEAN, NEW left \in 0..MaxExchanges,
         NEW call \in Calls, NEW refused \in BOOLEAN, NEW y
  PROVE
    /\ y = [x EXCEPT !.reinv = reinv, !.call = call] =>
         /\ OnlyExchange(x, y)
         /\ Exchange(y, x.sent, x.known, x.suite, reinv, x.alien, x.refused, x.left, call)
    /\ y = [x EXCEPT !.reinv = reinv, !.left = left] =>
         /\ OnlyExchange(x, y)
         /\ Exchange(y, x.sent, x.known, x.suite, reinv, x.alien, x.refused, left, x.call)
    /\ y = [x EXCEPT !.reinv = reinv, !.refused = refused] =>
         /\ OnlyExchange(x, y)
         /\ Exchange(y, x.sent, x.known, x.suite, reinv, x.alien, refused, x.left, x.call)
<1> DEFINE a == [x EXCEPT !.reinv = reinv]
<1>1. /\ y = [x EXCEPT !.reinv = reinv, !.call = call] => y = [a EXCEPT !.call = call]
      /\ y = [x EXCEPT !.reinv = reinv, !.left = left] => y = [a EXCEPT !.left = left]
      /\ y = [x EXCEPT !.reinv = reinv, !.refused = refused] => y = [a EXCEPT !.refused = refused]
  BY Zenon
<1>2. /\ OnlyExchange(x, a)
      /\ Exchange(a, x.sent, x.known, x.suite, reinv, x.alien, x.refused, x.left, x.call)
  BY SetExchange, Zenon
<1> HIDE DEF a
<1>3. a \in StreamRec
  BY <1>2, Zenon DEF OnlyExchange
<1>4. ASSUME y = [a EXCEPT !.call = call]
      PROVE  /\ OnlyExchange(x, y)
             /\ Exchange(y, x.sent, x.known, x.suite, reinv, x.alien, x.refused, x.left, call)
  <2>1. /\ OnlyExchange(a, y)
        /\ Exchange(y, a.sent, a.known, a.suite, a.reinv, a.alien, a.refused, a.left, call)
    BY <1>3, <1>4, SetExchange, ZenonT(30)
  <2>2. OnlyExchange(x, y)
    BY <1>2, <2>1, ExchangeTrans, ZenonT(30)
  <2> QED BY <1>2, <2>1, <2>2, ZenonT(30) DEF Exchange
<1>5. ASSUME y = [a EXCEPT !.left = left]
      PROVE  /\ OnlyExchange(x, y)
             /\ Exchange(y, x.sent, x.known, x.suite, reinv, x.alien, x.refused, left, x.call)
  <2>1. /\ OnlyExchange(a, y)
        /\ Exchange(y, a.sent, a.known, a.suite, a.reinv, a.alien, a.refused, left, a.call)
    BY <1>3, <1>5, SetExchange, Zenon
  <2>2. OnlyExchange(x, y)
    BY <1>2, <2>1, ExchangeTrans, Zenon
  <2> QED BY <1>2, <2>1, <2>2, ZenonT(30) DEF Exchange
<1>6. ASSUME y = [a EXCEPT !.refused = refused]
      PROVE  /\ OnlyExchange(x, y)
             /\ Exchange(y, x.sent, x.known, x.suite, reinv, x.alien, refused, x.left, x.call)
  <2>1. /\ OnlyExchange(a, y)
        /\ Exchange(y, a.sent, a.known, a.suite, a.reinv, a.alien, refused, a.left, a.call)
    BY <1>3, <1>6, SetExchange, ZenonT(30)
  <2>2. OnlyExchange(x, y)
    BY <1>2, <2>1, ExchangeTrans, ZenonT(30)
  <2> QED BY <1>2, <2>1, <2>2, ZenonT(30) DEF Exchange
<1> QED BY <1>1, <1>4, <1>5, <1>6, ZenonT(30)

-----------------------------------------------------------------------------
(* The steps of the call *)

\* A stream with the invariant can be updated.
LEMMA InvCore ==
  ASSUME NEW x, Inv(x)
  PROVE  Core(x)
BY ContentFits, ZenonT(30) DEF Inv, SdpInv, Core

\* Our a=crypto line is of our suite and key.
LEMMA LocalAttr ==
  ASSUME NEW x \in StreamRec, SdesState(x), x.sd.on
  PROVE  /\ x.sd.suite \in Supported /\ x.sd.lattr = Session(x.sd.suite, x.sd.key_tx)
         /\ x.sd.lattr[1] = x.sd.suite /\ x.sd.lattr \in Sessions
<1>1. x.sd.suite \in Supported /\ x.sd.lattr = Session(x.sd.suite, x.sd.key_tx)
  BY Zenon DEF SdesState
<1>2. x.sd.key_tx \in Nat /\ x.sd.lattr \in Sessions
  BY BoundsAssumption DEF StreamRec, Sdes
<1> QED BY <1>1, <1>2, SessionType

\* After an answer of ours, what was sent is in use, or the answer does not fit.
LEMMA AnsweredSdp ==
  ASSUME NEW x \in StreamRec, x.enc = "sdes" => x.sd.on, x.alien => x.nat,
         NEW y, Updated(x, y), NEW z \in StreamRec, SameStream(y, z),
         z.sent = y.sd.lattr, z.known = z.sent, z.suite = y.sd.lattr[1],
         z.alien = (y.alien \/ (y.enc = "sdes" /\ y.sd.lattr[1] # Last(y.rsdp.crypto).suite))
  PROVE  SdesSdp(z) /\ (z.alien => z.nat)
<1>1. SameCall(x, y) /\ y \in StreamRec /\ SdesState(y)
  BY Zenon DEF Updated, OnlyUpdated
<1>2. /\ y.enc = x.enc /\ y.nat = x.nat /\ y.alien = x.alien /\ y.rsdp = x.rsdp
      /\ z.enc = x.enc /\ z.nat = x.nat /\ z.rsdp = x.rsdp /\ z.sd = y.sd
  BY <1>1, ZenonT(30) DEF SameCall, SameStream
<1>3. CASE x.enc # "sdes"
  BY <1>2, <1>3, ZenonT(30) DEF SdesSdp
<1>4. CASE x.enc = "sdes"
  <2>1. y.sd.on
    BY <1>4, Zenon DEF Updated, OnlyUpdated
  <2>2. y.sd.suite \in Supported /\ y.sd.lattr[1] = y.sd.suite
    BY <1>1, <2>1, LocalAttr, ZenonT(30)
  <2>3. y.sd.suite # Last(y.rsdp.crypto).suite => x.nat
    BY <1>4, Zenon DEF Updated, InUse, mnat_ready
  <2>4. z.alien => z.nat
    BY <1>2, <2>2, <2>3, ZenonT(30)
  <2>5. ~z.alien => y.sd.suite = Last(z.rsdp.crypto).suite
    BY <1>2, <1>4, <2>2, ZenonT(30)
  <2> QED BY <1>2, <2>2, <2>4, <2>5, ZenonT(30) DEF SdesSdp
<1> QED BY <1>3, <1>4, Zenon

\* After the peer's SDP is decoded the stream can still be updated.
LEMMA DecodedCore ==
  ASSUME NEW x, Core(x), x.enc = "sdes" => x.sd.on, x.alien => x.nat,
         NEW y \in StreamRec, SameState(x, y), SameExchange(x, y),
         Flags(y, x.secure, x.tx, x.rx, x.src, x.rtcp),
         y.enc = x.enc, y.nat = x.nat, y.mux = x.mux, y.natup = x.natup, SdpContent(y)
  PROVE  Core(y) /\ (y.enc = "sdes" => y.sd.on) /\ (y.alien => y.nat)
<1>1. y.sd = x.sd /\ y.dt = x.dt /\ y.alien = x.alien /\ y.secure = x.secure /\ y.rtcp = x.rtcp
  BY Zenon DEF SameState, SameExchange, Flags
<1>2. SdesState(y) /\ SdpFits(y)
  BY <1>1, SdesKept, ContentFits, ZenonT(30) DEF Core
<1>3. mnat_ready(y) = mnat_ready(x) /\ Used(y) = Used(x)
  BY Zenon DEF mnat_ready, Used
<1>4. ASSUME NEW c \in Components
      PROVE  ComponentInv(y, c)
  <2>1. ComponentInv(x, c)
    BY Zenon DEF Core, DtlsInv
  <2> QED BY <1>1, <1>3, <2>1, ZenonT(30) DEF ComponentInv
<1>5. DtlsInv(y)
  BY <1>1, <1>3, <1>4, ZenonT(30) DEF Core, DtlsInv
<1> QED BY <1>1, <1>2, <1>5, Zenon DEF Core

\* call_answer()
LEMMA AnswerCall ==
  ASSUME Inv(s), NEW r, call_answer(r)
  PROVE  Inv(s')
<1> DEFINE y == call_apply_sdp(s, r)
           b == Answered(y)
<1>1. s.call = "incoming" /\ s' = [b EXCEPT !.call = "answered"]
  BY Zenon DEF call_answer, Becomes
<1> HIDE DEF y, b
<1>2. s \in StreamRec /\ Core(s) /\ s.rsdp.port /\ SdpContent(s) /\ (s.enc = "sdes" => s.sd.on)
      /\ (s.alien => s.nat)
  BY <1>1, InvCore, ZenonT(30) DEF Inv, SdpInv, SdesMedia
<1>3. Updated(s, y) /\ (stream_is_ready(y) => y.rtcp)
  BY <1>2, ApplyUpdate, ZenonT(30) DEF y
<1>4. y \in StreamRec /\ SameCall(s, y)
  BY <1>3, ZenonT(30) DEF Updated, OnlyUpdated
<1>5. /\ OnlyExchange(y, b)
      /\ Exchange(b, y.sd.lattr, y.sd.lattr, y.sd.lattr[1], y.reinv,
                  y.alien \/ (y.enc = "sdes" /\ y.sd.lattr[1] # Last(y.rsdp.crypto).suite),
                  y.refused, y.left, y.call)
  BY <1>4, Answer, ZenonT(30) DEF b
<1>6. /\ OnlyExchange(b, s')
      /\ Exchange(s', b.sent, b.known, b.suite, b.reinv, b.alien, b.refused, b.left, "answered")
  <2>1. b \in StreamRec /\ "answered" \in Calls
    BY <1>5, Zenon DEF OnlyExchange, Calls
  <2> QED BY <1>1, <2>1, SetExchange, ZenonT(30)
<1>7. s' \in StreamRec /\ SameStream(y, s')
  BY <1>5, <1>6, ExchangeTrans, ZenonT(30) DEF OnlyExchange
<1>8. StreamInv(s')
  <2>1. s'.call = "answered"
    BY <1>6, Zenon DEF Exchange
  <2> QED BY <1>2, <1>3, <1>7, <2>1, AfterUpdate, ZenonT(30) DEF Connected
<1>9. SdesSdp(s') /\ (s'.alien => s'.nat)
  <2>1. /\ s'.sent = y.sd.lattr /\ s'.known = s'.sent /\ s'.suite = y.sd.lattr[1]
        /\ s'.alien = (y.alien \/ (y.enc = "sdes" /\ y.sd.lattr[1] # Last(y.rsdp.crypto).suite))
    BY <1>5, <1>6, Zenon DEF Exchange
  <2> QED BY <1>2, <1>3, <1>7, <2>1, AnsweredSdp, ZenonT(30)
<1> QED BY <1>8, <1>9, Zenon DEF Inv, StreamInv

\* sipsess_offer_handler()
LEMMA OfferHandler ==
  ASSUME Inv(s), NEW r, sipsess_offer_handler(r)
  PROVE  Inv(s')
<1>1. PICK o \in Offers(s) :
         s' = [Answered(call_update_media(sdp_decode(s, o), r)) EXCEPT !.left = @ - 1]
  BY Zenon DEF sipsess_offer_handler, Becomes
<1> DEFINE x == sdp_decode(s, o)
           y == call_update_media(x, r)
           b == Answered(y)
<1>2. s.call = "up" /\ s.left > 0 /\ s' = [b EXCEPT !.left = b.left - 1]
  BY <1>1, Zenon DEF sipsess_offer_handler
<1> HIDE DEF x, y, b
<1>3. s \in StreamRec /\ Core(s) /\ (s.enc = "sdes" => s.sd.on) /\ (s.alien => s.nat)
  BY <1>2, InvCore, ZenonT(30) DEF Inv, SdesMedia
<1>4. /\ x \in StreamRec /\ SameState(s, x) /\ SameExchange(s, x)
      /\ Flags(x, s.secure, s.tx, s.rx, s.src, s.rtcp)
      /\ x.enc = s.enc /\ x.nat = s.nat /\ x.mux = s.mux /\ x.natup = s.natup
      /\ x.rsdp.port /\ SdpContent(x)
  BY <1>3, OfferFits, Decode DEF x
<1>5. Core(x) /\ (x.enc = "sdes" => x.sd.on) /\ (x.alien => x.nat)
  BY <1>3, <1>4, DecodedCore, Zenon
<1>6. Updated(x, y) /\ (stream_is_ready(y) => y.rtcp) /\ Runs(y)
  BY <1>4, <1>5, UpdateMedia, Zenon DEF y
<1>7. y \in StreamRec /\ SameCall(x, y) /\ y.call = x.call
  BY <1>6, Zenon DEF Updated, OnlyUpdated
<1>8. /\ OnlyExchange(y, b)
      /\ Exchange(b, y.sd.lattr, y.sd.lattr, y.sd.lattr[1], y.reinv,
                  y.alien \/ (y.enc = "sdes" /\ y.sd.lattr[1] # Last(y.rsdp.crypto).suite),
                  y.refused, y.left, y.call)
  BY <1>7, Answer, Zenon DEF b
<1>9. /\ OnlyExchange(b, s')
      /\ Exchange(s', b.sent, b.known, b.suite, b.reinv, b.alien, b.refused, b.left - 1, b.call)
  <2>1. b \in StreamRec /\ b.left = s.left
    BY <1>4, <1>7, <1>8, ZenonT(30) DEF OnlyExchange, Exchange, SameCall, SameExchange
  <2>2. b.left - 1 \in 0..MaxExchanges
    BY <1>2, <1>3, <2>1, BoundsAssumption DEF StreamRec
  <2> QED BY <1>2, <2>1, <2>2, SetExchange, ZenonT(30)
<1>10. s' \in StreamRec /\ SameStream(y, s')
  BY <1>8, <1>9, ExchangeTrans, Zenon DEF OnlyExchange
<1>11. StreamInv(s')
  <2>1. s'.call = "up"
    BY <1>2, <1>4, <1>7, <1>8, <1>9 DEF Exchange, SameExchange
  <2> QED BY <1>4, <1>5, <1>6, <1>10, <2>1, AfterUpdate, Zenon DEF Connected
<1>12. SdesSdp(s') /\ (s'.alien => s'.nat)
  <2>1. /\ s'.sent = y.sd.lattr /\ s'.known = s'.sent /\ s'.suite = y.sd.lattr[1]
        /\ s'.alien = (y.alien \/ (y.enc = "sdes" /\ y.sd.lattr[1] # Last(y.rsdp.crypto).suite))
    BY <1>8, <1>9, ZenonT(30) DEF Exchange
  <2> QED BY <1>4, <1>5, <1>6, <1>10, <2>1, AnsweredSdp, Zenon
<1> QED BY <1>11, <1>12, Zenon DEF Inv, StreamInv

\* An update with the suite that is in use keeps our a=crypto line.
LEMMA AttrKept ==
  ASSUME NEW x \in StreamRec, SdesState(x), x.enc = "sdes", x.sd.on,
         x.sd.suite = Last(x.rsdp.crypto).suite, NEW y, Updated(x, y)
  PROVE  y.sd.suite = x.sd.suite /\ y.sd.lattr = x.sd.lattr
<1>1. y \in StreamRec /\ SdesState(y) /\ y.sd.on /\ y.sd.key_tx = x.sd.key_tx /\ SameCall(x, y)
  BY Zenon DEF Updated, OnlyUpdated
<1>2. y.sd.suite = x.sd.suite
  <2>1. y.rsdp = x.rsdp
    BY <1>1, Zenon DEF SameCall
  <2> QED BY <2>1, ZenonT(30) DEF Updated, InUse
<1>3. x.sd.lattr = Session(x.sd.suite, x.sd.key_tx)
  BY LocalAttr, Zenon
<1>4. y.sd.lattr = Session(y.sd.suite, y.sd.key_tx)
  BY <1>1, LocalAttr, ZenonT(30)
<1> QED BY <1>1, <1>2, <1>3, <1>4, ZenonT(30)

\* sipsess_answer_handler()
LEMMA AnswerHandler ==
  ASSUME Inv(s), NEW r, sipsess_answer_handler(r)
  PROVE  Inv(s')
<1>0. s.call \in {"offered", "up"}
  BY Zenon DEF sipsess_answer_handler
<1>1. PICK o \in Answers(s) :
         s' = [Exchanged(call_update_media(sdp_decode(s, o), r))
                 EXCEPT !.reinv = FALSE, !.call = "up"]
  BY Zenon DEF sipsess_answer_handler, Becomes
<1> DEFINE x == sdp_decode(s, o)
           y == call_update_media(x, r)
           b == Exchanged(y)
<1>2. s' = [b EXCEPT !.reinv = FALSE, !.call = "up"]
  BY <1>1, Zenon
<1> HIDE DEF x, y, b
<1>3. s \in StreamRec /\ Core(s) /\ (s.enc = "sdes" => s.sd.on) /\ (s.alien => s.nat)
      /\ (s.enc = "sdes" => s.sent[1] \in Supported /\ (~s.alien => s.sent = s.sd.lattr))
  BY <1>0, InvCore, ZenonT(30) DEF Inv, SdesMedia, SdesSdp, Connected
<1>4. /\ x \in StreamRec /\ SameState(s, x) /\ SameExchange(s, x)
      /\ Flags(x, s.secure, s.tx, s.rx, s.src, s.rtcp)
      /\ x.enc = s.enc /\ x.nat = s.nat /\ x.mux = s.mux /\ x.natup = s.natup
      /\ x.rsdp.port /\ SdpContent(x)
      /\ s.enc = "sdes" => Last(x.rsdp.crypto).suite = s.sent[1]
  BY <1>3, AnswerFits, Decode DEF x
<1>5. Core(x) /\ (x.enc = "sdes" => x.sd.on) /\ (x.alien => x.nat)
  BY <1>3, <1>4, DecodedCore, Zenon
<1>6. Updated(x, y) /\ (stream_is_ready(y) => y.rtcp) /\ Runs(y)
  BY <1>4, <1>5, UpdateMedia, Zenon DEF y
<1>7. y \in StreamRec /\ SameCall(x, y)
  BY <1>6, ZenonT(30) DEF Updated, OnlyUpdated
<1>8. /\ OnlyExchange(y, b)
      /\ Exchange(b, y.sent, y.sent, y.sent[1], y.reinv, y.alien, y.refused, y.left, y.call)
  BY <1>7, EndExchange, ZenonT(30) DEF b
<1>9. /\ OnlyExchange(b, s')
      /\ Exchange(s', b.sent, b.known, b.suite, FALSE, b.alien, b.refused, b.left, "up")
  <2>1. b \in StreamRec /\ "up" \in Calls /\ b.left \in 0..MaxExchanges /\ b.refused \in BOOLEAN
    BY <1>8, ZenonT(30) DEF OnlyExchange, Calls, StreamRec
  <2> QED BY <1>2, <2>1, GoOn, ZenonT(30)
<1>10. s' \in StreamRec /\ SameStream(y, s')
  BY <1>8, <1>9, ExchangeTrans, ZenonT(30) DEF OnlyExchange
<1>11. StreamInv(s')
  <2>1. s'.call = "up"
    BY <1>9, Zenon DEF Exchange
  <2> QED BY <1>4, <1>5, <1>6, <1>10, <2>1, AfterUpdate, ZenonT(30) DEF Connected
<1>12. /\ s'.sent = s.sent /\ s'.known = s.sent /\ s'.suite = s.sent[1] /\ s'.alien = s.alien
       /\ s'.enc = s.enc /\ s'.nat = s.nat /\ s'.sd = y.sd /\ s'.rsdp = x.rsdp
  BY <1>4, <1>7, <1>8, <1>9, <1>10 DEF Exchange, SameCall, SameExchange, SameStream
<1>13. SdesSdp(s')
  <2>1. SUFFICES ASSUME s.enc = "sdes" PROVE SdesSdp(s')
    BY <1>12, Zenon DEF SdesSdp
  <2>2. ASSUME ~s.alien
        PROVE  /\ s.sent = y.sd.lattr /\ y.sd.suite = Last(x.rsdp.crypto).suite
               /\ s.sent[1] = y.sd.suite
    <3>1. s.sent[1] = s.sd.suite /\ s.sent = s.sd.lattr
      BY <1>3, <2>1, <2>2, LocalAttr, ZenonT(30) DEF Core
    <3>2. x.sd = s.sd /\ SdesState(x)
      BY <1>4, <1>5, ZenonT(30) DEF SameState, Core
    <3>3. y.sd.suite = x.sd.suite /\ y.sd.lattr = x.sd.lattr
      BY <1>4, <1>5, <1>6, <2>1, <3>1, <3>2, AttrKept, ZenonT(30)
    <3> QED BY <1>4, <2>1, <3>1, <3>2, <3>3, ZenonT(30)
  <2> QED BY <1>3, <1>12, <2>1, <2>2, Zenon DEF SdesSdp
<1> QED BY <1>3, <1>11, <1>12, <1>13, ZenonT(30) DEF Inv, StreamInv

\* The peer refuses our re-INVITE.
LEMMA ReinviteRefused ==
  ASSUME Inv(s), reinvite_refused
  PROVE  Inv(s')
<1> DEFINE f == s.refused \/ s.sent # s.known
<1>1. s.call = "up" /\ s' = [s EXCEPT !.reinv = FALSE, !.refused = f] /\ f \in BOOLEAN
  BY Zenon DEF reinvite_refused, Becomes
<1> HIDE DEF f
<1>2. s \in StreamRec
  BY Zenon DEF Inv
<1>3. /\ OnlyExchange(s, s')
      /\ Exchange(s', s.sent, s.known, s.suite, FALSE, s.alien, f, s.left, s.call)
  <2>1. s.left \in 0..MaxExchanges /\ s.call \in Calls
    BY <1>2, Zenon DEF StreamRec
  <2> QED BY <1>1, <1>2, <2>1, GoOn, ZenonT(30)
<1>4. SameStream(s, s') /\ s' \in StreamRec
  BY <1>3, Zenon DEF OnlyExchange
<1>5. /\ s'.call = s.call /\ s'.sent = s.sent /\ s'.known = s.known /\ s'.suite = s.suite
      /\ s'.alien = s.alien /\ s'.refused = f /\ ~s'.reinv
  BY <1>3, Zenon DEF Exchange
<1>6. StreamInv(s')
  BY <1>4, <1>5, StreamInvKept, ZenonT(30) DEF Inv, StreamInv
<1>7. SdesSdp(s')
  <2>1. s'.enc = s.enc /\ s'.sd = s.sd /\ s'.rsdp = s.rsdp
    BY <1>4, Zenon DEF SameStream
  <2>2. ~s'.refused => s'.known = s'.sent
    BY <1>5, ZenonT(30) DEF f
  <2> QED BY <1>5, <2>1, <2>2, ZenonT(30) DEF Inv, SdesSdp, Connected
<1>8. s'.alien => s'.nat
  BY <1>4, <1>5, ZenonT(30) DEF Inv, SameStream
<1> QED BY <1>6, <1>7, <1>8, ZenonT(30) DEF Inv, StreamInv

\* Another direction of ours.
LEMMA SetDir ==
  ASSUME NEW x \in StreamRec, NEW d \in SUBSET Both, NEW y, y = [x EXCEPT !.ldir = d]
  PROVE  /\ y \in StreamRec /\ SameState(x, y) /\ SameExchange(x, y)
         /\ Flags(y, x.secure, x.tx, x.rx, x.src, x.rtcp)
         /\ y.enc = x.enc /\ y.nat = x.nat /\ y.mux = x.mux /\ y.natup = x.natup
         /\ y.rsdp = x.rsdp /\ y.peerkey = x.peerkey
<1>1. y \in StreamRec
  BY DEF StreamRec
<1>2. SameState(x, y) /\ SameExchange(x, y)
  BY Zenon DEF StreamRec, SameState, SameExchange
<1>3. /\ Flags(y, x.secure, x.tx, x.rx, x.src, x.rtcp)
      /\ y.enc = x.enc /\ y.nat = x.nat /\ y.mux = x.mux /\ y.natup = x.natup
      /\ y.rsdp = x.rsdp /\ y.peerkey = x.peerkey
  BY Zenon DEF StreamRec, Flags
<1> QED BY <1>1, <1>2, <1>3, ZenonT(30)

\* A stream whose SDP was sent can be updated.
LEMMA EncodedCore ==
  ASSUME NEW x, Core(x), SdpContent(x), NEW y, OnlyExchange(x, y)
  PROVE  Core(y) /\ SdpContent(y)
<1>1. y \in StreamRec /\ SdesState(y) /\ DtlsInv(y)
  BY StreamKept, Zenon DEF OnlyExchange, Core
<1>2. SdpContent(y)
  BY Zenon DEF OnlyExchange, SameStream, SdpContent
<1> QED BY <1>1, <1>2, ContentFits, Zenon DEF Core

\* A re-INVITE of ours after an update: y is sent.
LEMMA Reinvited ==
  ASSUME NEW x, Core(x), SdpContent(x), x.rsdp.port, x.call = "up", x.enc = "sdes" => x.sd.on,
         x.left = s.left, s.left \in 0..MaxExchanges, s.left > 0, x.alien => x.nat,
         x.enc = "sdes" => x.sent[1] \in Supported,
         x.enc = "sdes" /\ ~x.alien =>
           x.sent = x.sd.lattr /\ x.sd.suite = Last(x.rsdp.crypto).suite /\ x.suite = x.sd.suite,
         NEW r, s' = [call_update_media(x, r) EXCEPT !.reinv = TRUE, !.left = @ - 1]
  PROVE  Inv(s')
<1> DEFINE y == call_update_media(x, r)
<1>1. s' = [y EXCEPT !.reinv = TRUE, !.left = y.left - 1]
  BY Zenon
<1>2. Updated(x, y) /\ (stream_is_ready(y) => y.rtcp) /\ Runs(y)
  BY UpdateMedia, Zenon
<1> HIDE DEF y
<1>3. y \in StreamRec /\ SameCall(x, y) /\ y.call = x.call /\ x \in StreamRec /\ SdesState(x)
  BY <1>2, Zenon DEF Updated, OnlyUpdated, Core
<1> DEFINE l == y.left - 1
<1>4. l \in 0..MaxExchanges
  BY <1>3, BoundsAssumption DEF SameCall
<1> HIDE DEF l
<1>5. /\ OnlyExchange(y, s')
      /\ Exchange(s', y.sent, y.known, y.suite, TRUE, y.alien, y.refused, l, y.call)
  <2>1. y.refused \in BOOLEAN /\ y.call \in Calls /\ s' = [y EXCEPT !.reinv = TRUE, !.left = l]
    BY <1>1, <1>3, ZenonT(30) DEF StreamRec, l
  <2> QED BY <1>3, <1>4, <2>1, GoOn, ZenonT(30)
<1>6. s' \in StreamRec /\ SameStream(y, s')
  BY <1>5, ZenonT(30) DEF OnlyExchange
<1>7. /\ s'.sent = x.sent /\ s'.suite = x.suite /\ s'.alien = x.alien /\ s'.reinv
      /\ s'.enc = x.enc /\ s'.nat = x.nat /\ s'.sd = y.sd /\ s'.rsdp = x.rsdp /\ s'.call = "up"
  BY <1>3, <1>5, <1>6 DEF Exchange, SameCall, SameStream
<1>8. StreamInv(s')
  BY <1>2, <1>3, <1>6, <1>7, AfterUpdate, ZenonT(30) DEF Connected
<1>9. SdesSdp(s')
  <2>1. SUFFICES ASSUME x.enc = "sdes" PROVE SdesSdp(s')
    BY <1>7, Zenon DEF SdesSdp
  <2>2. ~x.alien => y.sd.suite = x.sd.suite /\ y.sd.lattr = x.sd.lattr
    BY <1>2, <1>3, <2>1, AttrKept, Zenon
  <2> QED BY <1>7, <2>1, <2>2 DEF SdesSdp
<1> QED BY <1>7, <1>8, <1>9, ZenonT(30) DEF Inv, StreamInv

\* What the invariant says of an established call whose SDP is sent again.
LEMMA Resent ==
  ASSUME NEW x, Inv(x), x.call = "up", NEW y, y = sdp_encode(x)
  PROVE  /\ Core(y) /\ SdpContent(y) /\ y.rsdp.port /\ y.call = "up" /\ y.left = x.left
         /\ y.enc = "sdes" => y.sd.on /\ y.sent[1] \in Supported
         /\ y.alien => y.nat
         /\ y.enc = "sdes" /\ ~y.alien =>
              y.sent = y.sd.lattr /\ y.sd.suite = Last(y.rsdp.crypto).suite /\ y.suite = y.sd.suite
<1>1. Core(x) /\ SdpContent(x) /\ x \in StreamRec /\ SdesState(x)
  BY InvCore, Zenon DEF Inv, SdpInv
<1>2. /\ OnlyExchange(x, y)
      /\ Exchange(y, x.sd.lattr, x.known, x.suite, x.reinv, x.alien, x.refused, x.left, x.call)
  BY <1>1, Encode, Zenon
<1>3. Core(y) /\ SdpContent(y)
  BY <1>1, <1>2, EncodedCore, ZenonT(30)
<1>4. y.enc = x.enc /\ y.nat = x.nat /\ y.rsdp = x.rsdp /\ y.sd = x.sd
  BY <1>2, Zenon DEF OnlyExchange, SameStream
<1>5. y.sent = x.sd.lattr /\ y.suite = x.suite /\ y.alien = x.alien /\ y.left = x.left
      /\ y.call = x.call
  BY <1>2, Zenon DEF Exchange
<1>6. x.enc = "sdes" => x.sd.on /\ x.sd.lattr[1] \in Supported
  BY <1>1, LocalAttr, ZenonT(30) DEF Inv, SdesMedia
<1> QED BY <1>3, <1>4, <1>5, <1>6, ZenonT(30) DEF Inv, SdpInv, SdesSdp, Connected

\* call_modify()
LEMMA Modify ==
  ASSUME Inv(s), NEW r, call_modify(r)
  PROVE  Inv(s')
<1>1. PICK d \in {Both, {"send"}} :
         s' = [call_update_media([sdp_encode(s) EXCEPT !.ldir = d], r)
                 EXCEPT !.reinv = TRUE, !.left = @ - 1]
  BY ZenonT(30) DEF call_modify, Becomes
<1>2. s.call = "up" /\ s.left > 0 /\ s.left \in 0..MaxExchanges
  BY Zenon DEF call_modify, Inv, StreamRec
<1> DEFINE e == sdp_encode(s)
           x == [e EXCEPT !.ldir = d]
<1>3. s' = [call_update_media(x, r) EXCEPT !.reinv = TRUE, !.left = @ - 1]
  BY <1>1, Zenon
<1>4. /\ Core(e) /\ SdpContent(e) /\ e.rsdp.port /\ e.call = "up" /\ e.left = s.left
      /\ e.enc = "sdes" => e.sd.on /\ e.sent[1] \in Supported
      /\ e.alien => e.nat
      /\ e.enc = "sdes" /\ ~e.alien =>
           e.sent = e.sd.lattr /\ e.sd.suite = Last(e.rsdp.crypto).suite /\ e.suite = e.sd.suite
  BY <1>2, Resent, ZenonT(30)
<1> HIDE DEF e
<1>5. /\ x \in StreamRec /\ SameState(e, x) /\ SameExchange(e, x)
      /\ Flags(x, e.secure, e.tx, e.rx, e.src, e.rtcp)
      /\ x.enc = e.enc /\ x.nat = e.nat /\ x.mux = e.mux /\ x.natup = e.natup
      /\ x.rsdp = e.rsdp /\ x.peerkey = e.peerkey
  <2>1. e \in StreamRec /\ d \in SUBSET Both
    BY <1>4, Zenon DEF Core, Both
  <2> QED BY <2>1, SetDir
<1> HIDE DEF x
<1>6. SdpContent(x)
  BY <1>4, <1>5, ZenonT(30) DEF SdpContent
<1>7. Core(x) /\ (x.enc = "sdes" => x.sd.on) /\ (x.alien => x.nat)
  BY <1>4, <1>5, <1>6, DecodedCore, ZenonT(30)
<1>8. x.sent = e.sent /\ x.suite = e.suite /\ x.alien = e.alien /\ x.left = e.left
      /\ x.call = e.call /\ x.sd = e.sd
  BY <1>5, Zenon DEF SameExchange, SameState
<1> QED BY <1>2, <1>3, <1>4, <1>5, <1>6, <1>7, <1>8, Reinvited, ZenonT(30)

\* stream_remove_menc_media_state()
LEMMA NewKey ==
  ASSUME Inv(s), stream_remove_menc_media_state
  PROVE  Inv(s')
<1> DEFINE a == media_txrekey(s)
           u == call_update_media(a, "ok")
           x == sdp_encode(u)
<1>1. /\ s.call = "up" /\ s.left > 0 /\ s.enc = "sdes" /\ s.sd.key_tx < MaxKey
      /\ s' = [call_update_media(x, "ok") EXCEPT !.reinv = TRUE, !.left = @ - 1]
  BY ZenonT(30) DEF stream_remove_menc_media_state, Becomes
<1> HIDE DEF a, u, x
<1>2. /\ s \in StreamRec /\ Core(s) /\ SdpContent(s) /\ s.rsdp.port /\ SdesState(s) /\ s.sd.on
      /\ s.left \in 0..MaxExchanges /\ (s.alien => s.nat)
      /\ ~s.alien => s.sd.suite = Last(s.rsdp.crypto).suite /\ s.suite = s.sd.suite
  BY <1>1, InvCore, ZenonT(30) DEF Inv, SdpInv, SdesMedia, SdesSdp, Connected, StreamRec
<1>3. /\ OnlyMedia(s, a) /\ SdesState(a) /\ a.sd.on /\ a.sd.suite = Last(s.rsdp.crypto).suite
  BY <1>1, <1>2, Rekey DEF Core, SdpFits, SdesState, a, Applied
<1>4. a \in StreamRec /\ SameCall(s, a) /\ a.call = s.call /\ a.rtcp = s.rtcp /\ a.dt = s.dt
  BY <1>3, Zenon DEF OnlyMedia
<1>5. a.enc = "sdes" /\ a.rsdp = s.rsdp
  BY <1>1, <1>4, Zenon DEF SameCall
<1>6. Core(a)
  <2>1. SdpFits(a)
    BY <1>2, <1>4, FitsKept, ZenonT(30) DEF Core
  <2>2. DtlsInv(a)
    BY <1>2, <1>4, <1>5, DtlsKept, ZenonT(30) DEF Core
  <2> QED BY <1>3, <1>4, <2>1, <2>2, ZenonT(30) DEF Core
<1>7. Updated(a, u)
  BY <1>2, <1>5, <1>6, UpdateMedia, ZenonT(30) DEF u
<1>8. /\ u \in StreamRec /\ SameCall(a, u) /\ u.call = a.call /\ SdesState(u) /\ DtlsInv(u) /\ u.sd.on
  BY <1>3, <1>7, ZenonT(30) DEF Updated, OnlyUpdated
<1>9. u.sd.suite = a.sd.suite
  BY <1>3, <1>4, <1>5, <1>7, AttrKept, ZenonT(30)
<1>10. SameCall(s, u)
  BY <1>4, <1>8, SameTrans, ZenonT(30)
<1>11. /\ u.enc = s.enc /\ u.nat = s.nat /\ u.rsdp = s.rsdp /\ u.peerkey = s.peerkey
       /\ u.alien = s.alien /\ u.left = s.left /\ u.suite = s.suite
  BY <1>10, Zenon DEF SameCall
<1>12. SdpContent(u) /\ Core(u)
  <2>1. SdpContent(u)
    BY <1>2, <1>11, ZenonT(30) DEF SdpContent
  <2> QED BY <1>8, <2>1, ContentFits, ZenonT(30) DEF Core
<1>13. /\ OnlyExchange(u, x)
       /\ Exchange(x, u.sd.lattr, u.known, u.suite, u.reinv, u.alien, u.refused, u.left, u.call)
  BY <1>8, Encode, Zenon DEF x
<1>14. Core(x) /\ SdpContent(x)
  BY <1>12, <1>13, EncodedCore, ZenonT(30)
<1>15. x.enc = u.enc /\ x.nat = u.nat /\ x.rsdp = u.rsdp /\ x.sd = u.sd
  BY <1>13, Zenon DEF OnlyExchange, SameStream
<1>16. x.sent = u.sd.lattr /\ x.suite = u.suite /\ x.alien = u.alien /\ x.left = u.left
       /\ x.call = u.call
  BY <1>13, Zenon DEF Exchange
<1>17. u.sd.lattr[1] \in Supported
  BY <1>8, LocalAttr, ZenonT(30)
<1>18. x.rsdp.port /\ x.call = "up" /\ x.sd.on /\ x.left = s.left /\ (x.alien => x.nat)
       /\ x.sent[1] \in Supported /\ x.sent = x.sd.lattr
  BY <1>1, <1>2, <1>4, <1>8, <1>11, <1>15, <1>16, <1>17, ZenonT(30)
<1>19. ~x.alien => x.sd.suite = Last(x.rsdp.crypto).suite /\ x.suite = x.sd.suite
  BY <1>2, <1>3, <1>9, <1>11, <1>15, <1>16
<1> QED BY <1>1, <1>2, <1>14, <1>18, <1>19, Reinvited, ZenonT(30)

\* sipsess_estab_handler()
LEMMA EstabHandler ==
  ASSUME Inv(s), sipsess_estab_handler
  PROVE  Inv(s')
<1> DEFINE y == update_streams(s)
<1>1. s.call = "answered" /\ s' = [y EXCEPT !.call = "up"]
  BY Zenon DEF sipsess_estab_handler, Becomes
<1> HIDE DEF y
<1>2. s \in StreamRec /\ s.rsdp.port
  BY <1>1, ZenonT(30) DEF Inv, SdpInv
<1>3. OnlyFlags(s, y) /\ y.secure = s.secure /\ y.tx = s.tx /\ y.rtcp = s.rtcp /\ Runs(y)
  BY <1>2, UpdateStreams, Zenon DEF y
<1>4. y \in StreamRec /\ SameCall(s, y) /\ SameState(s, y)
  BY <1>3, Zenon DEF OnlyFlags
<1>5. /\ OnlyExchange(y, s')
      /\ Exchange(s', y.sent, y.known, y.suite, y.reinv, y.alien, y.refused, y.left, "up")
  <2>1. "up" \in Calls
    BY Zenon DEF Calls
  <2> QED BY <1>1, <1>4, <2>1, SetExchange, ZenonT(30)
<1>6. s' \in StreamRec /\ SameStream(y, s')
  BY <1>5, Zenon DEF OnlyExchange
<1>7. /\ s'.enc = s.enc /\ s'.nat = s.nat /\ s'.rsdp = s.rsdp /\ s'.peerkey = s.peerkey
      /\ s'.sent = s.sent /\ s'.known = s.known /\ s'.suite = s.suite /\ s'.reinv = s.reinv
      /\ s'.alien = s.alien /\ s'.refused = s.refused /\ s'.call = "up"
  BY <1>4, <1>5, <1>6, ZenonT(30) DEF SameCall, SameStream, Exchange
<1>8. /\ s'.raddr = s.raddr /\ s'.err = s.err /\ s'.sd = s.sd /\ s'.dt = s.dt
      /\ s'.tx = s.tx /\ s'.rtcp = s.rtcp /\ s'.src = y.src /\ s'.rx = y.rx
      /\ y.raddr = s.raddr /\ y.dt = s.dt /\ y.sd = s.sd
  BY <1>3, <1>4, <1>6, ZenonT(30) DEF SameState, SameStream, Flags
<1>9. /\ Sends(y) = Sends(s) /\ Receives(y) = Receives(s) /\ mnat_ready(y) = mnat_ready(s)
      /\ stream_is_ready(y) = stream_is_ready(s)
  BY <1>3, <1>4, <1>8, ReadySame, ZenonT(30)
<1>10. /\ Sends(s') = Sends(y) /\ Receives(s') = Receives(y) /\ mnat_ready(s') = mnat_ready(y)
       /\ stream_is_ready(s') = stream_is_ready(y)
  BY <1>6, StreamSame, ZenonT(30)
<1>11. SdesState(s') /\ DtlsInv(s')
  <2>1. SdesState(y)
    BY <1>8, SdesKept, ZenonT(30) DEF Inv
  <2>2. DtlsInv(y)
    BY <1>3, <1>4, <1>8, DtlsKept, ZenonT(30) DEF Inv
  <2> QED BY <1>6, <2>1, <2>2, StreamKept, ZenonT(30)
<1>12. SdpInv(s')
  BY <1>1, <1>7, <1>8, ZenonT(30) DEF Inv, SdpInv, SdpContent, Connected
<1>13. SdesMedia(s')
  BY <1>1, <1>7, <1>8, <1>9, <1>10, ZenonT(30) DEF Inv, SdesMedia, Connected
<1>14. SdesSdp(s') /\ (s'.alien => s'.nat)
  BY <1>1, <1>7, <1>8 DEF Inv, SdesSdp, Connected
<1>15. MediaInv(s')
  <2>1. s'.src = (stream_is_ready(s') /\ Sends(s')) /\ (stream_is_ready(s') => s'.rx = Receives(s'))
    BY <1>3, <1>8, <1>10, Zenon DEF Runs
  <2>2. MediaInv(s) /\ Connected(s)
    BY <1>1, Zenon DEF Inv, Connected
  <2>3. /\ s'.tx => stream_is_ready(s') /\ Sends(s')
        /\ ~s'.err /\ stream_is_ready(s') /\ Sends(s') => s'.tx
        /\ stream_is_ready(s') =>
             s'.rtcp \/ (s'.enc = "sdes" /\ s'.nat)
               \/ (s'.enc = "dtls" /\ ~s'.dt.comp["RTCP"].negotiated)
        /\ ~mnat_ready(s') => ~s'.err
    BY <1>7, <1>8, <1>9, <1>10, <2>2, ZenonT(30) DEF MediaInv
  <2> QED BY <2>1, <2>3, Zenon DEF MediaInv
<1> QED BY <1>6, <1>11, <1>12, <1>13, <1>14, <1>15, Zenon DEF Inv

\* A stream before the first update.
LEMMA NotYetConnected ==
  ASSUME NEW x \in StreamRec, SdpContent(x), SdesState(x), DtlsInv(x), ~x.raddr, ~x.tx, ~x.err,
         x.enc = "sdes" => x.sd.on,
         \/ x.call = "offered" /\ ~x.rsdp.port
         \/ x.call = "incoming" /\ x.rsdp.port
  PROVE  StreamInv(x)
<1>1. SdpInv(x)
  BY Zenon DEF SdpInv, Connected
<1>2. SdesMedia(x)
  BY Zenon DEF SdesMedia, Connected
<1>3. MediaInv(x)
  BY ZenonT(30) DEF MediaInv, Connected
<1> QED BY <1>1, <1>2, <1>3, ZenonT(30) DEF StreamInv

\* The start of the encryption of a stream without SDP of the peer.
LEMMA FirstStart ==
  ASSUME Inv(s), s.call = "idle", NEW x, x = stream_start_mediaenc(s, "ok")
  PROVE  /\ x \in StreamRec /\ SameCall(s, x) /\ SdesState(x) /\ DtlsInv(x)
         /\ ~x.raddr /\ ~x.tx /\ ~x.err /\ (x.enc = "sdes" => x.sd.on)
<1>1. Core(s) /\ s \in StreamRec /\ ~s.rsdp.port /\ ~s.raddr
  BY InvCore, ZenonT(30) DEF Inv, SdpInv
<1>2. ~s.tx
  BY <1>1, ZenonT(30) DEF Inv, MediaInv, stream_is_ready
<1>3. CASE s.enc = "sdes"
  <2>1. OnlyUpdated(s, x) /\ x.raddr = s.raddr /\ SdesState(x) /\ DtlsInv(x) /\ ~x.err /\ x.sd.on /\ ~x.tx
    BY <1>1, <1>2, <1>3, StartSdes
  <2> QED BY <1>1, <2>1, ZenonT(30) DEF OnlyUpdated
<1>4. CASE s.enc = "dtls"
  <2>1. OnlyUpdated(s, x) /\ OnlyDtls(s, x) /\ SdesState(x) /\ DtlsInv(x) /\ ~x.err
    BY <1>1, <1>4, StartDtls, ZenonT(30)
  <2>2. x.raddr = s.raddr /\ x.tx = s.tx /\ x.enc = s.enc
    BY <2>1, ZenonT(30) DEF OnlyDtls, Flags, SameCall
  <2> QED BY <1>1, <1>2, <1>4, <2>1, <2>2, ZenonT(30) DEF OnlyUpdated
<1>5. CASE s.enc = "none"
  <2>1. OnlyUpdated(s, x) /\ OnlyDtls(s, x) /\ SdesState(x) /\ DtlsInv(x) /\ ~x.err
    BY <1>1, <1>5, StartNone, ZenonT(30)
  <2>2. x.raddr = s.raddr /\ x.tx = s.tx /\ x.enc = s.enc
    BY <2>1, Zenon DEF OnlyDtls, Flags, SameCall
  <2> QED BY <1>1, <1>2, <1>5, <2>1, <2>2, ZenonT(30) DEF OnlyUpdated
<1> QED BY <1>1, <1>3, <1>4, <1>5, ZenonT(30) DEF StreamRec

\* stream_alloc()
LEMMA Alloc ==
  ASSUME Inv(s), stream_alloc
  PROVE  Inv(s')
<1> DEFINE x == stream_start_mediaenc(s, "ok")
<1>1. /\ s.call = "idle"
      /\ \/ s' = [sdp_encode(x) EXCEPT !.call = "offered"]
         \/ \E o \in Offers(s) : s' = [sdp_decode(x, o) EXCEPT !.call = "incoming"]
  BY Zenon DEF stream_alloc, Becomes
<1> HIDE DEF x
<1>2. /\ x \in StreamRec /\ SameCall(s, x) /\ SdesState(x) /\ DtlsInv(x)
      /\ ~x.raddr /\ ~x.tx /\ ~x.err /\ (x.enc = "sdes" => x.sd.on)
  BY <1>1, FirstStart, ZenonT(30) DEF x
<1>3. /\ x.enc = s.enc /\ x.nat = s.nat /\ x.rsdp = s.rsdp /\ x.peerkey = s.peerkey
      /\ x.alien = s.alien
  BY <1>2, ZenonT(30) DEF SameCall
<1>4. s \in StreamRec /\ SdpContent(s) /\ ~s.rsdp.port /\ (s.alien => s.nat)
  BY <1>1, ZenonT(30) DEF Inv, SdpInv
<1>5. CASE s' = [sdp_encode(x) EXCEPT !.call = "offered"]
  <2> DEFINE e == sdp_encode(x)
  <2>1. /\ OnlyExchange(x, e)
        /\ Exchange(e, x.sd.lattr, x.known, x.suite, x.reinv, x.alien, x.refused, x.left, x.call)
    BY <1>2, Encode, ZenonT(30)
  <2>2. s' = [e EXCEPT !.call = "offered"]
    BY <1>5, ZenonT(30)
  <2> HIDE DEF e
  <2>3. /\ OnlyExchange(e, s')
        /\ Exchange(s', e.sent, e.known, e.suite, e.reinv, e.alien, e.refused, e.left, "offered")
    <3>1. e \in StreamRec /\ "offered" \in Calls
      BY <2>1, Zenon DEF OnlyExchange, Calls
    <3> QED BY <2>2, <3>1, SetExchange, ZenonT(30)
  <2>4. OnlyExchange(x, s')
    BY <2>1, <2>3, ExchangeTrans, ZenonT(30)
  <2>5. s' \in StreamRec /\ SdesState(s') /\ DtlsInv(s')
    BY <1>2, <2>4, StreamKept, ZenonT(30) DEF OnlyExchange
  <2>6. /\ s'.enc = x.enc /\ s'.nat = x.nat /\ s'.rsdp = x.rsdp /\ s'.peerkey = x.peerkey
        /\ s'.raddr = x.raddr /\ s'.tx = x.tx /\ s'.err = x.err /\ s'.sd = x.sd
    BY <2>4, Zenon DEF OnlyExchange, SameStream, Flags
  <2>7. s'.sent = x.sd.lattr /\ s'.alien = x.alien /\ s'.call = "offered"
    BY <2>1, <2>3, ZenonT(30) DEF Exchange
  <2>8. SdpContent(s')
    BY <1>3, <1>4, <2>6, ZenonT(30) DEF SdpContent
  <2>9. StreamInv(s')
    BY <1>2, <1>3, <1>4, <2>5, <2>6, <2>7, <2>8, NotYetConnected, ZenonT(30)
  <2>10. SdesSdp(s')
    <3>1. x.enc = "sdes" => x.sd.lattr[1] \in Supported
      BY <1>2, LocalAttr, ZenonT(30)
    <3> QED BY <2>6, <2>7, <3>1, ZenonT(30) DEF SdesSdp, Connected
  <2> QED BY <1>3, <1>4, <2>6, <2>7, <2>9, <2>10, ZenonT(30) DEF Inv, StreamInv
<1>6. ASSUME NEW o \in Offers(s), s' = [sdp_decode(x, o) EXCEPT !.call = "incoming"]
      PROVE  Inv(s')
  <2> DEFINE e == sdp_decode(x, o)
  <2>1. PeerSdp(x, o)
    BY <1>3, <1>4, OfferFits, ZenonT(30) DEF PeerSdp
  <2>2. /\ e \in StreamRec /\ SameState(x, e) /\ SameExchange(x, e)
        /\ Flags(e, x.secure, x.tx, x.rx, x.src, x.rtcp)
        /\ e.enc = x.enc /\ e.nat = x.nat /\ e.mux = x.mux /\ e.natup = x.natup
        /\ e.rsdp.port /\ SdpContent(e)
    BY <1>2, <2>1, Decode
  <2>3. s' = [e EXCEPT !.call = "incoming"]
    BY <1>6, Zenon
  <2> HIDE DEF e
  <2>4. /\ OnlyExchange(e, s')
        /\ Exchange(s', e.sent, e.known, e.suite, e.reinv, e.alien, e.refused, e.left, "incoming")
    <3>1. "incoming" \in Calls
      BY Zenon DEF Calls
    <3> QED BY <2>2, <2>3, <3>1, SetExchange, Zenon
  <2>5. Core(e) /\ (e.enc = "sdes" => e.sd.on) /\ (e.alien => e.nat)
    <3>1. Core(x)
      <4>1. SdpContent(x)
        BY <1>3, <1>4, ZenonT(30) DEF SdpContent
      <4> QED BY <1>2, <4>1, ContentFits, ZenonT(30) DEF Core
    <3> QED BY <1>2, <1>3, <1>4, <2>2, <3>1, DecodedCore, Zenon
  <2>6. s' \in StreamRec /\ SdesState(s') /\ DtlsInv(s')
    BY <2>4, <2>5, StreamKept, ZenonT(30) DEF OnlyExchange, Core
  <2>7. /\ s'.enc = e.enc /\ s'.nat = e.nat /\ s'.rsdp = e.rsdp /\ s'.peerkey = e.peerkey
        /\ s'.raddr = e.raddr /\ s'.tx = e.tx /\ s'.err = e.err /\ s'.sd = e.sd
    BY <2>4, ZenonT(30) DEF OnlyExchange, SameStream, Flags
  <2>8. s'.alien = e.alien /\ s'.call = "incoming"
    BY <2>4, ZenonT(30) DEF Exchange
  <2>9. SdpContent(s')
    BY <2>2, <2>7, ZenonT(30) DEF SdpContent
  <2>10. e.raddr = x.raddr /\ e.tx = x.tx /\ e.err = x.err
    BY <2>2, ZenonT(30) DEF SameState, Flags
  <2>11. StreamInv(s')
    BY <1>2, <2>2, <2>5, <2>6, <2>7, <2>8, <2>9, <2>10, NotYetConnected, ZenonT(30)
  <2>12. SdesSdp(s')
    BY <2>8, Zenon DEF SdesSdp, Connected
  <2> QED BY <2>5, <2>7, <2>8, <2>11, <2>12, ZenonT(30) DEF Inv, StreamInv
<1> QED BY <1>1, <1>5, <1>6, ZenonT(30)

-----------------------------------------------------------------------------
(* The NAT traversal *)

\* The NAT traversal has connected, and nothing else has changed.
OnlyNat(x, y) ==
  /\ y \in StreamRec /\ y.natup /\ y.raddr
  /\ y.enc = x.enc /\ y.nat = x.nat /\ y.mux = x.mux /\ y.ldir = x.ldir
  /\ y.rsdp = x.rsdp /\ y.peerkey = x.peerkey /\ y.err = x.err /\ y.sd = x.sd /\ y.dt = x.dt
  /\ Flags(y, x.secure, x.tx, x.rx, x.src, x.rtcp) /\ SameExchange(x, y)

LEMMA NatUp ==
  ASSUME NEW x \in StreamRec
  PROVE  OnlyNat(x, [x EXCEPT !.natup = TRUE, !.raddr = TRUE])
<1> DEFINE a == [x EXCEPT !.natup = TRUE]
           y == [a EXCEPT !.raddr = TRUE]
<1>1. a \in StreamRec
  BY ZenonT(30) DEF StreamRec
<1>2. /\ a.natup /\ a.enc = x.enc /\ a.nat = x.nat /\ a.mux = x.mux /\ a.ldir = x.ldir
      /\ a.rsdp = x.rsdp /\ a.peerkey = x.peerkey /\ a.err = x.err /\ a.sd = x.sd /\ a.dt = x.dt
      /\ Flags(a, x.secure, x.tx, x.rx, x.src, x.rtcp) /\ SameExchange(x, a)
  BY ZenonT(30) DEF StreamRec, Flags, SameExchange
<1> HIDE DEF a
<1>3. y \in StreamRec
  BY <1>1, ZenonT(30) DEF StreamRec
<1>4. /\ y.raddr /\ y.natup = a.natup /\ y.enc = a.enc /\ y.nat = a.nat /\ y.mux = a.mux
      /\ y.ldir = a.ldir /\ y.rsdp = a.rsdp /\ y.peerkey = a.peerkey /\ y.err = a.err
      /\ y.sd = a.sd /\ y.dt = a.dt
      /\ Flags(y, a.secure, a.tx, a.rx, a.src, a.rtcp) /\ SameExchange(a, y)
  BY <1>1, ZenonT(30) DEF StreamRec, Flags, SameExchange
<1>5. [x EXCEPT !.natup = TRUE, !.raddr = TRUE] = y
  BY ZenonT(30) DEF a
<1> HIDE DEF y
<1>6. Flags(y, x.secure, x.tx, x.rx, x.src, x.rtcp) /\ SameExchange(x, y)
  BY <1>2, <1>4, ZenonT(30) DEF Flags, SameExchange
<1>7. OnlyNat(x, y)
  BY <1>2, <1>3, <1>4, <1>6, ZenonT(30) DEF OnlyNat
<1> QED BY <1>5, <1>7, ZenonT(30)

\* Before it has, nothing is sent and DTLS has not begun; then the stream can be
\* updated.
LEMMA NatUpCore ==
  ASSUME NEW x, Inv(x), x.nat, ~x.natup, Connected(x), NEW y, OnlyNat(x, y)
  PROVE  /\ Core(y) /\ SdpContent(y) /\ y.rsdp.port /\ mnat_ready(y) /\ ~y.tx /\ ~y.err
         /\ y.enc = "dtls" => ~y.secure
         /\ y.call = "up" => ~y.src
<1>1. ~mnat_ready(x) /\ x \in StreamRec
  BY Zenon DEF mnat_ready, Inv
<1>2. mnat_ready(y) /\ Used(y) = Used(x)
  BY Zenon DEF OnlyNat, mnat_ready, Used
<1>3. /\ ~x.tx /\ ~x.err
      /\ x.enc = "dtls" => ~x.secure
      /\ x.call = "up" => ~x.src
  BY <1>1, ZenonT(30) DEF Inv, MediaInv, DtlsInv, stream_is_ready
<1>4. /\ y.sd = x.sd /\ y.dt = x.dt /\ y.enc = x.enc /\ y.secure = x.secure /\ y.rtcp = x.rtcp
      /\ y.tx = x.tx /\ y.src = x.src /\ y.err = x.err /\ y.rsdp = x.rsdp
      /\ y.peerkey = x.peerkey /\ y.call = x.call
  BY Zenon DEF OnlyNat, Flags, SameExchange
<1>5. SdesState(y)
  BY <1>4, SdesKept, ZenonT(30) DEF Inv
<1>6. ASSUME NEW c \in Components
      PROVE  ComponentInv(y, c)
  BY <1>2, <1>4, ZenonT(30) DEF Inv, DtlsInv, ComponentInv
<1>7. DtlsInv(y)
  BY <1>2, <1>4, <1>6, Zenon DEF Inv, DtlsInv
<1>8. SdpContent(y) /\ y.rsdp.port
  BY <1>4, Zenon DEF Inv, SdpInv, SdpContent, Connected
<1>9. Core(y)
  BY <1>5, <1>7, <1>8, ContentFits, ZenonT(30) DEF Core, OnlyNat
<1> QED BY <1>2, <1>3, <1>4, <1>8, <1>9, ZenonT(30)

\* The stream after the NAT traversal has connected and the encryption has begun.
LEMMA AfterNat ==
  ASSUME NEW x, Inv(x), Connected(x), NEW y, OnlyNat(x, y),
         NEW z \in StreamRec, SameCall(y, z), z.raddr, z.call = y.call,
         SdesState(z), DtlsInv(z), MediaInv(z),
         z.enc = "sdes" => InUse(z) /\ z.sd.on /\ z.sd.key_tx = x.sd.key_tx
  PROVE  Inv(z)
<1>1. /\ z.enc = x.enc /\ z.nat = x.nat /\ z.rsdp = x.rsdp /\ z.peerkey = x.peerkey
      /\ z.sent = x.sent /\ z.known = x.known /\ z.suite = x.suite /\ z.reinv = x.reinv
      /\ z.alien = x.alien /\ z.refused = x.refused /\ z.call = x.call
  <2>1. /\ z.enc = y.enc /\ z.nat = y.nat /\ z.rsdp = y.rsdp /\ z.peerkey = y.peerkey
        /\ z.sent = y.sent /\ z.known = y.known /\ z.suite = y.suite /\ z.reinv = y.reinv
        /\ z.alien = y.alien /\ z.refused = y.refused
    BY Zenon DEF SameCall
  <2>2. /\ y.enc = x.enc /\ y.nat = x.nat /\ y.rsdp = x.rsdp /\ y.peerkey = x.peerkey
        /\ y.sent = x.sent /\ y.known = x.known /\ y.suite = x.suite /\ y.reinv = x.reinv
        /\ y.alien = x.alien /\ y.refused = x.refused /\ y.call = x.call
    BY Zenon DEF OnlyNat, SameExchange
  <2> QED BY <2>1, <2>2, ZenonT(30)
<1>2. SdpInv(z)
  BY <1>1, ZenonT(30) DEF Inv, SdpInv, SdpContent, Connected
<1>3. SdesMedia(z)
  BY Zenon DEF SdesMedia, InUse
<1>4. SdesSdp(z)
  <2>1. SUFFICES ASSUME x.enc = "sdes" PROVE SdesSdp(z)
    BY <1>1, Zenon DEF SdesSdp
  <2>2. x.sent[1] \in Supported
    BY <2>1, ZenonT(30) DEF Inv, SdesSdp
  <2>3. ASSUME ~x.alien
        PROVE  /\ x.sent = z.sd.lattr /\ z.sd.suite = Last(x.rsdp.crypto).suite
               /\ x.suite = z.sd.suite
               /\ ~x.reinv /\ ~x.refused => x.known = x.sent
    <3>1. /\ x.sent = x.sd.lattr /\ x.sd.suite = Last(x.rsdp.crypto).suite /\ x.suite = x.sd.suite
          /\ ~x.reinv /\ ~x.refused => x.known = x.sent
      BY <2>1, <2>3, ZenonT(30) DEF Inv, SdesSdp
    <3>2. x.sd.on /\ x \in StreamRec /\ SdesState(x)
      BY <2>1, Zenon DEF Inv, SdesMedia, Connected
    <3>3. x.sd.lattr = Session(x.sd.suite, x.sd.key_tx)
      BY <3>2, LocalAttr, ZenonT(30)
    <3>4. z.sd.lattr = Session(z.sd.suite, z.sd.key_tx) /\ z.sd.key_tx = x.sd.key_tx
      BY <1>1, <2>1, LocalAttr, ZenonT(30)
    <3>5. z.sd.suite = x.sd.suite
      BY <1>1, <2>1, <3>1, ZenonT(30) DEF InUse
    <3> QED BY <3>1, <3>3, <3>4, <3>5, ZenonT(30)
  <2> QED BY <1>1, <2>1, <2>2, <2>3, ZenonT(30) DEF SdesSdp
<1> QED BY <1>1, <1>2, <1>3, <1>4, ZenonT(30) DEF Inv

\* stream_enable_tx() when the NAT traversal has connected: x is the stream after
\* the handler of call.c.
LEMMA NatEnable ==
  ASSUME Inv(s), Connected(s), NEW o, OnlyNat(s, o),
         NEW x \in StreamRec, SameCall(o, x), x.raddr, x.call = o.call, SdesState(x), DtlsInv(x),
         mnat_ready(x), TxReady(x),
         x.enc = "sdes" => InUse(x) /\ x.sd.on /\ x.sd.key_tx = s.sd.key_tx,
         x.call = "up" => Runs(x),
         stream_is_ready(x) => x.rtcp \/ (x.enc = "sdes" /\ x.nat),
         NEW z, z = stream_enable_tx(x, TRUE)
  PROVE  Inv(z)
<1>1. /\ OnlyFlags(x, z)
      /\ Flags(z, x.secure, x.tx \/ (stream_is_ready(x) /\ Sends(x)), x.rx, x.src, x.rtcp)
  BY EnableTx, ZenonT(30)
<1>2. z \in StreamRec /\ SameCall(x, z) /\ SameState(x, z) /\ z.call = x.call
  BY <1>1, ZenonT(30) DEF OnlyFlags
<1>3. SameCall(o, z)
  BY <1>2, SameTrans, ZenonT(30)
<1>4. z.raddr = x.raddr /\ z.err = x.err /\ z.sd = x.sd /\ z.dt = x.dt
  BY <1>2, ZenonT(30) DEF SameState
<1>5. z.secure = x.secure /\ z.tx = (x.tx \/ (stream_is_ready(x) /\ Sends(x))) /\ z.rx = x.rx
      /\ z.src = x.src /\ z.rtcp = x.rtcp
  BY <1>1, ZenonT(30) DEF Flags
<1>6. SdesState(z) /\ DtlsInv(z)
  BY <1>2, <1>4, <1>5, SdesKept, DtlsKept, ZenonT(30)
<1>7. /\ Sends(z) = Sends(x) /\ Receives(z) = Receives(x) /\ mnat_ready(z) = mnat_ready(x)
      /\ stream_is_ready(z) = stream_is_ready(x)
  BY <1>2, <1>4, <1>5, ReadySame, ZenonT(30)
<1>8. z.enc = x.enc /\ z.nat = x.nat /\ z.rsdp = x.rsdp /\ z.peerkey = x.peerkey
  BY <1>2, ZenonT(30) DEF SameCall
<1>9. MediaInv(z)
  <2>1. z.tx => stream_is_ready(z) /\ Sends(z)
    BY <1>5, <1>7, ZenonT(30) DEF TxReady
  <2>2. stream_is_ready(z) /\ Sends(z) => z.tx
    BY <1>5, <1>7, ZenonT(30)
  <2>3. z.call = "up" => /\ z.src = (stream_is_ready(z) /\ Sends(z))
                         /\ stream_is_ready(z) => z.rx = Receives(z)
    BY <1>2, <1>5, <1>7, ZenonT(30) DEF Runs
  <2>4. stream_is_ready(z) => z.rtcp \/ (z.enc = "sdes" /\ z.nat)
    BY <1>5, <1>7, <1>8, ZenonT(30)
  <2> QED BY <1>7, <2>1, <2>2, <2>3, <2>4, ZenonT(30) DEF MediaInv
<1>10. z.enc = "sdes" => InUse(z) /\ z.sd.on /\ z.sd.key_tx = s.sd.key_tx
  BY <1>4, <1>8, ZenonT(30) DEF InUse
<1> QED BY <1>2, <1>3, <1>4, <1>6, <1>9, <1>10, AfterNat, ZenonT(30)

\* stream_mnat_connected()
LEMMA MnatConnected ==
  ASSUME Inv(s), NEW r, stream_mnat_connected(r)
  PROVE  Inv(s')
<1> DEFINE o == [s EXCEPT !.natup = TRUE, !.raddr = TRUE]
           x == stream_mnatconn_handler(o, r)
<1>1. /\ s.nat /\ ~s.natup /\ Connected(s)
      /\ s' = IF x.call = "closed" THEN audio_stop(x) ELSE stream_enable_tx(x, TRUE)
  BY Zenon DEF stream_mnat_connected, Becomes, Connected
<1>2. OnlyNat(s, o)
  BY NatUp, Zenon DEF Inv
<1> HIDE DEF o, x
<1>3. /\ Core(o) /\ SdpContent(o) /\ o.rsdp.port /\ mnat_ready(o) /\ ~o.tx /\ ~o.err
      /\ o.enc = "dtls" => ~o.secure
      /\ o.call = "up" => ~o.src
  BY <1>1, <1>2, NatUpCore, ZenonT(30)
<1>4. /\ o \in StreamRec /\ o.raddr /\ o.nat /\ o.sd = s.sd /\ o.enc = s.enc /\ o.call = s.call
      /\ o.alien = s.alien /\ o.enc \in {"none", "sdes", "dtls"}
  BY <1>1, <1>2, ZenonT(30) DEF OnlyNat, SameExchange, StreamRec
<1>5. o.call # "closed"
  BY <1>1, <1>4, ZenonT(30) DEF Connected
<1>6. CASE o.enc = "none"
  <2>1. CASE stream_is_ready(o)
    <3> DEFINE a == stream_start_rtcp(o)
    <3>1. x = audio_update(a)
      BY <1>6, <2>1 DEF x, stream_mnatconn_handler
    <3>2. OnlyFlags(o, a) /\ Flags(a, o.secure, o.tx, o.rx, o.src, TRUE)
      BY <1>4, StartRtcp, ZenonT(30)
    <3> HIDE DEF a
    <3>3. a \in StreamRec /\ SameCall(o, a) /\ a.rsdp.port
      BY <1>3, <3>2, ZenonT(30) DEF OnlyFlags, SameCall
    <3>4. OnlyFlags(a, x) /\ Flags(x, a.secure, a.tx, Receives(a), Sends(a), a.rtcp)
      BY <3>1, <3>3, AudioUpdate, ZenonT(30)
    <3>5. OnlyFlags(o, x)
      BY <3>2, <3>4, FlagsTrans, ZenonT(30)
    <3>6. x \in StreamRec /\ SameCall(o, x) /\ SameState(o, x) /\ x.call = o.call
      BY <3>5, ZenonT(30) DEF OnlyFlags
    <3>7. x.raddr = o.raddr /\ x.sd = o.sd /\ x.dt = o.dt
      BY <3>6, ZenonT(30) DEF SameState
    <3>8. x.secure = o.secure /\ x.tx = o.tx /\ x.rx = Receives(a) /\ x.src = Sends(a) /\ x.rtcp
      BY <3>2, <3>4, ZenonT(30) DEF Flags
    <3>9. SdesState(x) /\ DtlsInv(x)
      BY <1>3, <3>6, <3>7, <3>8, SdesKept, DtlsKept, ZenonT(30) DEF Core
    <3>10. Sends(a) = Sends(o) /\ Receives(a) = Receives(o)
      BY <3>3, ReadySame, Zenon
    <3>11. /\ Sends(x) = Sends(o) /\ Receives(x) = Receives(o) /\ mnat_ready(x) = mnat_ready(o)
           /\ stream_is_ready(x) = stream_is_ready(o)
      BY <3>6, <3>7, <3>8, ReadySame, ZenonT(30)
    <3>12. Sends(o) \in BOOLEAN
      BY <1>4, Conditions, ZenonT(30)
    <3>13. Runs(x)
      BY <2>1, <3>8, <3>10, <3>11, <3>12, ZenonT(30) DEF Runs
    <3>14. x.enc = "none" /\ ~x.tx /\ s' = stream_enable_tx(x, TRUE)
      BY <1>1, <1>3, <1>5, <1>6, <3>6, <3>8, ZenonT(30) DEF SameCall
    <3> QED BY <1>1, <1>2, <1>3, <1>4, <3>6, <3>7, <3>8, <3>9, <3>11, <3>13, <3>14, NatEnable, ZenonT(30) DEF TxReady
  <2>2. CASE ~stream_is_ready(o)
    <3>1. x = o
      BY <1>6, <2>2, ZenonT(30) DEF x, stream_mnatconn_handler
    <3>2. s' = stream_enable_tx(o, TRUE)
      BY <1>1, <1>5, <3>1, ZenonT(30)
    <3>3. SameCall(o, o) /\ SdesState(o) /\ DtlsInv(o) /\ TxReady(o)
      BY <1>3, ZenonT(30) DEF SameCall, Core, TxReady
    <3>4. o.call = "up" => Runs(o)
      <4>1. o.src \in BOOLEAN
        BY <1>4, Zenon DEF StreamRec
      <4> QED BY <1>3, <2>2, <4>1, ZenonT(30) DEF Runs
    <3> QED BY <1>1, <1>2, <1>3, <1>4, <1>6, <2>2, <3>2, <3>3, <3>4, NatEnable, ZenonT(30)
  <2> QED BY <2>1, <2>2, ZenonT(30)
<1>7. CASE o.enc = "sdes"
  <2> DEFINE y == stream_start_mediaenc(o, r)
  <2>1. x = IF y.err THEN [y EXCEPT !.call = "closed"] ELSE y
    BY <1>7, Zenon DEF x, stream_mnatconn_handler
  <2>2. /\ OnlyUpdated(o, y) /\ y.raddr = o.raddr /\ SdesState(y) /\ DtlsInv(y) /\ TxReady(y)
        /\ ~y.err /\ y.sd.on /\ InUse(y) /\ y.rx = Receives(y) /\ y.src = Sends(y)
    BY <1>3, <1>7, StartSdes, ZenonT(30)
  <2> HIDE DEF y
  <2>3. y \in StreamRec /\ SameCall(o, y) /\ y.call = o.call
    BY <2>2, Zenon DEF OnlyUpdated
  <2>4. s.sd.on /\ y.sd.key_tx = s.sd.key_tx
    BY <1>1, <1>4, <1>7, <2>2, ZenonT(30) DEF Inv, SdesMedia, Connected, OnlyUpdated
  <2>5. s' = stream_enable_tx(y, TRUE)
    BY <1>1, <1>5, <2>1, <2>2, <2>3, ZenonT(30)
  <2>6. y.enc = "sdes" /\ y.nat /\ mnat_ready(y)
    BY <1>3, <1>4, <1>7, <2>3, ReadySame, ZenonT(30) DEF SameCall
  <2>7. Runs(y)
    <3>1. Sends(y) \in BOOLEAN /\ (Sends(y) => sdp_media_dir(y) # {})
      BY <2>3, Conditions, ZenonT(30)
    <3>2. Sends(y) => stream_is_ready(y)
      BY <1>4, <2>2, <2>6, <3>1, ZenonT(30) DEF stream_is_ready
    <3> QED BY <2>2, <3>1, <3>2, ZenonT(30) DEF Runs
  <2> QED BY <1>1, <1>2, <1>4, <2>2, <2>3, <2>4, <2>5, <2>6, <2>7, NatEnable, ZenonT(30)
<1>8. CASE o.enc = "dtls"
  <2> DEFINE y == stream_start_mediaenc(o, r)
  <2>1. x = IF y.err THEN [y EXCEPT !.call = "closed"] ELSE y
    BY <1>8, Zenon DEF x, stream_mnatconn_handler
  <2>2. OnlyDtls(o, y) /\ SdesState(y) /\ DtlsInv(y)
    BY <1>3, <1>8, StartDtls, ZenonT(30)
  <2> HIDE DEF y
  <2>3. /\ y \in StreamRec /\ SameCall(o, y) /\ y.call = o.call /\ y.raddr = o.raddr
        /\ ~y.secure /\ ~y.tx /\ y.src = o.src
    BY <1>3, <1>8, <2>2, ZenonT(30) DEF OnlyDtls, Flags
  <2>4. y.enc = "dtls" /\ y.rsdp = o.rsdp /\ y.peerkey = o.peerkey /\ y.nat = o.nat
        /\ y.alien = o.alien /\ mnat_ready(y)
    BY <1>3, <1>8, <2>3, ReadySame, ZenonT(30) DEF SameCall
  <2>5. ~stream_is_ready(y)
    BY <2>3, <2>4, ZenonT(30) DEF stream_is_ready
  <2>6. CASE ~y.err
    <3>1. s' = stream_enable_tx(y, TRUE)
      BY <1>1, <1>5, <2>1, <2>3, <2>6, ZenonT(30)
    <3>2. y.call = "up" => Runs(y)
      <4>1. y.src \in BOOLEAN
        BY <2>3, Zenon DEF StreamRec
      <4> QED BY <1>3, <2>3, <2>5, <4>1, ZenonT(30) DEF Runs
    <3> QED BY <1>1, <1>2, <1>4, <2>2, <2>3, <2>4, <2>5, <3>1, <3>2, NatEnable, ZenonT(30) DEF TxReady
  <2>7. CASE y.err
    <3> DEFINE a == [y EXCEPT !.call = "closed"]
    <3>1. x = a
      BY <2>1, <2>7, ZenonT(30)
    <3>2. /\ OnlyExchange(y, a)
          /\ Exchange(a, y.sent, y.known, y.suite, y.reinv, y.alien, y.refused, y.left, "closed")
      <4>1. "closed" \in Calls
        BY Zenon DEF Calls
      <4> QED BY <2>3, <4>1, SetExchange, ZenonT(30)
    <3> HIDE DEF a
    <3>3. a \in StreamRec /\ SameStream(y, a) /\ a.call = "closed" /\ a.alien = y.alien
      BY <3>2, ZenonT(30) DEF OnlyExchange, Exchange
    <3>4. SdesState(a) /\ DtlsInv(a)
      BY <2>2, <3>3, StreamKept, ZenonT(30)
    <3>5. /\ a.enc = y.enc /\ a.nat = y.nat /\ a.rsdp = y.rsdp /\ a.peerkey = y.peerkey
          /\ a.secure = y.secure /\ a.tx = y.tx
      BY <3>3, Zenon DEF SameStream, Flags
    <3>6. s' = audio_stop(a)
      BY <1>1, <3>1, <3>3, ZenonT(30)
    <3>7. OnlyFlags(a, s') /\ Flags(s', a.secure, a.tx, FALSE, FALSE, a.rtcp)
      BY <3>3, <3>6, AudioStop, ZenonT(30)
    <3>8. /\ s' \in StreamRec /\ SameCall(a, s') /\ s'.call = a.call /\ s'.sd = a.sd
          /\ s'.dt = a.dt /\ s'.secure = a.secure /\ s'.tx = a.tx /\ s'.rtcp = a.rtcp
      BY <3>7, ZenonT(30) DEF OnlyFlags, Flags, SameState
    <3>9. SdesState(s') /\ DtlsInv(s')
      BY <3>4, <3>8, SdesKept, DtlsKept, ZenonT(30)
    <3>10. /\ s'.enc = a.enc /\ s'.nat = a.nat /\ s'.rsdp = a.rsdp /\ s'.peerkey = a.peerkey
           /\ s'.alien = a.alien
      BY <3>8, ZenonT(30) DEF SameCall
    <3>11. SdpContent(s')
      BY <1>3, <1>8, <2>4, <3>5, <3>10, ZenonT(30) DEF SdpContent
    <3>12. mnat_ready(s')
      BY <2>4, <3>3, <3>8, StreamSame, ReadySame, ZenonT(30)
    <3> QED BY <1>4, <2>3, <2>4, <3>3, <3>5, <3>8, <3>9, <3>10, <3>11, <3>12, ClosedInv, ZenonT(30)
  <2> QED BY <2>6, <2>7, ZenonT(30)
<1> QED BY <1>4, <1>6, <1>7, <1>8, ZenonT(30)

-----------------------------------------------------------------------------
(* The theorems *)

\* A call begins with nothing.
LEMMA InitInv ==
  ASSUME Init
  PROVE  Inv(s)
<1>1. PICK enc \in {"none", "sdes", "dtls"}, nat \in BOOLEAN, mux \in BOOLEAN :
        s = [enc |-> enc, nat |-> nat, mux |-> mux, natup |-> FALSE, secure |-> FALSE,
             raddr |-> FALSE, ldir |-> Both, tx |-> FALSE, rx |-> FALSE, rtcp |-> FALSE,
             src |-> FALSE, err |-> FALSE, call |-> "idle", sd |-> NoSdes, dt |-> NoDtls,
             rsdp |-> NoSdp, sent |-> NoSession, known |-> NoSession, suite |-> None,
             peerkey |-> 1, peerrole |-> None, reinv |-> FALSE, alien |-> FALSE,
             refused |-> FALSE, left |-> MaxExchanges]
  BY Zenon DEF Init
<1>2. NoSdes \in Sdes
  BY NoSessionType, BoundsAssumption DEF NoSdes, Sdes, None
<1>3. NoDtls \in Dtls
  BY DEF NoDtls, NoComponent, Dtls, ComponentRec, Components, None
<1>4. NoSdp \in Sdps
  BY DEF NoSdp, Sdps, None
<1>5. s \in StreamRec
  BY <1>1, <1>2, <1>3, <1>4, NoSessionType, BoundsAssumption DEF StreamRec, Calls, Both, None
<1>6. /\ s.call = "idle" /\ s.rsdp = NoSdp /\ s.sd = NoSdes /\ s.dt = NoDtls /\ ~s.raddr
      /\ ~s.tx /\ ~s.secure /\ ~s.err /\ ~s.alien /\ ~s.rtcp
  BY <1>1, Zenon
<1>7. SdpInv(s)
  BY <1>6 DEF SdpInv, SdpContent, Connected, NoSdp
<1>8. SdesState(s)
  BY <1>6 DEF SdesState, SessionsInv, NoSdes
<1>9. SdesMedia(s) /\ SdesSdp(s)
  BY <1>6, ZenonT(30) DEF SdesMedia, SdesSdp, Connected
<1>10. DtlsInv(s)
  <2>1. ASSUME NEW c \in Components
        PROVE  s.dt.comp[c] = NoComponent
    BY <1>6, <2>1 DEF NoDtls
  <2>2. ASSUME NEW c \in Components
        PROVE  ComponentInv(s, c)
    <3>1. /\ ~NoComponent.hs /\ NoComponent.conn = None /\ ~NoComponent.sock
          /\ ~NoComponent.negotiated /\ NoComponent.layers = 0
      BY Zenon DEF NoComponent
    <3>2. ~(NoComponent.layers > 0) /\ NoComponent.layers <= 1
      BY <3>1
    <3> QED BY <2>1, <2>2, <3>1, <3>2, ZenonT(30) DEF ComponentInv
  <2> QED BY <1>6, <2>1, <2>2 DEF DtlsInv, NoComponent, Components
<1>11. MediaInv(s)
  BY <1>6, ZenonT(30) DEF MediaInv, Connected
<1> QED BY <1>5, <1>6, <1>7, <1>8, <1>9, <1>10, <1>11, ZenonT(30) DEF Inv

\* Every step keeps the invariant.
LEMMA NextInv ==
  ASSUME Inv(s), [Next]_s
  PROVE  Inv(s')
<1>1. CASE UNCHANGED s
  BY <1>1, Zenon
<1>2. CASE stream_alloc
  BY <1>2, Alloc, Zenon
<1>3. CASE sipsess_estab_handler
  BY <1>3, EstabHandler, ZenonT(30)
<1>4. CASE reinvite_refused
  BY <1>4, ReinviteRefused, Zenon
<1>5. CASE stream_remove_menc_media_state
  BY <1>5, NewKey, Zenon
<1>6. ASSUME NEW r \in Results, call_answer(r)
      PROVE  Inv(s')
  BY <1>6, AnswerCall, Zenon
<1>7. ASSUME NEW r \in Results, sipsess_answer_handler(r)
      PROVE  Inv(s')
  BY <1>7, AnswerHandler, ZenonT(30)
<1>8. ASSUME NEW r \in Results, sipsess_offer_handler(r)
      PROVE  Inv(s')
  BY <1>8, OfferHandler, Zenon
<1>9. ASSUME NEW r \in Results, call_modify(r)
      PROVE  Inv(s')
  BY <1>9, Modify, Zenon
<1>10. ASSUME NEW r \in Results, stream_mnat_connected(r)
       PROVE  Inv(s')
  BY <1>10, MnatConnected, Zenon
<1>11. ASSUME NEW c \in Components,
              dtls_incoming(c) \/ dtls_estab(c) \/ dtls_fails(c) \/ dtls_closed(c)
       PROVE  Inv(s')
  BY <1>11, ConnHandler, DtlsEstabHandler, FingerprintMismatch, CloseHandler, ZenonT(30)
<1> QED BY <1>1, <1>2, <1>3, <1>4, <1>5, <1>6, <1>7, <1>8, <1>9, <1>10, <1>11, ZenonT(30) DEF Next

\* The invariant holds in every state of a call.
LEMMA AlwaysInv == Spec => []InvS
<1>1. Init => InvS
  BY InitInv, Zenon DEF InvS
<1>2. InvS /\ [Next]_s => InvS'
  BY NextInv, Zenon DEF InvS
<1> QED BY <1>1, <1>2, PTL DEF Spec

\* Audio is never sent in the clear: when a stream that is to be encrypted sends
\* (stream_enable_tx(), audio_update()), the keys are there, whatever the order of
\* the offers, the NAT traversal and the handshakes, and whatever they answer.
\* Only after RTCP was the first to be over RTP does not wait for its own
\* handshake (stream_set_secure()).
THEOREM NeverPlain == Spec => []NoPlainMedia
<1>1. InvS => NoPlainMedia
  BY PlainFollows, ZenonT(30) DEF InvS
<1> QED BY <1>1, AlwaysInv, PTL

\* Both sides use the keys they exchanged: media are sent with the suite and the
\* key of the latest SDP of ours that the peer has (start_srtp(), sdp_enc()) and
\* received with those of its latest SDP only (start_crypto()), keys of a handshake
\* go by the role in it (dtls_estab_handler()), and packets are encrypted once.
THEOREM KeysAlwaysAgree == Spec => []KeysAgree
<1>1. InvS => KeysAgree
  BY KeysFollow, ZenonT(30) DEF InvS
<1> QED BY <1>1, AlwaysInv, PTL

\* In an established call audio runs in the directions both sides want when the
\* stream is ready, and RTCP with it, whichever of the SDP, the NAT traversal and
\* the handshake came last (stream_is_ready(), update_streams(), menc_event_handler()).
THEOREM MediaAlwaysRun == Spec => []MediaRuns
<1>1. InvS => MediaRuns
  BY MediaFollows, Zenon DEF InvS
<1> QED BY <1>1, AlwaysInv, PTL

=============================================================================
