----------------------------- MODULE MnatProofs -----------------------------
(***************************************************************************)
(* Proofs about the media-NAT session of a call, second part: the handlers *)
(* of ICE, the steps and the theorems.  For every number of streams the    *)
(* call hears of success once and not too early, it sends the re-INVITE    *)
(* that a new address needs, and what goes on after a report is known.     *)
(***************************************************************************)
EXTENDS MnatSessionProofs

\* stun_resp_handler()
LEMMA StunRespInv ==
  ASSUME NEW x, Inv(x), x.at = "up", x.kind \in Ice, NEW c \in Comp, x.comp[c] = "sent",
         NEW ok \in BOOLEAN, NEW cand \in BOOLEAN, NEW close \in BOOLEAN,
         NEW y, y = stun_resp_handler(x, c, ok, cand, close)
  PROVE  Inv(y)
<1> DEFINE v == IF ok THEN "done" ELSE "failed"
           k == x.nstun[c[1]] - 1
           a == [Answered(x, c, v) EXCEPT !.nstun[c[1]] = @ - 1, !.addr[c] = ok]
           m == c[1]
<1>1. x \in SessionRec /\ x.comp[c] \in {"sent", "alloc"}
  BY Zenon DEF Inv, Sound
<1>2. y = call_gather_handler(a, m, ok, cand, close)
  BY Zenon DEF stun_resp_handler
<1>3. v \in States /\ v \in {"sent", "done", "failed"} /\ v # "sent"
  BY Zenon DEF States
<1>4. k \in 0..2 /\ m \in Media
  BY <1>1, AskedFacts
<1>5. k = x.nstun[c[1]] - 1
  BY Zenon
<1>6. a = [Answered(x, c, v) EXCEPT !.nstun[c[1]] = @ - 1, !.addr[c] = ok]
  BY Zenon
<1> HIDE DEF v, k, a
<1>7. IceAnswered(x, c, v, k, a)
  BY <1>1, <1>3, <1>4, <1>5, <1>6, AnswerIce, ZenonT(30)
<1>8. Inv(a) /\ a.at = "up" /\ a.kind \in Ice /\ a.wait /\ a.srv /\ c[1] <= a.medial
  BY <1>1, <1>3, <1>5, <1>7, IceAnsweredInv, ZenonT(30)
<1>9. m <= a.medial
  BY <1>8, ZenonT(30)
<1> HIDE DEF m
<1> QED BY <1>2, <1>4, <1>8, <1>9, CallGatherInv, ZenonT(30)

\* turnc_handler()
LEMMA TurncInv ==
  ASSUME NEW x, Inv(x), x.at = "up", x.kind \in Ice, NEW c \in Comp, x.comp[c] = "alloc",
         NEW o \in {"err", "scode", "mapped", "relay"}, NEW ok \in BOOLEAN,
         NEW cand \in BOOLEAN, NEW close \in BOOLEAN,
         NEW y, y = turnc_handler(x, c, o, ok, cand, close)
  PROVE  Inv(y)
<1> DEFINE v == IF o = "mapped" THEN "done" ELSE "failed"
           k == x.nstun[c[1]] - 1
           j == x.nstun[c[1]]
           w == o = "mapped"
           a == [Answered(x, c, v) EXCEPT !.nstun[c[1]] = @ - 1, !.addr[c] = w]
           m == c[1]
           g == o # "err" /\ ok
           b == IF o \in {"scode", "relay"} /\ ok THEN send_binding_request(a, c) ELSE a
<1>1. x \in SessionRec /\ x.comp[c] \in {"sent", "alloc"}
  BY Zenon DEF Inv, Sound
<1>2. y = call_gather_handler(b, m, g, cand, close)
  BY Zenon DEF turnc_handler
<1>3. v \in States /\ v \in {"sent", "done", "failed"} /\ v # "sent"
  BY Zenon DEF States
<1>4. k \in 0..2 /\ j \in 0..2 /\ j = k + 1 /\ m \in Media
  BY <1>1, AskedFacts
<1>5. k = x.nstun[c[1]] - 1 /\ j = x.nstun[c[1]] /\ w \in BOOLEAN /\ g \in BOOLEAN
  BY Zenon
<1>6. a = [Answered(x, c, v) EXCEPT !.nstun[c[1]] = @ - 1, !.addr[c] = w]
  BY Zenon
<1>7. b = IF o \in {"scode", "relay"} /\ ok THEN send_binding_request(a, c) ELSE a
  BY Zenon
<1> HIDE DEF v, k, a, b, w, j, g
<1>8. IceAnswered(x, c, v, k, a)
  BY <1>1, <1>3, <1>4, <1>5, <1>6, AnswerIce, Zenon
<1>9. Inv(b) /\ b.at = "up" /\ b.kind \in Ice /\ b.wait /\ b.srv /\ c[1] <= b.medial
  <2>1. CASE o \in {"scode", "relay"} /\ ok
    <3> DEFINE t == "sent"
    <3>1. b = send_binding_request(a, c)
      BY <1>7, <2>1, Zenon
    <3>2. IceAnswered(x, c, t, j, b)
      BY <1>1, <1>3, <1>4, <1>8, <3>1, SendIce, ZenonT(30)
    <3>3. t \in {"sent", "done", "failed"} /\ t = "sent"
      BY Zenon
    <3> HIDE DEF t
    <3> QED BY <1>1, <1>5, <3>2, <3>3, IceAnsweredInv, ZenonT(30)
  <2>2. CASE ~(o \in {"scode", "relay"} /\ ok)
    <3>1. b = a
      BY <1>7, <2>2, ZenonT(30)
    <3>2. IceAnswered(x, c, v, k, b)
      BY <1>8, <3>1, Zenon
    <3> QED BY <1>1, <1>3, <1>5, <3>2, IceAnsweredInv, ZenonT(30)
  <2> QED BY <2>1, <2>2, ZenonT(30)
<1>10. m <= b.medial
  BY <1>9, Zenon
<1> HIDE DEF m
<1> QED BY <1>2, <1>4, <1>5, <1>9, <1>10, CallGatherInv, ZenonT(30)

\* ice_media_alloc(): a request for each socket of the new medium, if the server is known.
LEMMA IceAllocInv ==
  ASSUME NEW x, Inv(x), x.at = "alloc", x.kind \in Ice,
         NEW z, z = Allocated(ice_media_alloc(x))
  PROVE  Inv(z)
<1> DEFINE a == [x EXCEPT !.medial = x.medial + 1]
           q == Of(a, a.medial)
           f == IF x.srv THEN [c \in Comp |-> IF c \in q THEN Asked(a) ELSE x.comp[c]] ELSE x.comp
           h == IF x.srv THEN [x.nstun EXCEPT ![x.medial + 1] = Cardinality(q)] ELSE x.nstun
           w == x.addr
           y == [a EXCEPT !.comp = f, !.nstun = h, !.addr = w]
<1>1. x \in SessionRec /\ GatherInv(x) /\ CheckInv(x) /\ x.wait
  BY Zenon DEF Inv, Sound, Live, Shape
<1>2. x.medial + 1 \in 0..NMedia /\ x.medial + 1 \in Media /\ x.medial \in Nat
  BY <1>1, Sizes DEF Inv, Sound, Shape, SessionRec, Media
<1>3. a.comp = x.comp /\ a.nstun = x.nstun /\ a.addr = x.addr /\ a.medial = x.medial + 1
  BY <1>1, Zenon DEF SessionRec
<1>4. a \in SessionRec
  BY <1>1, <1>2, FieldTypes, ZenonT(30)
<1>5. SameWho(x, a) /\ SameCount(x, a) /\ a.gathered = x.gathered
  BY <1>1, ZenonT(30) DEF SessionRec, SameWho, SameCount
<1>6. SameCheck(x, a) /\ SameNews(x, a)
  BY <1>1, ZenonT(30) DEF SessionRec, SameCheck, SameNews
<1>7. a.at = x.at /\ a.srv = x.srv /\ a.dns = x.dns /\ a.tmr = x.tmr
  BY <1>1, ZenonT(30) DEF SessionRec
<1>8. Cardinality(q) \in 0..2
  BY OfCard, Zenon
<1>9. Asked(a) \in {"sent", "alloc"}
  BY Zenon DEF Asked
<1>10. ice_media_alloc(x) = y
  <2>1. CASE x.srv
    <3>1. ice_media_alloc(x) = start_gathering(a, a.medial)
      BY <2>1, Zenon DEF ice_media_alloc
    <3>2. start_gathering(a, a.medial) = [a EXCEPT !.comp = f, !.nstun = h]
      BY <1>3, <2>1 DEF start_gathering
    <3> HIDE DEF a, f, h
    <3>3. [a EXCEPT !.comp = f, !.nstun = h] = y
      BY <1>3, <1>4, ZenonT(30) DEF SessionRec
    <3> QED BY <3>1, <3>2, <3>3, ZenonT(30)
  <2>2. CASE ~x.srv
    <3>1. ice_media_alloc(x) = a /\ f = a.comp /\ h = a.nstun
      BY <1>3, <2>2, Zenon DEF ice_media_alloc
    <3> HIDE DEF a, f, h
    <3>2. a = y
      BY <1>3, <1>4, <3>1, ZenonT(30) DEF SessionRec
    <3> QED BY <3>1, <3>2, ZenonT(30)
  <2> QED BY <2>1, <2>2, Zenon
<1>11. /\ x.srv => \A c \in Comp : f[c] = IF c \in q THEN Asked(a) ELSE x.comp[c]
       /\ ~x.srv => f = x.comp
  BY Zenon
<1>12. f \in [Comp -> States] /\ x.comp \in [Comp -> States]
  BY <1>1, <1>9, Zenon DEF SessionRec, States
<1>13. /\ h \in [Media -> 0..2] /\ w \in [Comp -> BOOLEAN] /\ x.nstun \in [Media -> 0..2]
  BY <1>1, <1>2, <1>8, ZenonT(30) DEF SessionRec
<1>14. /\ \A m \in Media : m # x.medial + 1 => h[m] = x.nstun[m]
       /\ h[x.medial + 1] = IF x.srv THEN Cardinality(q) ELSE x.nstun[x.medial + 1]
  BY <1>2, <1>13
<1>15. y = [a EXCEPT !.comp = f, !.nstun = h, !.addr = w] /\ q = Of(a, a.medial)
  BY Zenon
<1> HIDE DEF a, f, h, w, y, q
<1>16. OnlyIce(a, y) /\ y.comp = f /\ y.nstun = h
  <2>1. IceIs(a, f, h, y)
    BY <1>4, <1>12, <1>13, <1>15, SetIce, Zenon
  <2> QED BY <2>1, Zenon DEF IceIs
<1>17. y \in SessionRec /\ SameWho(x, y) /\ SameCount(x, y) /\ y.gathered = x.gathered
  BY <1>5, <1>16, ZenonT(30) DEF OnlyIce, SameWho, SameCount
<1>18. SameCheck(x, y) /\ SameNews(x, y)
  BY <1>6, <1>16, ZenonT(30) DEF OnlyIce, SameCheck, SameTold, SameNews
<1>19. /\ y.at = x.at /\ y.medial = x.medial + 1 /\ y.srv = x.srv /\ y.dns = x.dns
       /\ y.tmr = x.tmr
  BY <1>3, <1>7, <1>16, ZenonT(30) DEF OnlyIce, SameRun
<1>20. /\ Socks(y) = Socks(x) \cup Of(y, y.medial)
       /\ \A c \in Of(y, y.medial) : c \in Comp /\ c \notin Socks(x)
       /\ \A m \in Media : m # y.medial => Of(y, m) = Of(x, m)
       /\ Of(x, y.medial) = {}
  BY <1>1, <1>17, <1>19, SocksMore, ZenonT(30) DEF SameWho
<1>21. Of(y, y.medial) = q
  BY <1>3, <1>5, <1>15, <1>17, <1>19, ZenonT(30) DEF Of, Socks, SameWho
<1>22. ASSUME NEW c \in Comp, c \notin q
       PROVE  y.comp[c] = x.comp[c] /\ (c \in Socks(y) <=> c \in Socks(x))
  BY <1>11, <1>16, <1>20, <1>21, <1>22, ZenonT(30)
<1>23. ASSUME NEW c \in Comp, c \in q
       PROVE  /\ c \in Socks(y) /\ (y.srv => y.comp[c] \in {"sent", "alloc"})
              /\ ~y.srv => y.comp[c] = "off"
  <2>1. c \in Socks(y) /\ x.comp[c] = "off"
    BY <1>1, <1>20, <1>21, <1>23, ZenonT(30) DEF GatherInv
  <2> QED BY <1>9, <1>11, <1>16, <1>19, <1>23, <2>1, ZenonT(30)
<1>24. ASSUME NEW c \in Comp
       PROVE  /\ c \notin Socks(y) => y.comp[c] = "off"
              /\ y.comp[c] \in {"off", "sent", "alloc", "done", "failed"}
              /\ y.comp[c] \in {"sent", "alloc"} => y.srv
              /\ c \in Socks(y) /\ y.srv => y.comp[c] # "off"
  <2>1. CASE c \in q
    <3>1. y.srv \in BOOLEAN
      BY <1>17, ZenonT(30) DEF SessionRec
    <3> QED BY <1>23, <2>1, <3>1, ZenonT(30)
  <2>2. CASE c \notin q
    BY <1>1, <1>19, <1>22, <2>2, ZenonT(30) DEF GatherInv
  <2> QED BY <2>1, <2>2, ZenonT(30)
<1>25. ASSUME NEW m \in Media
       PROVE  y.nstun[m] = Cardinality(Asking(y, m))
  <2>1. CASE m # y.medial
    <3>1. Of(y, m) = Of(x, m) /\ \A c \in Of(x, m) : c \in Comp /\ c \notin q
      BY <1>20, <1>21, <2>1, ZenonT(30) DEF Of, Socks
    <3>2. Asking(y, m) = Asking(x, m)
      BY <1>22, <3>1, ZenonT(30) DEF Asking
    <3> QED BY <1>1, <1>14, <1>16, <1>19, <2>1, <3>2, ZenonT(30) DEF GatherInv
  <2>2. CASE m = y.medial /\ x.srv
    <3>1. Asking(y, m) = q
      <4>1. \A c \in q : c \in Comp
        BY <1>20, <1>21, ZenonT(30)
      <4> QED BY <1>19, <1>21, <1>23, <2>2, <4>1, ZenonT(30) DEF Asking
    <3> QED BY <1>14, <1>16, <1>19, <2>2, <3>1, ZenonT(30)
  <2>3. CASE m = y.medial /\ ~x.srv
    <3>1. Asking(y, m) = {}
      <4>1. \A c \in q : c \in Comp /\ y.comp[c] = "off"
        BY <1>19, <1>20, <1>21, <1>23, <2>3, ZenonT(30)
      <4> QED BY <1>21, <2>3, <4>1, ZenonT(30) DEF Asking
    <3>2. Asking(x, m) = {}
      BY <1>20, <2>3, ZenonT(30) DEF Asking
    <3>3. x.nstun[m] = Cardinality(Asking(x, m))
      BY <1>1, ZenonT(30) DEF GatherInv
    <3>4. y.nstun[m] = x.nstun[m]
      BY <1>14, <1>16, <1>19, <2>3, ZenonT(30)
    <3> QED BY <3>1, <3>2, <3>3, <3>4, ZenonT(30)
  <2> QED BY <2>1, <2>2, <2>3, ZenonT(30)
<1>26. \A m \in Media : ~y.gathered[m]
  BY <1>1, <1>17, ZenonT(30) DEF GatherInv
<1>27. y.wait /\ y.kind \in Ice /\ y.kind \notin Counting /\ y.kind \notin Mapping
  BY <1>1, <1>17, <1>18, ZenonT(30) DEF SameWho, SameNews, Ice, Counting, Mapping
<1>28. GatherInv(y)
  <2>1. /\ y.srv => ~y.dns
        /\ y.kind = "ice_host" => ~y.srv /\ ~y.dns
    BY <1>1, <1>17, <1>19, ZenonT(30) DEF GatherInv, SameWho
  <2> QED BY <1>24, <1>25, <1>26, <1>27, <2>1, ZenonT(30) DEF GatherInv
<1>29. Unchecked(y)
  BY <1>1, <1>18, ZenonT(30) DEF CheckInv, Unchecked, SameCheck, SameNews
<1>30. CheckInv(y)
  BY <1>27, <1>29 DEF Unchecked, CheckInv
<1>31. Live(y)
  BY <1>27, <1>28, <1>30, ZenonT(30) DEF Live
<1>32. y.mediac = 0 /\ y.moved \in Nat /\ y.medial \in Nat
  BY <1>17, <1>27, Sizes DEF Inv, Sound, History, SameWho, SameCount, SessionRec
<1>33. Bounded(y)
  <2>1. Cardinality(Granted(y)) \in Nat
    BY <1>17, WaitingFinite, Zenon
  <2> QED BY <1>32, <2>1 DEF Bounded
<1>34. Exempt(x) => Exempt(y)
  BY <1>17, ZenonT(30) DEF Exempt, SameWho, SameCount
<1>35. z = Allocated(y)
  BY <1>10, ZenonT(30)
<1> QED BY <1>17, <1>18, <1>19, <1>31, <1>32, <1>33, <1>34, <1>35, AllocatedInv, ZenonT(30)

\* ice_dns_handler(): a request for each socket.
LEMMA IceDnsInv ==
  ASSUME NEW x, Inv(x), x.at = "up", x.kind \in Ice, x.dns, NEW ok \in BOOLEAN,
         NEW y, y = ice_dns_handler(x, ok, FALSE)
  PROVE  Inv(y)
<1>1. x \in SessionRec /\ Sound(x) /\ GatherInv(x) /\ CheckInv(x)
  BY ZenonT(30) DEF Inv, Sound, Live
<1>2. CASE ~ok
  <2>1. y = mnat_handler(x, FALSE, FALSE)
    BY <1>2, Zenon DEF ice_dns_handler
  <2> QED BY <1>1, <2>1, FailedInv, ZenonT(30)
<1>3. CASE ok
  <2> DEFINE v == Asked(x)
             f == [c \in Comp |-> IF c \in Socks(x) THEN v ELSE x.comp[c]]
             h == [m \in Media |-> Cardinality(Of(x, m))]
             a == [x EXCEPT !.srv = TRUE]
             b == [a EXCEPT !.dns = FALSE]
             d == [b EXCEPT !.comp = f]
  <2>1. y = [x EXCEPT !.srv = TRUE, !.dns = FALSE, !.comp = f, !.nstun = h]
    BY <1>3, Zenon DEF ice_dns_handler
  <2>2. v \in {"sent", "alloc"}
    BY Zenon DEF Asked
  <2>3. \A m : Cardinality(Of(x, m)) \in 0..2
    BY OfCard, Zenon
  <2>4. f \in [Comp -> States]
    BY <1>1, <2>2, ZenonT(30) DEF SessionRec, States
  <2>5. h \in [Media -> 0..2]
    BY <2>3, Zenon
  <2>6. /\ \A c \in Comp : f[c] = IF c \in Socks(x) THEN v ELSE x.comp[c]
        /\ \A m \in Media : h[m] = Cardinality(Of(x, m))
    BY Zenon
  <2>7. y = [d EXCEPT !.nstun = h]
    BY <2>1, Zenon
  <2>8. a = [x EXCEPT !.srv = TRUE] /\ b = [a EXCEPT !.dns = FALSE] /\ d = [b EXCEPT !.comp = f]
    BY Zenon
  <2> HIDE DEF a, b, d, f, h, v
  <2>9. a \in SessionRec
    BY <1>1, <2>8, FieldTypes, ZenonT(30)
  <2>10. b \in SessionRec
    BY <2>8, <2>9, FieldTypes, ZenonT(30)
  <2>11. d \in SessionRec
    BY <2>4, <2>8, <2>10, FieldTypes, ZenonT(30)
  <2>12. y \in SessionRec
    BY <2>5, <2>7, <2>11, FieldTypes, ZenonT(30)
  <2>13. SameWho(x, y) /\ SameCount(x, y)
    BY <1>1, <2>1, ZenonT(30) DEF SessionRec, SameWho, SameCount
  <2>14. SameCheck(x, y) /\ SameNews(x, y)
    BY <1>1, <2>1, ZenonT(30) DEF SessionRec, SameCheck, SameNews
  <2>15. y.at = x.at /\ y.medial = x.medial /\ y.tmr = x.tmr /\ y.srv /\ ~y.dns
    BY <1>1, <2>1, ZenonT(30) DEF SessionRec
  <2>16. y.comp = f /\ y.nstun = h /\ y.gathered = x.gathered
    BY <1>1, <2>1, ZenonT(30) DEF SessionRec
  <2>17. Socks(y) = Socks(x) /\ \A m : Of(y, m) = Of(x, m)
    BY <2>13, <2>15, SocksSame, ZenonT(30) DEF SameWho
  <2>18. \A m \in Media : ~x.gathered[m]
    BY <1>1, Zenon DEF GatherInv
  <2>19. x.wait
    <3>1. x.medial \in Media /\ x.medial \in 1..x.medial
      BY <1>1, Sizes DEF Sound, Shape, SessionRec, Media
    <3> QED BY <1>1, <2>18, <3>1, ZenonT(30) DEF GatherInv, all_gathered
  <2>20. ASSUME NEW m \in Media
         PROVE  y.nstun[m] = Cardinality(Asking(y, m))
    <3>1. \A c \in Of(x, m) : c \in Comp /\ c \in Socks(x)
      BY Zenon DEF Of, Socks
    <3>2. Asking(y, m) = Of(x, m)
      BY <2>2, <2>6, <2>16, <2>17, <3>1, Zenon DEF Asking
    <3> QED BY <2>6, <2>16, <3>2, ZenonT(30)
  <2>21. ASSUME NEW c \in Comp
         PROVE  /\ c \notin Socks(y) => y.comp[c] = "off"
                /\ y.comp[c] \in {"off", "sent", "alloc", "done", "failed"}
                /\ y.comp[c] \in {"sent", "alloc"} => y.srv
                /\ c \in Socks(y) /\ y.srv => y.comp[c] # "off"
    <3>1. c \notin Socks(x) => x.comp[c] = "off"
      BY <1>1, Zenon DEF GatherInv
    <3> QED BY <2>2, <2>6, <2>15, <2>16, <2>17, <3>1, ZenonT(30)
  <2>22. y.kind # "ice_host" /\ y.wait
    BY <1>1, <2>13, <2>14, <2>19, ZenonT(30) DEF GatherInv, SameWho, SameNews
  <2>23. GatherInv(y)
    BY <2>15, <2>16, <2>18, <2>20, <2>21, <2>22, ZenonT(30) DEF GatherInv
  <2>24. CheckInv(y)
    BY <1>1, <2>13, <2>14, <2>15, CheckKept, ZenonT(30)
  <2> QED BY <2>12, <2>13, <2>14, <2>15, <2>23, <2>24, IceStep, ZenonT(30) DEF SameNews
<1> QED BY <1>2, <1>3, ZenonT(30)

\* tmr_async_handler(): the candidates of the interfaces.
LEMMA TmrInv ==
  ASSUME NEW x, Inv(x), x.at = "up", x.tmr, NEW cands \in SUBSET Media, NEW close \in BOOLEAN,
         NEW y, y = tmr_async_handler(x, cands, close)
  PROVE  Inv(y)
<1> DEFINE bad == (1..x.medial) \ cands
           f == [c \in Comp |-> IF c \in Socks(x) THEN "done" ELSE x.comp[c]]
           h == [m \in Media |-> m < x.medial]
           a == [x EXCEPT !.tmr = FALSE]
           b == [a EXCEPT !.comp = f]
           g == [b EXCEPT !.gathered = h]
           p == "ice_tmr_async"
           no == FALSE
           yes == TRUE
           one == 1
           e == gather_handler(a, one, no, close)
<1>1. x \in SessionRec /\ Shape(x) /\ x.kind = "ice_host" /\ x.kind \in Ice
  BY Zenon DEF Inv, Sound, Shape, Ice
<1>2. GatherInv(x) /\ CheckInv(x)
  BY <1>1, ZenonT(30) DEF Inv, Live
<1>3. ~x.srv /\ ~x.dns /\ \A m \in Media : ~x.gathered[m]
  BY <1>1, <1>2, ZenonT(30) DEF GatherInv
<1>4. x.medial \in Media /\ x.medial \in 1..x.medial /\ one \in Media /\ one <= x.medial
  BY <1>1, Sizes DEF Shape, SessionRec, Media
<1>5. x.wait
  BY <1>2, <1>3, <1>4, Zenon DEF GatherInv, all_gathered
<1>6. y = IF bad = {} THEN gather_handler(g, x.medial, yes, close)
          ELSE IF bad = {x.medial} THEN e ELSE GoesOn(e, e, p)
  BY Zenon DEF tmr_async_handler
<1>7. f \in [Comp -> States] /\ h \in [Media -> BOOLEAN]
  BY <1>1 DEF SessionRec, States
<1>8. /\ \A c \in Comp : f[c] = IF c \in Socks(x) THEN "done" ELSE x.comp[c]
      /\ \A m \in Media : h[m] => m < x.medial
  BY Zenon
<1>9. a = [x EXCEPT !.tmr = FALSE] /\ b = [a EXCEPT !.comp = f] /\ g = [b EXCEPT !.gathered = h]
  BY Zenon
<1>10. e = gather_handler(a, one, no, close) /\ no \in BOOLEAN /\ ~no /\ yes \in BOOLEAN /\ yes
  BY Zenon
<1>11. p \in Places
  BY Zenon DEF Places
<1> HIDE DEF bad, f, h, a, b, g, p, no, yes, one, e
<1>12. a \in SessionRec
  BY <1>1, <1>9, FieldTypes, ZenonT(30)
<1>13. SameWho(x, a) /\ SameCount(x, a) /\ SameCheck(x, a)
  <2>1. SameWho(x, a) /\ SameCount(x, a)
    BY <1>1, <1>9, ZenonT(30) DEF SessionRec, SameWho, SameCount
  <2>2. SameCheck(x, a)
    BY <1>1, <1>9, ZenonT(30) DEF SessionRec, SameCheck
  <2> QED BY <2>1, <2>2, ZenonT(30)
<1>14. /\ SameNews(x, a) /\ a.gathered = x.gathered /\ a.nstun = x.nstun /\ a.comp = x.comp
  BY <1>1, <1>9, ZenonT(30) DEF SessionRec, SameNews
<1>15. /\ a.at = x.at /\ a.medial = x.medial /\ a.srv = x.srv /\ a.dns = x.dns /\ ~a.tmr
  BY <1>1, <1>9, ZenonT(30) DEF SessionRec
<1>16. b \in SessionRec
  BY <1>7, <1>9, <1>12, FieldTypes, ZenonT(30)
<1>17. g \in SessionRec
  BY <1>7, <1>9, <1>16, FieldTypes, ZenonT(30)
<1>18. SameWho(a, g) /\ SameCount(a, g) /\ SameCheck(a, g) /\ SameNews(a, g)
  <2>1. SameWho(a, b) /\ SameCount(a, b) /\ SameCheck(a, b)
    BY <1>9, <1>12 DEF SessionRec, SameWho, SameCount, SameCheck
  <2>2. SameNews(a, b)
    BY <1>9, <1>12 DEF SessionRec, SameNews
  <2>3. SameWho(b, g) /\ SameCount(b, g) /\ SameCheck(b, g)
    BY <1>9, <1>16 DEF SessionRec, SameWho, SameCount, SameCheck
  <2>4. SameNews(b, g)
    BY <1>9, <1>16 DEF SessionRec, SameNews
  <2> QED BY <2>1, <2>2, <2>3, <2>4, ZenonT(30) DEF SameWho, SameCount, SameCheck, SameNews
<1>19. SameRun(a, g) /\ g.comp = f /\ g.gathered = h /\ g.nstun = a.nstun
  <2>1. SameRun(a, b) /\ b.comp = f /\ b.nstun = a.nstun
    BY <1>9, <1>12 DEF SessionRec, SameRun
  <2>2. SameRun(b, g) /\ g.comp = b.comp /\ g.nstun = b.nstun /\ g.gathered = h
    BY <1>9, <1>16 DEF SessionRec, SameRun
  <2> QED BY <2>1, <2>2, ZenonT(30) DEF SameRun
<1>20. Socks(a) = Socks(x) /\ Socks(g) = Socks(x) /\ \A m : Of(a, m) = Of(x, m) /\ Of(g, m) = Of(x, m)
  <2>1. Socks(a) = Socks(x) /\ \A m : Of(a, m) = Of(x, m)
    BY <1>13, <1>15, SocksSame, Zenon DEF SameWho
  <2>2. Socks(g) = Socks(a) /\ \A m : Of(g, m) = Of(a, m)
    BY <1>18, <1>19, SocksSame, ZenonT(30) DEF SameWho, SameRun
  <2> QED BY <2>1, <2>2, Zenon
<1>21. \A c \in Comp : x.comp[c] \notin {"sent", "alloc"}
  BY <1>2, <1>3, ZenonT(30) DEF GatherInv
<1>22. ASSUME NEW m \in Media
       PROVE  Asking(x, m) = {} /\ Asking(a, m) = {} /\ Asking(g, m) = {}
  <2>1. \A c \in Of(x, m) : c \in Comp
    BY Zenon DEF Of, Socks
  <2> QED BY <1>8, <1>14, <1>19, <1>20, <1>21, <2>1, ZenonT(30) DEF Asking
<1>23. a.wait /\ g.wait /\ a.kind = x.kind /\ g.kind = x.kind /\ g.at = "up" /\ a.at = "up"
  BY <1>5, <1>13, <1>14, <1>15, <1>18, <1>19, ZenonT(30) DEF SameWho, SameNews, SameRun
<1>24. GatherInv(a)
  <2>1. /\ a.srv => ~a.dns
        /\ a.kind = "ice_host" => ~a.srv /\ ~a.dns
    BY <1>3, <1>15, Zenon
  <2>2. \A c \in Comp :
          /\ c \notin Socks(a) => a.comp[c] = "off"
          /\ a.comp[c] \in {"off", "sent", "alloc", "done", "failed"}
          /\ a.comp[c] \in {"sent", "alloc"} => a.srv
          /\ c \in Socks(a) /\ a.srv => a.comp[c] # "off"
    BY <1>2, <1>14, <1>15, <1>20, ZenonT(30) DEF GatherInv
  <2>3. \A m \in Media : a.nstun[m] = Cardinality(Asking(a, m))
    BY <1>2, <1>14, <1>22, Zenon DEF GatherInv
  <2> QED BY <1>3, <1>14, <1>23, <2>1, <2>2, <2>3, ZenonT(30) DEF GatherInv
<1>25. GatherInv(g)
  <2>1. ~g.srv /\ ~g.dns /\ ~g.tmr /\ g.medial = x.medial
    BY <1>3, <1>15, <1>19, ZenonT(30) DEF SameRun
  <2>2. ASSUME NEW c \in Comp
        PROVE  /\ c \notin Socks(g) => g.comp[c] = "off"
               /\ g.comp[c] \in {"off", "sent", "alloc", "done", "failed"}
               /\ g.comp[c] \in {"sent", "alloc"} => g.srv
               /\ c \in Socks(g) /\ g.srv => g.comp[c] # "off"
    <3>1. CASE c \in Socks(x)
      BY <1>8, <1>19, <1>20, <2>1, <3>1, ZenonT(30)
    <3>2. CASE c \notin Socks(x)
      BY <1>2, <1>8, <1>19, <1>20, <3>2, ZenonT(30) DEF GatherInv
    <3> QED BY <3>1, <3>2, ZenonT(30)
  <2>3. \A m \in Media : g.nstun[m] = Cardinality(Asking(g, m))
    BY <1>2, <1>14, <1>19, <1>22, Zenon DEF GatherInv
  <2>4. ASSUME NEW m \in Media, g.gathered[m]
        PROVE  /\ g.at = "up" /\ m <= g.medial /\ ~g.tmr /\ ~g.dns
               /\ \A c \in Of(g, m) : g.comp[c] \in {"done", "failed"}
    <3>1. m < x.medial
      BY <1>8, <1>19, <2>4, Zenon
    <3>2. m <= g.medial
      BY <1>1, <2>1, <3>1, Sizes DEF Media, SessionRec
    <3>3. \A c \in Of(g, m) : c \in Comp /\ c \in Socks(x)
      BY <1>20, Zenon DEF Of, Socks
    <3> QED BY <1>8, <1>19, <1>23, <2>1, <3>2, <3>3, Zenon
  <2> QED BY <1>23, <2>1, <2>2, <2>3, <2>4, Zenon DEF GatherInv
<1>26. CheckInv(a)
  BY <1>2, <1>13, <1>14, <1>15, CheckKept, Zenon
<1>27. Inv(a)
  BY <1>1, <1>12, <1>13, <1>14, <1>15, <1>24, <1>26, IceStep, ZenonT(30) DEF SameNews
<1>28. CheckInv(g)
  BY <1>18, <1>19, <1>26, CheckKept, ZenonT(30) DEF SameRun
<1>29. Inv(g)
  BY <1>1, <1>17, <1>18, <1>19, <1>23, <1>25, <1>27, <1>28, IceStep, ZenonT(30) DEF SameRun, SameNews
<1>30. Inv(e)
  BY <1>1, <1>4, <1>10, <1>15, <1>23, <1>27, GatherHandlerInv, ZenonT(30)
<1>31. CASE bad = {}
  <2>1. y = gather_handler(g, x.medial, yes, close)
    BY <1>6, <1>31, ZenonT(30)
  <2>2. ~g.tmr /\ ~g.dns /\ g.medial = x.medial /\ x.medial <= g.medial
    BY <1>1, <1>3, <1>15, <1>19, Sizes DEF SameRun, SessionRec
  <2>3. \A c \in Of(g, x.medial) : g.comp[c] \in {"done", "failed"}
    <3>1. \A c \in Of(g, x.medial) : c \in Comp /\ c \in Socks(x)
      BY <1>20, Zenon DEF Of, Socks
    <3> QED BY <1>8, <1>19, <3>1, Zenon
  <2> QED BY <1>1, <1>4, <1>10, <1>23, <1>29, <2>1, <2>2, <2>3, GatherHandlerInv, ZenonT(30)
<1>32. CASE bad # {}
  <2>1. y = e \/ y = GoesOn(e, e, p)
    BY <1>6, <1>32, ZenonT(30)
  <2> QED BY <1>11, <1>30, <2>1, GoesOnInv, Zenon
<1> QED BY <1>31, <1>32, ZenonT(30)

-----------------------------------------------------------------------------
(* ICE: connectivity checks *)

\* ice_start()
LEMMA IceStartInv ==
  ASSUME NEW x, Inv(x), x.at = "up", x.kind \in Ice, ~x.wait,
         \A m \in Media : x.check[m] = "no", NEW off \in SUBSET Media, NEW fail \in Nat,
         NEW y, y = ice_start(x, off, fail)
  PROVE  Inv(y)
<1> DEFINE upto == {m \in 1..x.medial : m < fail}
           cc == [m \in Media |-> m \in upto \cap off]
           ch == [m \in Media |-> IF m \in upto \ off THEN "running" ELSE "no"]
           st == fail > x.medial
           a == [x EXCEPT !.complete = cc]
           b == [a EXCEPT !.check = ch]
<1>1. x \in SessionRec /\ GatherInv(x) /\ CheckInv(x)
  BY Zenon DEF Inv, Sound, Live
<1>2. y = [x EXCEPT !.complete = cc, !.check = ch, !.started = st]
  BY Zenon DEF ice_start
<1>3. cc \in [Media -> BOOLEAN]
  OBVIOUS
<1>4. ch \in [Media -> {"no", "running", "over"}]
  BY Zenon
<1>5. st \in BOOLEAN
  BY <1>1, Sizes DEF SessionRec
<1>6. \A m \in Media : ch[m] # "no" => m <= x.medial /\ ~cc[m]
  BY <1>1, Sizes DEF SessionRec
<1>7. a = [x EXCEPT !.complete = cc] /\ b = [a EXCEPT !.check = ch]
  BY ZenonT(30)
<1>8. y = [b EXCEPT !.started = st]
  BY <1>2, ZenonT(30)
<1> HIDE DEF upto, cc, ch, st, a, b
<1>9. a \in SessionRec
  BY <1>1, <1>3, <1>7, FieldTypes, ZenonT(30)
<1>10. b \in SessionRec
  BY <1>4, <1>7, <1>9, FieldTypes, ZenonT(30)
<1>11. y \in SessionRec
  BY <1>5, <1>8, <1>10, FieldTypes, ZenonT(30)
<1>12. SameWho(x, y) /\ SameRun(x, y) /\ SameCount(x, y)
  BY <1>1, <1>2 DEF SessionRec, SameWho, SameRun, SameCount
<1>13. SameGather(x, y) /\ SameNews(x, y) /\ y.comp = x.comp
  BY <1>1, <1>2, ZenonT(30) DEF SessionRec, SameGather, SameNews
<1>14. y.check = ch /\ y.complete = cc /\ y.send_reinvite = x.send_reinvite
  BY <1>1, <1>2, ZenonT(30) DEF SessionRec
<1>15. GatherInv(y)
  <2>1. all_gathered(y) <=> all_gathered(x)
    BY <1>12, <1>13, ZenonT(30) DEF all_gathered, SameRun, SameGather
  <2>2. ~y.wait => y.at = "up" /\ all_gathered(y)
    BY <1>1, <1>12, <1>13, <2>1, ZenonT(30) DEF GatherInv, SameRun, SameNews
  <2> QED BY <1>1, <1>12, <1>13, <2>2, GatherKept, ZenonT(30)
<1>16. ~x.send_reinvite /\ x.fresh = {} /\ x.reinv = 0
  BY <1>1, Zenon DEF CheckInv
<1>17. ~y.send_reinvite /\ y.fresh = {} /\ y.reinv = 0 /\ ~y.wait
  BY <1>13, <1>14, <1>16, ZenonT(30) DEF SameNews
<1>18. \A m \in Media : (y.check[m] # "no" => m <= y.medial) /\ (y.check[m] = "running" => ~y.complete[m])
  BY <1>6, <1>12, <1>14, ZenonT(30) DEF SameRun
<1>19. CheckInv(y)
  <2>1. ~(y.reinv > 0)
    BY <1>17
  <2> QED BY <1>17, <1>18, <2>1, ZenonT(30) DEF CheckInv
<1> QED BY <1>11, <1>12, <1>13, <1>15, <1>19, IceStep, ZenonT(30) DEF SameRun, SameNews

\* A step of the checks only.
LEMMA CheckStep ==
  ASSUME NEW x, Inv(x), x.at = "up", x.kind \in Ice, NEW y \in SessionRec, SameWho(x, y),
         SameRun(x, y), SameCount(x, y), SameGather(x, y), y.comp = x.comp, y.wait = x.wait,
         y.missing = x.missing, CheckInv(y),
         y.reinv > 0 => y.offerer /\ y.reinv = 1
  PROVE  Inv(y)
<1>1. x.kind \notin Mapping /\ x.kind \notin Counting /\ y.kind = x.kind
  BY Zenon DEF Counting, Ice, Mapping, SameWho
<1>2. GatherInv(x)
  BY Zenon DEF Inv, Live
<1>3. GatherInv(y)
  <2>1. all_gathered(y) <=> all_gathered(x)
    BY Zenon DEF all_gathered, SameRun, SameGather
  <2>2. ~y.wait => y.at = "up" /\ all_gathered(y)
    BY <1>2, <2>1, ZenonT(30) DEF GatherInv, SameRun
  <2> QED BY <1>2, <2>2, GatherKept, ZenonT(30)
<1>4. Cardinality(Granted(y)) \in Nat
  BY WaitingFinite, ZenonT(30)
<1>5. y.mediac = 0 /\ y.moved \in Nat /\ y.medial \in Nat
  BY <1>1, Sizes DEF Inv, Sound, History, SameCount, SessionRec
<1>6. Exempt(y) <=> Exempt(x)
  BY ZenonT(30) DEF Exempt, SameWho, SameCount
<1>7. y.mediac <= y.medial /\ y.mediac + Cardinality(Granted(y)) + y.moved >= 0
  BY <1>4, <1>5
<1>8. History(y)
  BY <1>1, <1>5, <1>6, <1>7, Zenon DEF Inv, Sound, History
<1>9. Shape(y)
  BY Zenon DEF Inv, Sound, Shape, SameWho, SameRun
<1> QED BY <1>1, <1>3, <1>8, <1>9, ZenonT(30) DEF Inv, Sound, Live

\* conncheck_handler(): the re-INVITE is asked for once, after the last medium.
LEMMA ConncheckInv ==
  ASSUME NEW x, Inv(x), x.at = "up", NEW m \in Media, x.check[m] = "running",
         NEW ok \in BOOLEAN, NEW changed \in BOOLEAN, NEW close \in BOOLEAN,
         NEW y, y = conncheck_handler(x, m, ok, changed, close)
  PROVE  Inv(y)
<1> DEFINE fin == x.complete[m] \/ ok
           cc == [x.complete EXCEPT ![m] = fin]
           ch == [x.check EXCEPT ![m] = "over"]
           sr == x.send_reinvite \/ (ok /\ changed)
           fr == IF ok /\ changed THEN x.fresh \cup {m} ELSE x.fresh
           a1 == [x EXCEPT !.check = ch]
           a2 == [a1 EXCEPT !.complete = cc]
           a3 == [a2 EXCEPT !.send_reinvite = sr]
           a == [x EXCEPT !.check = ch, !.complete = cc, !.send_reinvite = sr, !.fresh = fr]
           k == [a EXCEPT !.send_reinvite = FALSE]
<1>1. x \in SessionRec /\ Live(x)
  BY Zenon DEF Inv, Sound
<1>2. x.kind \in Ice /\ GatherInv(x) /\ CheckInv(x) /\ ~x.wait
  BY <1>1, Zenon DEF Live, Unchecked, CheckInv
<1>3. m <= x.medial /\ m \in 1..x.medial /\ ~x.complete[m]
  BY <1>1, <1>2, Sizes DEF CheckInv, SessionRec, Media
<1>4. x.reinv = 0
  <2>1. ~all_completed(x)
    BY <1>3, ZenonT(30) DEF all_completed
  <2> QED BY <1>1, <1>2, <2>1 DEF CheckInv, SessionRec
<1>5. y = IF ok /\ all_completed(a) /\ a.send_reinvite /\ x.offerer
          THEN mnat_handler(k, TRUE, close) ELSE a
  BY DEF conncheck_handler
<1>6. cc \in [Media -> BOOLEAN] /\ ch \in [Media -> {"no", "running", "over"}]
  BY <1>1, Zenon DEF SessionRec
<1>7. sr \in BOOLEAN /\ fr \in SUBSET Media
  BY <1>1, ZenonT(30) DEF SessionRec
<1>8. /\ ch[m] = "over" /\ \A n \in Media : n # m => ch[n] = x.check[n]
      /\ \A n \in Media : n # m => cc[n] = x.complete[n]
      /\ ~ok => cc = x.complete
  <2>1. x.complete \in [Media -> BOOLEAN] /\ x.check \in [Media -> {"no", "running", "over"}]
    BY <1>1, ZenonT(30) DEF SessionRec
  <2>2. ASSUME ~ok
        PROVE  cc = x.complete
    <3>1. fin = x.complete[m]
      BY <1>3, <2>1, <2>2, ZenonT(30)
    <3> HIDE DEF fin
    <3> QED BY <2>1, <3>1, ZenonT(30)
  <2> QED BY <2>1, <2>2, Zenon
<1>9. /\ ok /\ changed => sr
      /\ ~(ok /\ changed) => fr = x.fresh /\ sr = x.send_reinvite
  BY <1>1, Zenon DEF SessionRec
<1>10. a1 = [x EXCEPT !.check = ch] /\ a2 = [a1 EXCEPT !.complete = cc]
       /\ a3 = [a2 EXCEPT !.send_reinvite = sr] /\ k = [a EXCEPT !.send_reinvite = FALSE]
  BY Zenon
<1>11. a = [x EXCEPT !.check = ch, !.complete = cc, !.send_reinvite = sr, !.fresh = fr]
       /\ a = [a3 EXCEPT !.fresh = fr]
  BY Zenon
<1> HIDE DEF fin, cc, ch, sr, fr, a1, a2, a3, a, k
<1>12. a1 \in SessionRec
  BY <1>1, <1>6, <1>10, FieldTypes, ZenonT(30)
<1>13. a2 \in SessionRec
  BY <1>6, <1>10, <1>12, FieldTypes, ZenonT(30)
<1>14. a3 \in SessionRec
  BY <1>7, <1>10, <1>13, FieldTypes, ZenonT(30)
<1>15. a \in SessionRec
  <2>1. \A v \in SUBSET Media : [a3 EXCEPT !.fresh = v] \in SessionRec
    BY <1>14, FieldTypes, ZenonT(30)
  <2> QED BY <1>7, <1>11, <2>1, Zenon
<1>16. SameWho(x, a) /\ SameRun(x, a) /\ SameCount(x, a)
  BY <1>1, <1>11 DEF SessionRec, SameWho, SameRun, SameCount
<1>17. SameGather(x, a) /\ a.comp = x.comp /\ a.wait = x.wait /\ a.missing = x.missing
       /\ a.reinv = x.reinv
  BY <1>1, <1>11 DEF SessionRec, SameGather
<1>18. a.check = ch /\ a.complete = cc /\ a.send_reinvite = sr /\ a.fresh = fr
  BY <1>1, <1>11, ZenonT(30) DEF SessionRec
<1>19. \A n \in Media : (a.check[n] # "no" => n <= a.medial) /\ (a.check[n] = "running" => ~a.complete[n])
  <2>1. a.medial = x.medial
    BY <1>16, Zenon DEF SameRun
  <2>2. ASSUME NEW n \in Media
        PROVE  (a.check[n] # "no" => n <= a.medial) /\ (a.check[n] = "running" => ~a.complete[n])
    <3>1. CASE n = m
      BY <1>3, <1>8, <1>18, <2>1, <3>1, ZenonT(30)
    <3>2. CASE n # m
      BY <1>2, <1>8, <1>18, <2>1, <3>2, ZenonT(30) DEF CheckInv
    <3> QED BY <3>1, <3>2, ZenonT(30)
  <2> QED BY <2>2, Zenon
<1>20. ~(\A n \in Media : a.check[n] = "no") /\ ~a.wait
  BY <1>2, <1>8, <1>17, <1>18, ZenonT(30)
<1>21. CASE ok /\ all_completed(a) /\ a.send_reinvite /\ x.offerer
  <2> DEFINE j == [k EXCEPT !.reinv = 1]
             r == [j EXCEPT !.fresh = {}]
  <2>1. k \in SessionRec
    BY <1>10, <1>15, FieldTypes, ZenonT(30)
  <2>2. SameWho(a, k) /\ SameRun(a, k) /\ SameCount(a, k)
    BY <1>10, <1>15, ZenonT(30) DEF SessionRec, SameWho, SameRun, SameCount
  <2>3. SameGather(a, k) /\ k.comp = a.comp /\ k.wait = a.wait /\ k.missing = a.missing
        /\ k.reinv = a.reinv
    BY <1>10, <1>15, ZenonT(30) DEF SessionRec, SameGather
  <2>4. k.check = a.check /\ k.complete = a.complete /\ ~k.send_reinvite
    BY <1>10, <1>15, ZenonT(30) DEF SessionRec
  <2>5. ~k.wait /\ k.reinv = 0
    BY <1>4, <1>17, <1>20, <2>3, ZenonT(30)
  <2>6. y = mnat_handler(k, TRUE, close)
    BY <1>5, <1>21, ZenonT(30)
  <2>7. y = r \/ y = Released(r)
    BY <2>5, <2>6 DEF mnat_handler
  <2>8. j \in SessionRec
    <3>0. 1 \in 0..2
      OBVIOUS
    <3>1. \A v \in 0..2 : [k EXCEPT !.reinv = v] \in SessionRec
      BY <2>1, FieldTypes, ZenonT(30)
    <3> QED BY <3>0, <3>1, ZenonT(30)
  <2>9. j = [k EXCEPT !.reinv = 1] /\ r = [j EXCEPT !.fresh = {}]
    BY Zenon
  <2> HIDE DEF j, r
  <2>10. r \in SessionRec
    BY <2>8, <2>9, FieldTypes, ZenonT(30)
  <2>11. SameWho(k, r) /\ SameRun(k, r) /\ SameCount(k, r)
    BY <2>1, <2>9, ZenonT(30) DEF SessionRec, SameWho, SameRun, SameCount
  <2>12. SameGather(k, r) /\ r.comp = k.comp /\ r.wait = k.wait /\ r.missing = k.missing
    BY <2>1, <2>9, ZenonT(30) DEF SessionRec, SameGather
  <2>13. SameCheck(k, r) /\ r.reinv = 1 /\ r.fresh = {}
    BY <2>1, <2>9, ZenonT(30) DEF SessionRec, SameCheck
  <2>14. SameWho(x, r) /\ SameRun(x, r) /\ SameCount(x, r)
    BY <1>16, <2>2, <2>11, ZenonT(30) DEF SameWho, SameRun, SameCount
  <2>15. SameGather(x, r) /\ r.comp = x.comp /\ r.wait = x.wait /\ r.missing = x.missing
    BY <1>17, <2>3, <2>12, ZenonT(30) DEF SameGather
  <2>16. r.check = a.check /\ r.complete = a.complete /\ ~r.send_reinvite
    BY <2>4, <2>13, ZenonT(30) DEF SameCheck
  <2>17. r.medial = a.medial /\ r.offerer /\ ~r.wait
    BY <1>2, <1>16, <1>21, <2>14, <2>15, ZenonT(30) DEF SameWho, SameRun
  <2>18. all_completed(r)
    BY <1>21, <2>16, <2>17, ZenonT(30) DEF all_completed
  <2>19. CheckInv(r)
    BY <1>19, <1>20, <2>13, <2>16, <2>17, <2>18, ZenonT(30) DEF CheckInv
  <2>20. Inv(r)
    BY <1>2, <2>10, <2>13, <2>14, <2>15, <2>17, <2>19, CheckStep, ZenonT(30)
  <2> QED BY <2>7, <2>20, ReleasedInv, ZenonT(30) DEF Inv
<1>22. CASE ~(ok /\ all_completed(a) /\ a.send_reinvite /\ x.offerer)
  <2>1. y = a
    BY <1>5, <1>22, ZenonT(30)
  <2>2. a.offerer = x.offerer /\ a.medial = x.medial
    BY <1>16, Zenon DEF SameWho, SameRun
  <2>3. a.offerer /\ a.fresh # {} => a.send_reinvite
    BY <1>2, <1>9, <1>18, <2>2, ZenonT(30) DEF CheckInv
  <2>4. a.offerer /\ a.send_reinvite => ~all_completed(a)
    <3>1. CASE ok
      BY <1>22, <2>2, <3>1, ZenonT(30)
    <3>2. CASE ~ok
      <4>1. a.complete = x.complete /\ a.send_reinvite = x.send_reinvite
        BY <1>8, <1>9, <1>18, <3>2, ZenonT(30)
      <4>2. all_completed(a) <=> all_completed(x)
        BY <2>2, <4>1, Zenon DEF all_completed
      <4> QED BY <1>2, <2>2, <4>1, <4>2, ZenonT(30) DEF CheckInv
    <3> QED BY <3>1, <3>2, ZenonT(30)
  <2>5. a.reinv = 0
    BY <1>4, <1>17, ZenonT(30)
  <2>6. ~(a.reinv > 0)
    BY <2>5
  <2>7. CheckInv(a)
    BY <1>19, <1>20, <2>3, <2>4, <2>6, ZenonT(30) DEF CheckInv
  <2>8. Inv(a)
    BY <1>2, <1>15, <1>16, <1>17, <2>6, <2>7, CheckStep, ZenonT(30)
  <2> QED BY <2>1, <2>8, ZenonT(30)
<1> QED BY <1>21, <1>22, ZenonT(30)

-----------------------------------------------------------------------------
(* The session *)

\* A session starts with nothing asked and nothing reported.
LEMMA InitInv ==
  ASSUME Init
  PROVE  InvS
<1>1. PICK kind \in Kinds, n \in Media, rtcp \in BOOLEAN, offerer \in BOOLEAN, known \in BOOLEAN :
        LET none == kind \in {"natpmp", "pcp", "ice_host"}
        IN  s = [NoSession(kind, n, rtcp, offerer)
                   EXCEPT !.srv = known /\ ~none, !.dns = ~known /\ ~none,
                          !.tmr = kind = "ice_host"]
  BY Zenon DEF Init
<1> DEFINE x == NoSession(kind, n, rtcp, offerer)
           none == kind \in {"natpmp", "pcp", "ice_host"}
           srv == known /\ ~none
           dns == ~known /\ ~none
           tmr == kind = "ice_host"
           a == [x EXCEPT !.srv = srv]
           b == [a EXCEPT !.dns = dns]
<1>2. s = [x EXCEPT !.srv = srv, !.dns = dns, !.tmr = tmr]
  BY <1>1, Zenon
<1>3. srv \in BOOLEAN /\ dns \in BOOLEAN /\ tmr \in BOOLEAN
  BY Zenon
<1>4. /\ srv => ~dns /\ kind # "ice_host"
      /\ dns => kind \notin {"natpmp", "pcp", "ice_host"}
      /\ tmr => kind = "ice_host"
  BY Zenon
<1>5. x \in SessionRec
  <2>1. /\ 0 \in 0..NMedia /\ 0 \in Int /\ 0 \in 0..2 /\ 0 \in 0..MaxMoved
        /\ "off" \in States /\ "none" \in Places
    BY Sizes DEF States, Places
  <2> QED BY <2>1, ZenonT(30) DEF NoSession, SessionRec
<1>6. /\ x.kind = kind /\ x.n = n /\ x.at = "alloc" /\ x.medial = 0 /\ x.wait
      /\ x.mediac = 0 /\ x.moved = 0
  BY Zenon DEF NoSession
<1>7. x.missing = {} /\ x.reinv = 0 /\ x.fresh = {} /\ ~x.started /\ ~x.send_reinvite
  BY Zenon DEF NoSession
<1>8. /\ \A c \in Comp : x.comp[c] = "off" /\ ~x.addr[c]
      /\ \A m \in Media : x.nstun[m] = 0 /\ ~x.gathered[m] /\ x.check[m] = "no" /\ ~x.complete[m]
  BY Zenon DEF NoSession
<1>9. a = [x EXCEPT !.srv = srv] /\ b = [a EXCEPT !.dns = dns]
  BY Zenon
<1>10. s = [b EXCEPT !.tmr = tmr]
  BY <1>2, Zenon
<1> HIDE DEF x, srv, dns, tmr, a, b, none
<1>11. a \in SessionRec
  BY <1>3, <1>5, <1>9, FieldTypes, ZenonT(30)
<1>12. b \in SessionRec
  BY <1>3, <1>9, <1>11, FieldTypes, ZenonT(30)
<1>13. s \in SessionRec
  BY <1>3, <1>10, <1>12, FieldTypes, ZenonT(30)
<1>14. /\ s.kind = kind /\ s.n = n /\ s.at = "alloc" /\ s.medial = 0 /\ s.wait
       /\ s.mediac = 0 /\ s.moved = 0
  BY <1>2, <1>5, <1>6, ZenonT(30) DEF SessionRec
<1>15. s.missing = {} /\ s.reinv = 0 /\ s.fresh = {} /\ ~s.started /\ ~s.send_reinvite
  BY <1>2, <1>5, <1>7 DEF SessionRec
<1>16. /\ s.comp = x.comp /\ s.addr = x.addr /\ s.nstun = x.nstun /\ s.gathered = x.gathered
       /\ s.check = x.check /\ s.complete = x.complete
  BY <1>2, <1>5, Zenon DEF SessionRec
<1>17. s.srv = srv /\ s.dns = dns /\ s.tmr = tmr
  BY <1>2, <1>5, Zenon DEF SessionRec
<1>18. /\ \A c \in Comp : s.comp[c] = "off" /\ ~s.addr[c]
       /\ \A m \in Media : s.nstun[m] = 0 /\ ~s.gathered[m] /\ s.check[m] = "no" /\ ~s.complete[m]
  BY <1>8, <1>16, ZenonT(30)
<1>19. Socks(s) = {} /\ \A m : Of(s, m) = {}
  <2>1. \A c \in Comp : ~(c[1] <= s.medial)
    BY <1>14, CompParts DEF Media
  <2> QED BY <2>1, ZenonT(30) DEF Socks, Of
<1>20. Waiting(s) = {} /\ \A m : Asking(s, m) = {}
  BY <1>19, Zenon DEF Waiting, Asking
<1>21. Cardinality({}) = 0
  BY FS_EmptySet, Zenon
<1>22. Shape(s)
  <2>1. s.medial <= s.n /\ s.medial < s.n
    BY <1>14 DEF Media
  <2> QED BY <1>4, <1>14, <1>17, <2>1, Zenon DEF Shape
<1>23. History(s)
  <2>1. Cardinality(Granted(s)) \in Nat
    BY <1>13, WaitingFinite, Zenon
  <2>2. s.mediac <= s.medial /\ s.mediac + Cardinality(Granted(s)) + s.moved >= 0
    BY <1>14, <2>1
  <2> QED BY <1>14, <1>15, <2>2 DEF History
<1>24. Unchecked(s)
  BY <1>15, <1>18, ZenonT(30) DEF Unchecked
<1>25. CheckInv(s)
  BY <1>14, <1>24 DEF Unchecked, CheckInv
<1>26. CountInv(s)
  BY <1>4, <1>14, <1>17, <1>18, <1>19, <1>20, <1>21, Zenon DEF CountInv, SocketInv
<1>27. s.kind \in Mapping => MapInv(s)
  BY <1>4, <1>14, <1>17, Zenon DEF Mapping, MapInv
<1>28. GatherInv(s)
  BY <1>4, <1>14, <1>17, <1>18, <1>19, <1>20, <1>21, ZenonT(30) DEF GatherInv
<1> QED BY <1>13, <1>22, <1>23, <1>24, <1>25, <1>26, <1>27, <1>28, ZenonT(30) DEF InvS, Inv, Sound, Live

\* Each action keeps the invariant.
LEMMA AllocStep ==
  ASSUME InvS, AllocMedia
  PROVE  InvS'
<1>1. Inv(s) /\ Sound(s) /\ s.at = "alloc"
  BY Zenon DEF InvS, Inv, AllocMedia
<1>2. CASE s' = Released(s)
  BY <1>1, <1>2, ReleasedInv, Zenon DEF InvS
<1>3. CASE s.kind \in {"stun", "turn", "turn_tcp"} /\ s' = Allocated(media_alloc(s))
  BY <1>1, <1>3, MediaAllocInv, ZenonT(30) DEF InvS, Counting
<1>4. CASE s.kind = "pcp" /\ s' = Allocated(pcp_media_alloc(s))
  BY <1>1, <1>4, PcpAllocInv, ZenonT(30) DEF InvS, Mapping
<1>5. CASE s.kind \in Ice /\ s' = Allocated(ice_media_alloc(s))
  BY <1>1, <1>5, IceAllocInv, ZenonT(30) DEF InvS
<1>6. CASE s.kind = "natpmp" /\ \E o \in {"sent", "fails"} : s' = Allocated(natpmp_media_alloc(s, o, FALSE))
  BY <1>1, <1>6, NatpmpAllocInv, ZenonT(30) DEF InvS, Mapping
<1> QED BY <1>2, <1>3, <1>4, <1>5, <1>6, ZenonT(30) DEF AllocMedia, Becomes

LEMMA ResolvedStep ==
  ASSUME InvS, Resolved
  PROVE  InvS'
<1>1. PICK ok \in BOOLEAN : s' = IF s.kind \in Ice THEN ice_dns_handler(s, ok, FALSE)
                                 ELSE dns_handler(s, ok, FALSE)
  BY ZenonT(30) DEF Resolved, Becomes
<1>2. Inv(s) /\ s.at = "up" /\ s.dns
  BY Zenon DEF InvS, Resolved
<1>3. CASE s.kind \in Ice
  BY <1>1, <1>2, <1>3, IceDnsInv, ZenonT(30) DEF InvS
<1>4. CASE s.kind \notin Ice
  <2>1. s.kind \in Kinds
    BY <1>2, ZenonT(30) DEF Inv, Sound, SessionRec
  <2>2. s.kind \notin Mapping
    BY <1>2, ZenonT(30) DEF Inv, Live, MapInv
  <2>3. s.kind \in Counting
    BY <1>4, <2>1, <2>2, ZenonT(30) DEF Kinds, Ice, Mapping, Counting
  <2> QED BY <1>1, <1>2, <1>4, <2>3, DnsInv, ZenonT(30) DEF InvS
<1> QED BY <1>3, <1>4, ZenonT(30)

LEMMA AnswerStep ==
  ASSUME InvS, NEW c \in Comp, Answer(c)
  PROVE  InvS'
<1>1. Inv(s) /\ s.comp[c] = "sent"
  BY Zenon DEF InvS, Answer
<1>2. PICK ok \in BOOLEAN, close \in BOOLEAN :
           \/ StunAnswer(c, ok, close) \/ TurnAnswer(c, ok, close)
           \/ TurnTcpAnswer(c, ok, close) \/ NatpmpAnswer(c, ok, close)
           \/ PcpAnswer(c, ok, close) \/ IceAnswer(c, ok, close)
  BY Zenon DEF Answer
<1>3. CASE StunAnswer(c, ok, close)
  BY <1>1, <1>3, MappedHandlerInv, ZenonT(30) DEF InvS, StunAnswer, Is, Becomes
<1>4. CASE TurnAnswer(c, ok, close)
  BY <1>1, <1>4, TurnHandlerInv, ZenonT(30) DEF InvS, TurnAnswer, Is, Becomes, Counting
<1>5. CASE TurnTcpAnswer(c, ok, close)
  <2> DEFINE o == Outcome(ok)
  <2>1. s.at = "up" /\ s.kind = "turn_tcp" /\ s.kind \in Counting
    BY <1>5, Zenon DEF TurnTcpAnswer, Is, Counting
  <2>2. o \in {"ok", "err", "bad"}
    BY Zenon DEF Outcome
  <2>3. s' = tcp_recv_handler(s, c, o, close) \/ (~ok /\ s' = turn_handler(s, c, FALSE, close))
    BY <1>5, ZenonT(30) DEF TurnTcpAnswer, Becomes
  <2> HIDE DEF o
  <2>4. CASE s' = tcp_recv_handler(s, c, o, close)
    BY <1>1, <2>1, <2>2, <2>4, TcpRecvInv, ZenonT(30) DEF InvS
  <2>5. CASE ~ok /\ s' = turn_handler(s, c, FALSE, close)
    <3>1. s' = turn_handler(s, c, ok, close)
      BY <2>5, ZenonT(30)
    <3> QED BY <1>1, <2>1, <3>1, TurnHandlerInv, ZenonT(30) DEF InvS
  <2> QED BY <2>3, <2>4, <2>5, ZenonT(30)
<1>6. CASE NatpmpAnswer(c, ok, close)
  <2> DEFINE o == Outcome(ok)
  <2>1. s.at = "up" /\ s.at # "gone" /\ s.kind \in Mapping /\ s' = natpmp_resp_handler(s, c, o, close)
    BY <1>6, Zenon DEF NatpmpAnswer, Is, Becomes, Mapping
  <2>2. o \in {"err", "stray", "ok"}
    BY Zenon DEF Outcome
  <2> HIDE DEF o
  <2> QED BY <1>1, <2>1, <2>2, NatpmpRespInv, ZenonT(30) DEF InvS
<1>7. CASE PcpAnswer(c, ok, close)
  BY <1>1, <1>7, PcpRespInv, ZenonT(30) DEF InvS, PcpAnswer, Is, Becomes, Mapping
<1>8. CASE IceAnswer(c, ok, close)
  BY <1>1, <1>8, StunRespInv, ZenonT(30) DEF InvS, IceAnswer, Is, Becomes, Ice
<1> QED BY <1>2, <1>3, <1>4, <1>5, <1>6, <1>7, <1>8, ZenonT(30)

LEMMA TurnFailsStep ==
  ASSUME InvS, NEW c \in Comp, TurnFails(c)
  PROVE  InvS'
<1> DEFINE no == FALSE
           o == "bad"
<1>1. Inv(s) /\ Sound(s)
  BY Zenon DEF InvS, Inv
<1>2. s.at = "up" /\ s.kind \in Counting
  BY ZenonT(30) DEF TurnFails, Is, Counting
<1>3. no \in BOOLEAN /\ ~no /\ o \in {"ok", "err", "bad"} /\ o # "ok"
  BY Zenon
<1>4. \/ s' = turn_handler(s, c, no, no)
      \/ s' = tcp_close_handler(s, FALSE)
      \/ s.kind = "turn_tcp" /\ s' = tcp_recv_handler(s, c, o, no)
  BY ZenonT(30) DEF TurnFails, Becomes, Is
<1> HIDE DEF no, o
<1>5. CASE s' = turn_handler(s, c, no, no)
  BY <1>1, <1>2, <1>3, <1>5, TurnHandlerInv, ZenonT(30) DEF InvS
<1>6. CASE s' = tcp_close_handler(s, FALSE)
  BY <1>1, <1>6, FailedInv, ZenonT(30) DEF InvS, tcp_close_handler
<1>7. CASE s.kind = "turn_tcp" /\ s' = tcp_recv_handler(s, c, o, no)
  BY <1>1, <1>2, <1>3, <1>7, TcpRecvInv, ZenonT(30) DEF InvS
<1> QED BY <1>4, <1>5, <1>6, <1>7, ZenonT(30)

LEMMA OtherStep ==
  ASSUME InvS, NEW c \in Comp,
         \/ IceAllocated(c) \/ TcpConnected(c) \/ StunChanged(c)
         \/ NatpmpStray(c) \/ NatpmpRefresh(c) \/ PcpAgain(c)
  PROVE  InvS'
<1> DEFINE no == FALSE
           o == "stray"
<1>1. Inv(s)
  BY Zenon DEF InvS
<1>2. no \in BOOLEAN /\ no = FALSE /\ o \in {"err", "stray", "ok"} /\ o = "stray"
  BY Zenon
<1> HIDE DEF no, o
<1>3. CASE IceAllocated(c)
  BY <1>1, <1>3, TurncInv DEF InvS, IceAllocated, Is, Becomes, Ice
<1>4. CASE TcpConnected(c)
  BY <1>1, <1>4, TcpEstabInv, ZenonT(30) DEF InvS, TcpConnected, Is, Becomes
<1>5. CASE StunChanged(c)
  BY <1>1, <1>5, MappedHandlerInv, ZenonT(30) DEF InvS, StunChanged, Is, Becomes
<1>6. CASE NatpmpStray(c)
  <2>1. s.at = "up" /\ s.kind \in Mapping /\ s' = natpmp_resp_handler(s, c, o, no)
    BY <1>2, <1>6, ZenonT(30) DEF NatpmpStray, Is, Becomes, Mapping
  <2> QED BY <1>1, <1>2, <2>1, NatpmpRespInv, ZenonT(30) DEF InvS
<1>7. CASE NatpmpRefresh(c)
  <2>1. s.at = "up" /\ s.kind \in Mapping
    BY <1>7, Zenon DEF NatpmpRefresh, Is, Mapping
  <2>2. PICK v \in {"sent", "error", "fails"} : s' = refresh_timeout(s, c, v, no)
    BY <1>2, <1>7, ZenonT(30) DEF NatpmpRefresh, Becomes
  <2> QED BY <1>1, <1>2, <2>1, <2>2, RefreshInv, ZenonT(30) DEF InvS
<1>8. CASE PcpAgain(c)
  <2>1. s.at = "up" /\ s.kind \in Mapping
    BY <1>8, Zenon DEF PcpAgain, Is, Mapping
  <2>2. PICK ok \in BOOLEAN, e \in {0, 1} : s' = pcp_resp_handler(s, c, Outcome(ok), e, no)
    BY <1>2, <1>8, ZenonT(30) DEF PcpAgain, Becomes
  <2> QED BY <1>1, <1>2, <2>1, <2>2, PcpRespInv, ZenonT(30) DEF InvS
<1> QED BY <1>3, <1>4, <1>5, <1>6, <1>7, <1>8, ZenonT(30)

LEMMA NextInv ==
  ASSUME InvS, [Next]_vars
  PROVE  InvS'
<1>1. Inv(s) /\ Sound(s)
  BY Zenon DEF InvS, Inv
<1>2. CASE AllocMedia
  BY <1>2, AllocStep, ZenonT(30)
<1>3. CASE Resolved
  BY <1>3, ResolvedStep, ZenonT(30)
<1>4. CASE IceTimer
  BY <1>1, <1>4, TmrInv, ZenonT(30) DEF InvS, IceTimer, Becomes
<1>5. CASE PcpAnnounce
  BY <1>1, <1>5, RefreshSessionInv, ZenonT(30) DEF InvS, PcpAnnounce, Is, Becomes, Mapping
<1>6. CASE IceStart
  <2>1. s.at = "up" /\ s.kind \in Ice /\ ~s.wait /\ \A m \in Media : s.check[m] = "no"
    BY <1>6, Zenon DEF IceStart
  <2>2. PICK off \in SUBSET Media, fail \in 1..s.medial + 1 : s' = ice_start(s, off, fail)
    BY <1>6, Zenon DEF IceStart, Becomes
  <2>3. fail \in Nat
    BY <1>1, <2>2, Sizes DEF Sound, SessionRec
  <2> QED BY <1>1, <2>1, <2>2, <2>3, IceStartInv, ZenonT(30) DEF InvS
<1>7. CASE Hangup
  BY <1>1, <1>7, ReleasedInv, Zenon DEF InvS, Hangup, Becomes
<1>8. CASE Over \/ UNCHANGED vars
  <2>1. s' = s
    BY <1>8, Zenon DEF Over, vars
  <2> QED BY <1>1, <2>1, Zenon DEF InvS
<1>9. CASE \E c \in Comp : Answer(c)
  BY <1>9, AnswerStep, Zenon
<1>10. CASE \E c \in Comp : TurnFails(c)
  BY <1>10, TurnFailsStep, Zenon
<1>11. CASE \E c \in Comp : \/ IceAllocated(c) \/ TcpConnected(c) \/ StunChanged(c)
                            \/ NatpmpStray(c) \/ NatpmpRefresh(c) \/ PcpAgain(c)
  BY <1>11, OtherStep, ZenonT(30)
<1>12. CASE \E m \in Media : IceChecked(m)
  BY <1>1, <1>12, ConncheckInv, ZenonT(30) DEF InvS, IceChecked, Becomes
<1> QED BY <1>2, <1>3, <1>4, <1>5, <1>6, <1>7, <1>8, <1>9, <1>10, <1>11, <1>12, ZenonT(30) DEF Next

LEMMA AlwaysInv == Spec => []InvS
<1>1. Init => InvS
  BY InitInv, Zenon
<1>2. InvS /\ [Next]_vars => InvS'
  BY NextInv, Zenon
<1> QED BY <1>1, <1>2, PTL DEF Spec

-----------------------------------------------------------------------------
(* Results *)

LEMMA TypeFollows ==
  ASSUME InvS
  PROVE  TypeOK
<1>1. s \in SessionRec /\ Shape(s) /\ History(s)
  BY Zenon DEF InvS, Inv, Sound
<1>2. s.kind \in Kinds /\ s.at \in {"alloc", "up", "gone"}
  BY <1>1, ZenonT(30) DEF SessionRec
<1>3. s.medial \in 0..s.n
  BY <1>1, Sizes DEF SessionRec, Shape, Media
<1>4. s.comp \in [Comp -> {"off", "tcp", "alloc", "sent", "done", "failed", "lost"}]
  BY <1>1, Zenon DEF SessionRec, States
<1>5. s.mediac \in -(2 * NMedia + MaxMoved)..NMedia
  <2>1. Cardinality(Granted(s)) \in Nat /\ Cardinality(Granted(s)) <= 2 * NMedia
    BY <1>1, WaitingFinite, Zenon
  <2>2. s.mediac \in Int /\ s.medial \in 0..NMedia /\ s.moved \in 0..MaxMoved
    BY <1>1, Zenon DEF SessionRec
  <2>3. s.mediac <= s.medial /\ s.mediac + Cardinality(Granted(s)) + s.moved >= 0
    BY <1>1, ZenonT(30) DEF History
  <2> QED BY <2>1, <2>2, <2>3, Sizes
<1>6. \A m \in Media : s.nstun[m] \in 0..2
  BY <1>1, Zenon DEF SessionRec
<1>7. s.at = "gone" => s.comp = [c \in Comp |-> "off"]
  BY <1>1, Zenon DEF Shape
<1> QED BY <1>2, <1>3, <1>4, <1>5, <1>6, <1>7, ZenonT(30) DEF TypeOK

\* The call hears of success (estabh, mnat_handler()) once, apart from the one
\* re-INVITE of ICE, and not before every component of every stream has its
\* answer; save in the two cases that EstabComplete names: an address of "stun"
\* that changes before, and the second connection of "turn" over TCP.
THEOREM EstabOnceComplete == Spec => []EstabHandler
<1>1. ASSUME InvS
      PROVE  EstabHandler
  <2>1. TypeOK
    BY <1>1, TypeFollows, ZenonT(30)
  <2>2. EstabComplete
    BY <1>1, ZenonT(30) DEF InvS, Inv, Sound, History, Exempt, EstabComplete
  <2>3. EstabOnce
    BY <1>1, ZenonT(30) DEF InvS, Inv, Sound, History, EstabOnce
  <2> QED BY <2>1, <2>2, <2>3, ZenonT(30) DEF EstabHandler
<1> QED BY <1>1, AlwaysInv, PTL

\* When the last medium of ICE has been checked (conncheck_handler()), the offerer
\* has told the peer every new default address: send_reinvite is not forgotten.
THEOREM NewAddressTold == Spec => []ReinviteSent
<1>1. ASSUME InvS
      PROVE  ReinviteSent
  <2>1. SUFFICES ASSUME s.at = "up", s.offerer, all_completed(s)
                 PROVE  s.fresh = {}
    BY Zenon DEF ReinviteSent
  <2>2. Live(s)
    BY <1>1, <2>1, Zenon DEF InvS, Inv
  <2>3. CASE s.kind \in Ice
    BY <2>1, <2>2, <2>3, ZenonT(30) DEF Live, CheckInv
  <2>4. CASE s.kind \notin Ice
    BY <2>2, <2>4, ZenonT(30) DEF Live, Unchecked
  <2> QED BY <2>3, <2>4, ZenonT(30)
<1> QED BY <1>1, AlwaysInv, PTL

\* A handler that has reported to the call, which may have released the session,
\* goes on with it in three places only: natpmp_mapping_request(), the loop of
\* tcp_recv_handler() and the one of tmr_async_handler().
THEOREM UseAfterReport == Spec => []NoUseAfterReport
<1>1. ASSUME InvS
      PROVE  NoUseAfterReport
  BY <1>1, Zenon DEF InvS, Inv, Sound, SessionRec, Places, NoUseAfterReport
<1> QED BY <1>1, AlwaysInv, PTL
=============================================================================
