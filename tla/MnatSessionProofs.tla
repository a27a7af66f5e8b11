-------------------------- MODULE MnatSessionProofs --------------------------
(***************************************************************************)
(* Proofs about the media-NAT session of a call, first part: the inductive *)
(* invariant, the operators that the modules share, the handlers of those  *)
(* that count or look at their mappings, and the requests of ICE.          *)
(*                                                                         *)
(* A module that counts (mediac) is right since the counter is the number  *)
(* of media that wait for an address (CountInv); one that looks at its     *)
(* mappings, since it reports once (MapInv); ICE, since the counter of     *)
(* requests of a medium is their number, and a medium is gathered only     *)
(* when it is zero (GatherInv).  CheckInv is about the re-INVITE of ICE:   *)
(* a new address is remembered until all media are complete.               *)
(***************************************************************************)
EXTENDS Mnat, FiniteSetTheorems, TLAPS

States == {"off", "tcp", "alloc", "sent", "done", "failed", "lost"}

Places == {"none", "natpmp_send", "turn_tcp_recv", "ice_tmr_async"}

SessionRec ==
  [kind : Kinds, n : Media, rtcp : BOOLEAN, offerer : BOOLEAN,
   at : {"alloc", "up", "gone"}, medial : 0..NMedia, srv : BOOLEAN, dns : BOOLEAN,
   tmr : BOOLEAN, comp : [Comp -> States], addr : [Comp -> BOOLEAN],
   mediac : Int, estabh : BOOLEAN, nstun : [Media -> 0..2], gathered : [Media -> BOOLEAN],
   check : [Media -> {"no", "running", "over"}], complete : [Media -> BOOLEAN],
   started : BOOLEAN, send_reinvite : BOOLEAN, epoch : [Media -> {0, 1}],
   wait : BOOLEAN, failed : BOOLEAN, reinv : 0..2, missing : SUBSET Comp,
   moved : 0..MaxMoved, fresh : SUBSET Media, stale : Places]

Counting == {"stun", "turn", "turn_tcp"}

Mapping == {"natpmp", "pcp"}

\* The two cases in which a success may be reported too early.
Exempt(x) == (x.kind = "stun" /\ x.moved > 0) \/ (x.kind = "turn_tcp" /\ x.rtcp)

Granted(x) == {c \in Comp : x.addr[c]}

\* The media that wait for an address.
Waiting(x) == {m \in 1..x.medial : \E c \in Of(x, m) : ~x.addr[c]}

\* The requests of a medium of ICE.
Asking(x, m) == {c \in Of(x, m) : x.comp[c] \in {"sent", "alloc"}}

Shape(x) ==
  /\ x.medial <= x.n
  /\ x.at = "alloc" => x.medial < x.n /\ x.wait
  /\ x.at = "up" => x.medial = x.n
  /\ x.at = "gone" => x.comp = [c \in Comp |-> "off"]
  /\ x.tmr => x.kind = "ice_host"

History(x) ==
  /\ Exempt(x) \/ x.missing = {}
  /\ x.reinv > 0 => x.kind \in Ice /\ x.offerer /\ x.reinv = 1
  /\ x.kind \notin Counting => x.mediac = 0
  /\ x.mediac <= x.medial /\ x.mediac + Cardinality(Granted(x)) + x.moved >= 0

SocketInv(x, c) ==
  /\ c \in Socks(x) /\ x.srv /\ x.addr[c] => x.comp[c] = "done"
  /\ c \in Socks(x) /\ x.srv /\ ~x.addr[c] =>
       x.comp[c] = "sent" \/ (x.kind = "turn_tcp" /\ x.comp[c] = "tcp")
  /\ ~(c \in Socks(x) /\ x.srv) => x.comp[c] = "off" /\ ~x.addr[c]

CountInv(x) ==
  /\ ~x.wait => x.mediac <= 0
  /\ ~Exempt(x) => x.mediac = Cardinality(Waiting(x))
  /\ x.srv => ~x.dns
  /\ \A c \in Comp : SocketInv(x, c)

MapInv(x) == ~x.dns /\ (~x.wait => ~x.estabh)

\* No connectivity checks yet.
Unchecked(x) ==
  /\ \A m \in Media : x.check[m] = "no" /\ ~x.complete[m]
  /\ ~x.started /\ ~x.send_reinvite /\ x.fresh = {} /\ x.reinv = 0

GatherInv(x) ==
  /\ x.srv => ~x.dns
  /\ x.kind = "ice_host" => ~x.srv /\ ~x.dns
  /\ \A c \in Comp :
       /\ c \notin Socks(x) => x.comp[c] = "off"
       /\ x.comp[c] \in {"off", "sent", "alloc", "done", "failed"}
       /\ x.comp[c] \in {"sent", "alloc"} => x.srv
       /\ c \in Socks(x) /\ x.srv => x.comp[c] # "off"
  /\ \A m \in Media : x.nstun[m] = Cardinality(Asking(x, m))
  /\ \A m \in Media : x.gathered[m] =>
       /\ x.at = "up" /\ m <= x.medial /\ ~x.tmr /\ ~x.dns
       /\ \A c \in Of(x, m) : x.comp[c] \in {"done", "failed"}
  /\ ~x.wait => x.at = "up" /\ all_gathered(x)

CheckInv(x) ==
  /\ x.wait => Unchecked(x)
  /\ \A m \in Media : x.check[m] # "no" => m <= x.medial
  /\ \A m \in Media : x.check[m] = "running" => ~x.complete[m]
  /\ (\A m \in Media : x.check[m] = "no") =>
       ~x.send_reinvite /\ x.fresh = {} /\ x.reinv = 0
  /\ x.offerer /\ x.fresh # {} => x.send_reinvite
  /\ x.offerer /\ x.send_reinvite => ~all_completed(x)
  /\ x.reinv > 0 => all_completed(x)

Live(x) ==
  /\ x.kind \in Counting => CountInv(x)
  /\ x.kind \in Mapping => MapInv(x)
  /\ x.kind \in Ice => GatherInv(x) /\ CheckInv(x)
  /\ x.kind \notin Ice => Unchecked(x)

Sound(x) == x \in SessionRec /\ Shape(x) /\ History(x)

Inv(x) == Sound(x) /\ (x.at # "gone" => Live(x))

InvS == Inv(s)

-----------------------------------------------------------------------------
(* Streams and their components *)

LEMMA Sizes == NMedia \in Nat /\ NMedia >= 1 /\ MaxMoved \in Nat
BY MnatAssumption

\* A component is one of the two of its medium.
LEMMA CompParts ==
  ASSUME NEW c \in Comp
  PROVE  /\ c[1] \in Media /\ c[2] \in {1, 2} /\ c = <<c[1], c[2]>>
         /\ Other(c) \in Comp /\ Other(c)[1] = c[1] /\ Other(c) # c
         /\ \A e \in Comp : e[1] = c[1] => e = c \/ e = Other(c)
<1>1. c[1] \in Media /\ c[2] \in {1, 2} /\ c = <<c[1], c[2]>>
  BY DEF Comp
<1>2. 3 - c[2] \in {1, 2} /\ 3 - c[2] # c[2]
  BY <1>1
<1>3. Other(c) \in Comp /\ Other(c)[1] = c[1] /\ Other(c) # c
  BY <1>1, <1>2 DEF Other, Comp
<1>4. ASSUME NEW e \in Comp, e[1] = c[1]
      PROVE  e = c \/ e = Other(c)
  <2>1. e[2] \in {1, 2} /\ e = <<e[1], e[2]>>
    BY DEF Comp
  <2>2. e[2] = c[2] \/ e[2] = 3 - c[2]
    BY <1>1, <2>1
  <2> QED BY <1>1, <1>4, <2>1, <2>2, Zenon DEF Other
<1> QED BY <1>1, <1>3, <1>4, Zenon

\* The sets that are counted are finite.
LEMMA Finite ==
  /\ IsFiniteSet(Media) /\ IsFiniteSet(Comp) /\ Cardinality(Comp) = 2 * NMedia
<1>1. IsFiniteSet(Media) /\ Cardinality(Media) = NMedia
  BY Sizes, FS_Interval DEF Media
<1>2. IsFiniteSet({1, 2}) /\ Cardinality({1, 2}) = 2
  <2>1. IsFiniteSet({1}) /\ Cardinality({1}) = 1
    BY FS_Singleton, Zenon
  <2>2. {1, 2} = {1} \cup {2} /\ 2 \notin {1}
    OBVIOUS
  <2> QED BY <2>1, <2>2, FS_AddElement
<1>3. IsFiniteSet(Comp) /\ Cardinality(Comp) = Cardinality(Media) * Cardinality({1, 2})
  BY <1>1, <1>2, FS_Product, Zenon DEF Comp
<1> QED BY <1>1, <1>2, <1>3, Sizes

-----------------------------------------------------------------------------
(* What the operators change *)

\* Groups of fields that a step leaves alone.
SameWho(x, y) == y.kind = x.kind /\ y.n = x.n /\ y.rtcp = x.rtcp /\ y.offerer = x.offerer

SameRun(x, y) ==
  y.at = x.at /\ y.medial = x.medial /\ y.srv = x.srv /\ y.dns = x.dns /\ y.tmr = x.tmr

SameCount(x, y) == y.mediac = x.mediac /\ y.moved = x.moved

SameGather(x, y) == y.nstun = x.nstun /\ y.gathered = x.gathered

SameCheck(x, y) ==
  /\ y.check = x.check /\ y.complete = x.complete /\ y.started = x.started
  /\ y.send_reinvite = x.send_reinvite

SameTold(x, y) ==
  /\ y.wait = x.wait /\ y.failed = x.failed /\ y.reinv = x.reinv
  /\ y.missing = x.missing /\ y.fresh = x.fresh /\ y.stale = x.stale

\* What the call was told so far.
SameNews(x, y) ==
  y.wait = x.wait /\ y.reinv = x.reinv /\ y.missing = x.missing /\ y.fresh = x.fresh

\* Only the requests and the addresses change.
OnlyNet(x, y) ==
  /\ y \in SessionRec /\ SameWho(x, y) /\ SameRun(x, y) /\ SameCount(x, y)
  /\ SameGather(x, y) /\ SameCheck(x, y) /\ SameTold(x, y) /\ y.estabh = x.estabh

\* A field of a session may get another value of its type.
LEMMA FieldTypes ==
  ASSUME NEW x \in SessionRec
  PROVE  /\ \A v \in {"alloc", "up", "gone"} : [x EXCEPT !.at = v] \in SessionRec
         /\ \A v \in 0..NMedia : [x EXCEPT !.medial = v] \in SessionRec
         /\ \A v \in BOOLEAN : [x EXCEPT !.srv = v] \in SessionRec
         /\ \A v \in BOOLEAN : [x EXCEPT !.dns = v] \in SessionRec
         /\ \A v \in BOOLEAN : [x EXCEPT !.tmr = v] \in SessionRec
         /\ \A v \in [Comp -> States] : [x EXCEPT !.comp = v] \in SessionRec
         /\ \A v \in [Comp -> BOOLEAN] : [x EXCEPT !.addr = v] \in SessionRec
         /\ \A v \in Int : [x EXCEPT !.mediac = v] \in SessionRec
         /\ \A v \in BOOLEAN : [x EXCEPT !.estabh = v] \in SessionRec
         /\ \A v \in [Media -> 0..2] : [x EXCEPT !.nstun = v] \in SessionRec
         /\ \A v \in [Media -> BOOLEAN] : [x EXCEPT !.gathered = v] \in SessionRec
         /\ \A v \in [Media -> {"no", "running", "over"}] : [x EXCEPT !.check = v] \in SessionRec
         /\ \A v \in [Media -> BOOLEAN] : [x EXCEPT !.complete = v] \in SessionRec
         /\ \A v \in BOOLEAN : [x EXCEPT !.started = v] \in SessionRec
         /\ \A v \in BOOLEAN : [x EXCEPT !.send_reinvite = v] \in SessionRec
         /\ \A v \in [Media -> {0, 1}] : [x EXCEPT !.epoch = v] \in SessionRec
         /\ \A v \in BOOLEAN : [x EXCEPT !.wait = v] \in SessionRec
         /\ \A v \in BOOLEAN : [x EXCEPT !.failed = v] \in SessionRec
         /\ \A v \in 0..2 : [x EXCEPT !.reinv = v] \in SessionRec
         /\ \A v \in SUBSET Comp : [x EXCEPT !.missing = v] \in SessionRec
         /\ \A v \in 0..MaxMoved : [x EXCEPT !.moved = v] \in SessionRec
         /\ \A v \in SUBSET Media : [x EXCEPT !.fresh = v] \in SessionRec
         /\ \A v \in Places : [x EXCEPT !.stale = v] \in SessionRec
<1>1. \A v \in {"alloc", "up", "gone"} : [x EXCEPT !.at = v] \in SessionRec
  BY DEF SessionRec
<1>2. \A v \in 0..NMedia : [x EXCEPT !.medial = v] \in SessionRec
  BY DEF SessionRec
<1>3. \A v \in BOOLEAN : [x EXCEPT !.srv = v] \in SessionRec
  BY DEF SessionRec
<1>4. \A v \in BOOLEAN : [x EXCEPT !.dns = v] \in SessionRec
  BY DEF SessionRec
<1>5. \A v \in BOOLEAN : [x EXCEPT !.tmr = v] \in SessionRec
  BY DEF SessionRec
<1>6. \A v \in [Comp -> States] : [x EXCEPT !.comp = v] \in SessionRec
  BY DEF SessionRec
<1>7. \A v \in [Comp -> BOOLEAN] : [x EXCEPT !.addr = v] \in SessionRec
  BY ZenonT(30) DEF SessionRec
<1>8. \A v \in Int : [x EXCEPT !.mediac = v] \in SessionRec
  BY DEF SessionRec
<1>9. \A v \in BOOLEAN : [x EXCEPT !.estabh = v] \in SessionRec
  BY DEF SessionRec
<1>10. \A v \in [Media -> 0..2] : [x EXCEPT !.nstun = v] \in SessionRec
  BY DEF SessionRec
<1>11. \A v \in [Media -> BOOLEAN] : [x EXCEPT !.gathered = v] \in SessionRec
  BY DEF SessionRec
<1>12. \A v \in [Media -> {"no", "running", "over"}] : [x EXCEPT !.check = v] \in SessionRec
  BY DEF SessionRec
<1>13. \A v \in [Media -> BOOLEAN] : [x EXCEPT !.complete = v] \in SessionRec
  BY ZenonT(30) DEF SessionRec
<1>14. \A v \in BOOLEAN : [x EXCEPT !.started = v] \in SessionRec
  BY DEF SessionRec
<1>15. \A v \in BOOLEAN : [x EXCEPT !.send_reinvite = v] \in SessionRec
  BY DEF SessionRec
<1>16. \A v \in [Media -> {0, 1}] : [x EXCEPT !.epoch = v] \in SessionRec
  BY DEF SessionRec
<1>17. \A v \in BOOLEAN : [x EXCEPT !.wait = v] \in SessionRec
  BY DEF SessionRec
<1>18. \A v \in BOOLEAN : [x EXCEPT !.failed = v] \in SessionRec
  BY DEF SessionRec
<1>19. \A v \in 0..2 : [x EXCEPT !.reinv = v] \in SessionRec
  BY DEF SessionRec
<1>20. \A v \in SUBSET Comp : [x EXCEPT !.missing = v] \in SessionRec
  BY DEF SessionRec
<1>21. \A v \in 0..MaxMoved : [x EXCEPT !.moved = v] \in SessionRec
  BY DEF SessionRec
<1>22. \A v \in SUBSET Media : [x EXCEPT !.fresh = v] \in SessionRec
  BY DEF SessionRec
<1>23. \A v \in Places : [x EXCEPT !.stale = v] \in SessionRec
  BY DEF SessionRec
<1> QED BY <1>1, <1>2, <1>3, <1>4, <1>5, <1>6, <1>7, <1>8, <1>9, <1>10, <1>11, <1>12, <1>13, <1>14, <1>15, <1>16, <1>17, <1>18, <1>19, <1>20, <1>21, <1>22, <1>23, Zenon

\* The requests.
LEMMA SetComp ==
  ASSUME NEW x \in SessionRec, NEW f \in [Comp -> States], NEW y, y = [x EXCEPT !.comp = f]
  PROVE  OnlyNet(x, y) /\ y.comp = f /\ y.addr = x.addr /\ y.epoch = x.epoch
<1>1. y \in SessionRec /\ y.comp = f /\ y.addr = x.addr /\ y.epoch = x.epoch
  BY DEF SessionRec
<1>2. SameWho(x, y) /\ SameRun(x, y) /\ SameCount(x, y)
  BY Zenon DEF SessionRec, SameWho, SameRun, SameCount
<1>3. SameGather(x, y) /\ SameCheck(x, y)
  BY Zenon DEF SessionRec, SameGather, SameCheck
<1>4. SameTold(x, y) /\ y.estabh = x.estabh
  BY Zenon DEF SessionRec, SameTold
<1> QED BY <1>1, <1>2, <1>3, <1>4, Zenon DEF OnlyNet

\* The addresses.
LEMMA SetAddr ==
  ASSUME NEW x \in SessionRec, NEW f \in [Comp -> BOOLEAN], NEW y, y = [x EXCEPT !.addr = f]
  PROVE  OnlyNet(x, y) /\ y.addr = f /\ y.comp = x.comp /\ y.epoch = x.epoch
<1>1. y \in SessionRec /\ y.addr = f /\ y.comp = x.comp /\ y.epoch = x.epoch
  BY DEF SessionRec
<1>2. SameWho(x, y) /\ SameRun(x, y) /\ SameCount(x, y)
  BY Zenon DEF SessionRec, SameWho, SameRun, SameCount
<1>3. SameGather(x, y) /\ SameCheck(x, y)
  BY Zenon DEF SessionRec, SameGather, SameCheck
<1>4. SameTold(x, y) /\ y.estabh = x.estabh
  BY Zenon DEF SessionRec, SameTold
<1> QED BY <1>1, <1>2, <1>3, <1>4, Zenon DEF OnlyNet

LEMMA NetTrans ==
  ASSUME NEW x, NEW y, NEW z, OnlyNet(x, y), OnlyNet(y, z)
  PROVE  OnlyNet(x, z)
BY Zenon DEF OnlyNet, SameWho, SameRun, SameCount, SameGather, SameCheck, SameTold

\* A component is answered, with an outcome.
WithAnswer(x, c, o, y) ==
  /\ OnlyNet(x, y) /\ y.comp = [x.comp EXCEPT ![c] = o] /\ y.addr = x.addr
  /\ y.epoch = x.epoch

LEMMA AnsweredNet ==
  ASSUME NEW x \in SessionRec, NEW c \in Comp, NEW o \in States, NEW y, y = Answered(x, c, o)
  PROVE  WithAnswer(x, c, o, y)
<1> DEFINE f == [x.comp EXCEPT ![c] = o]
<1>1. x.comp \in [Comp -> States]
  BY Zenon DEF SessionRec
<1>2. f \in [Comp -> States]
  BY <1>1, Zenon
<1>3. y = [x EXCEPT !.comp = f]
  BY Zenon DEF Answered
<1> HIDE DEF f
<1>4. OnlyNet(x, y) /\ y.comp = f /\ y.addr = x.addr /\ y.epoch = x.epoch
  BY <1>2, <1>3, SetComp
<1> QED BY <1>4, Zenon DEF f, WithAnswer

LEMMA MappedNet ==
  ASSUME NEW x \in SessionRec, NEW c \in Comp, NEW y, y = Mapped(x, c)
  PROVE  /\ OnlyNet(x, y) /\ y.comp = [x.comp EXCEPT ![c] = "done"]
         /\ y.addr = [x.addr EXCEPT ![c] = TRUE] /\ y.epoch = x.epoch
<1> DEFINE f == [x.comp EXCEPT ![c] = "done"]
           g == [x.addr EXCEPT ![c] = TRUE]
           a == [x EXCEPT !.comp = f]
<1>1. x.comp \in [Comp -> States] /\ x.addr \in [Comp -> BOOLEAN]
  BY Zenon DEF SessionRec
<1>2. f \in [Comp -> States] /\ g \in [Comp -> BOOLEAN]
  BY <1>1, Zenon DEF States
<1>3. a = [x EXCEPT !.comp = f]
  BY Zenon
<1>4. y = [a EXCEPT !.addr = g]
  BY Zenon DEF Mapped, SessionRec
<1> HIDE DEF a, f, g
<1>5. OnlyNet(x, a) /\ a.comp = f /\ a.addr = x.addr /\ a.epoch = x.epoch
  BY <1>2, <1>3, SetComp
<1>6. a \in SessionRec
  BY <1>5, Zenon DEF OnlyNet
<1>7. OnlyNet(a, y) /\ y.addr = g /\ y.comp = a.comp /\ y.epoch = a.epoch
  BY <1>2, <1>4, <1>6, SetAddr
<1>8. OnlyNet(x, y)
  BY <1>5, <1>7, NetTrans, Zenon
<1> QED BY <1>5, <1>7, <1>8, Zenon DEF f, g

\* The session is released, and nothing of it runs any more.
Ended(x, y) ==
  /\ y \in SessionRec /\ SameWho(x, y) /\ y.at = "gone" /\ y.medial = x.medial
  /\ y.addr = x.addr /\ SameCount(x, y) /\ y.comp = [c \in Comp |-> "off"] /\ ~y.tmr

LEMMA ReleasedOver ==
  ASSUME NEW x \in SessionRec, NEW y, y = Released(x)
  PROVE  Ended(x, y) /\ SameTold(x, y)
<1> DEFINE f == [c \in Comp |-> "off"]
           g == [m \in Media |-> "no"]
<1>1. f \in [Comp -> States] /\ g \in [Media -> {"no", "running", "over"}]
  BY Zenon DEF States
<1>2. y = [x EXCEPT !.at = "gone", !.dns = FALSE, !.tmr = FALSE, !.comp = f, !.check = g]
  BY Zenon DEF Released
<1> HIDE DEF f, g
<1>3. y.comp = f
  BY <1>2, ZenonT(30) DEF SessionRec
<1>4. y \in SessionRec
  <2> DEFINE x1 == [x EXCEPT !.at = "gone"]
             x2 == [x1 EXCEPT !.dns = FALSE]
             x3 == [x2 EXCEPT !.tmr = FALSE]
             x4 == [x3 EXCEPT !.comp = f]
  <2>1. y = [x4 EXCEPT !.check = g]
    BY <1>2, Zenon
  <2>2. x1 \in SessionRec
    BY FieldTypes, ZenonT(30)
  <2> HIDE DEF x1
  <2>3. x2 \in SessionRec
    BY <2>2, FieldTypes, ZenonT(30)
  <2> HIDE DEF x2
  <2>4. x3 \in SessionRec
    BY <2>3, FieldTypes, ZenonT(30)
  <2> HIDE DEF x3
  <2>5. x4 \in SessionRec
    BY <1>1, <2>4, FieldTypes, ZenonT(30)
  <2> HIDE DEF x4
  <2>6. \A v \in [Media -> {"no", "running", "over"}] : [x4 EXCEPT !.check = v] \in SessionRec
    BY <2>5, FieldTypes, Zenon
  <2> QED BY <1>1, <2>1, <2>6, Zenon
<1>5. /\ y.at = "gone" /\ ~y.tmr
      /\ y.medial = x.medial /\ y.addr = x.addr
  BY <1>2 DEF SessionRec
<1>6. SameWho(x, y) /\ SameCount(x, y)
  BY <1>2 DEF SessionRec, SameWho, SameCount
<1>7. SameTold(x, y)
  BY <1>2, ZenonT(30) DEF SessionRec, SameTold
<1> QED BY <1>3, <1>4, <1>5, <1>6, <1>7, Zenon DEF Ended, f

LEMMA OverInv ==
  ASSUME NEW x, Sound(x), NEW y, Ended(x, y),
         y.missing = x.missing, y.reinv = x.reinv
  PROVE  Inv(y)
<1>1. x \in SessionRec /\ y \in SessionRec
  BY Zenon DEF Sound, Ended
<1>2. Granted(y) = Granted(x)
  BY Zenon DEF Granted, Ended
<1>3. Exempt(y) <=> Exempt(x)
  BY Zenon DEF Exempt, Ended, SameWho, SameCount
<1>4. History(y)
  BY <1>2, <1>3, Zenon DEF Sound, History, Ended, SameWho, SameCount
<1>5. Shape(y)
  BY Zenon DEF Sound, Shape, Ended, SameWho
<1> QED BY <1>1, <1>4, <1>5, Zenon DEF Inv, Sound, Ended

\* The call is released, or the module reports an error.
LEMMA ReleasedInv ==
  ASSUME NEW x, Sound(x), NEW y, y = Released(x)
  PROVE  Inv(y) /\ y.at = "gone"
<1>1. Ended(x, y) /\ SameTold(x, y)
  BY ReleasedOver, Zenon DEF Sound
<1> QED BY <1>1, OverInv, Zenon DEF SameTold, Ended

LEMMA FailedInv ==
  ASSUME NEW x, Sound(x), NEW close \in BOOLEAN, NEW y, y = mnat_handler(x, FALSE, close)
  PROVE  Inv(y) /\ y.at = "gone"
<1> DEFINE a == [x EXCEPT !.failed = TRUE]
<1>1. y = Released(a)
  BY Zenon DEF mnat_handler
<1>2. x \in SessionRec
  BY Zenon DEF Sound
<1>3. a \in SessionRec /\ SameWho(x, a) /\ SameRun(x, a) /\ SameCount(x, a)
  BY <1>2, ZenonT(30) DEF SessionRec, SameWho, SameRun, SameCount
<1>4. /\ a.comp = x.comp /\ a.addr = x.addr /\ a.wait = x.wait /\ a.missing = x.missing
      /\ a.reinv = x.reinv
  BY <1>2, Zenon DEF SessionRec
<1> HIDE DEF a
<1>5. Granted(a) = Granted(x)
  BY <1>4, Zenon DEF Granted
<1>6. Exempt(a) <=> Exempt(x)
  BY <1>3, Zenon DEF Exempt, SameWho, SameCount
<1>7. Sound(a)
  <2>1. History(a)
    BY <1>3, <1>4, <1>5, <1>6, Zenon DEF Sound, History, SameWho, SameRun, SameCount
  <2>2. Shape(a)
    BY <1>3, <1>4, Zenon DEF Sound, Shape, SameWho, SameRun
  <2> QED BY <1>3, <2>1, <2>2, Zenon DEF Sound
<1> QED BY <1>1, <1>7, ReleasedInv, ZenonT(30)

-----------------------------------------------------------------------------
(* Reports *)

LEMMA SocksSame ==
  ASSUME NEW x, NEW y, y.medial = x.medial, y.rtcp = x.rtcp
  PROVE  Socks(y) = Socks(x) /\ \A m : Of(y, m) = Of(x, m)
BY Zenon DEF Socks, Of

\* The invariants of the kinds depend on a part of the session each.
LEMMA CountKept ==
  ASSUME NEW x, CountInv(x), NEW y, SameWho(x, y), SameCount(x, y),
         y.medial = x.medial, y.srv = x.srv, y.dns = x.dns, y.comp = x.comp, y.addr = x.addr,
         ~y.wait => y.mediac <= 0
  PROVE  CountInv(y)
<1>1. Socks(y) = Socks(x) /\ \A m : Of(y, m) = Of(x, m)
  BY SocksSame, Zenon DEF SameWho
<1>2. Exempt(y) <=> Exempt(x)
  BY Zenon DEF Exempt, SameWho, SameCount
<1>3. Waiting(y) = Waiting(x)
  BY <1>1 DEF Waiting
<1> QED BY <1>1, <1>2, <1>3, ZenonT(30) DEF CountInv, SocketInv, SameWho, SameCount

LEMMA GatherKept ==
  ASSUME NEW x, GatherInv(x), NEW y, SameWho(x, y), SameRun(x, y), SameGather(x, y),
         y.comp = x.comp, ~y.wait => y.at = "up" /\ all_gathered(y)
  PROVE  GatherInv(y)
<1>1. Socks(y) = Socks(x) /\ \A m : Of(y, m) = Of(x, m)
  BY SocksSame, Zenon DEF SameWho, SameRun
<1>2. \A m \in Media : Asking(y, m) = Asking(x, m)
  BY <1>1 DEF Asking
<1> QED BY <1>1, <1>2, ZenonT(30) DEF GatherInv, SameWho, SameRun, SameGather

\* The first success of a session that is complete.
LEMMA ReportInv ==
  ASSUME NEW x, Sound(x), Live(x), x.at = "up", x.wait, Exempt(x) \/ Pending(x) = {},
         x.kind \in Counting => x.mediac <= 0, x.kind \in Mapping => ~x.estabh,
         x.kind \in Ice => all_gathered(x),
         NEW close \in BOOLEAN, NEW y, y = mnat_handler(x, TRUE, close)
  PROVE  Inv(y)
<1> DEFINE p == Pending(x)
           a == [x EXCEPT !.wait = FALSE, !.missing = p]
<1>1. y = a \/ y = Released(a)
  BY Zenon DEF mnat_handler
<1>2. x \in SessionRec
  BY Zenon DEF Sound
<1>3. p \in SUBSET Comp
  BY Zenon DEF Pending, Socks
<1>4. a = [x EXCEPT !.wait = FALSE, !.missing = p]
  BY Zenon
<1>5. Exempt(x) \/ p = {}
  BY Zenon
<1> HIDE DEF p, a
<1>6. a \in SessionRec
  <2> DEFINE b == [x EXCEPT !.wait = FALSE]
  <2>1. a = [b EXCEPT !.missing = p]
    BY <1>4, Zenon
  <2>2. b \in SessionRec
    BY <1>2, FieldTypes, ZenonT(30)
  <2> HIDE DEF b
  <2> QED BY <1>3, <2>1, <2>2, FieldTypes, ZenonT(30)
<1>7. SameWho(x, a) /\ SameRun(x, a) /\ SameCount(x, a)
  BY <1>2, <1>4, ZenonT(30) DEF SessionRec, SameWho, SameRun, SameCount
<1>8. SameGather(x, a) /\ SameCheck(x, a)
  BY <1>2, <1>4, ZenonT(30) DEF SessionRec, SameGather, SameCheck
<1>9. /\ a.comp = x.comp /\ a.addr = x.addr /\ ~a.wait /\ a.missing = p
      /\ a.reinv = x.reinv /\ a.estabh = x.estabh /\ a.fresh = x.fresh
  BY <1>2, <1>4, ZenonT(30) DEF SessionRec
<1>10. Granted(a) = Granted(x)
  BY <1>9, Zenon DEF Granted
<1>11. Exempt(a) <=> Exempt(x)
  BY <1>7, Zenon DEF Exempt, SameWho, SameCount
<1>12. Sound(a)
  <2>1. History(a)
    BY <1>5, <1>7, <1>9, <1>10, <1>11, ZenonT(30) DEF Sound, History, SameWho, SameRun, SameCount
  <2>2. Shape(a)
    BY <1>7, <1>9, Zenon DEF Sound, Shape, SameWho, SameRun
  <2> QED BY <1>6, <2>1, <2>2, Zenon DEF Sound
<1>13. x.kind \in Counting => CountInv(a)
  BY <1>7, <1>9, CountKept, Zenon DEF Live, SameRun, SameCount
<1>14. x.kind \in Mapping => MapInv(a)
  BY <1>7, <1>9, Zenon DEF Live, MapInv, SameRun
<1>15. x.kind \in Ice => GatherInv(a)
  <2>1. all_gathered(a) <=> all_gathered(x)
    BY <1>7, <1>8, Zenon DEF all_gathered, SameRun, SameGather
  <2> QED BY <1>7, <1>8, <1>9, <2>1, GatherKept, ZenonT(30) DEF Live, SameRun
<1>16. Unchecked(x)
  BY <1>2, Zenon DEF Live, CheckInv
<1>17. Unchecked(a)
  BY <1>8, <1>9, <1>16, Zenon DEF Unchecked, SameCheck
<1>18. CheckInv(a)
  BY <1>9, <1>17 DEF Unchecked, CheckInv
<1>19. Live(a)
  BY <1>7, <1>13, <1>14, <1>15, <1>17, <1>18, Zenon DEF Live, SameWho
<1>20. Inv(a)
  BY <1>12, <1>19, Zenon DEF Inv
<1> QED BY <1>1, <1>12, <1>20, ReleasedInv, ZenonT(30)

-----------------------------------------------------------------------------
(* The modules that count *)

LEMMA WaitingFinite ==
  ASSUME NEW x \in SessionRec
  PROVE  /\ Waiting(x) \in SUBSET Media /\ IsFiniteSet(Waiting(x)) /\ Cardinality(Waiting(x)) \in Nat
         /\ Granted(x) \in SUBSET Comp /\ IsFiniteSet(Granted(x))
         /\ Cardinality(Granted(x)) \in Nat /\ Cardinality(Granted(x)) <= 2 * NMedia
<1>1. Waiting(x) \in SUBSET Media
  BY Sizes DEF Waiting, SessionRec, Media
<1>2. Granted(x) \in SUBSET Comp
  BY Zenon DEF Granted
<1>3. IsFiniteSet(Waiting(x))
  BY <1>1, Finite, FS_Subset, Zenon
<1>4. IsFiniteSet(Granted(x)) /\ Cardinality(Granted(x)) <= 2 * NMedia
  BY <1>2, Finite, FS_Subset, Zenon
<1> QED BY <1>1, <1>2, <1>3, <1>4, FS_CardinalityType, Zenon

\* A component is granted its address.
WithAddr(x, c, a) ==
  /\ OnlyNet(x, a) /\ a.comp = [x.comp EXCEPT ![c] = "done"]
  /\ a.addr = [x.addr EXCEPT ![c] = TRUE]

LEMMA GrantedMore ==
  ASSUME NEW x \in SessionRec, NEW c \in Comp, ~x.addr[c], NEW a, WithAddr(x, c, a)
  PROVE  Cardinality(Granted(a)) = Cardinality(Granted(x)) + 1
<1>1. x.addr \in [Comp -> BOOLEAN]
  BY Zenon DEF SessionRec
<1>2. Granted(a) = Granted(x) \cup {c} /\ c \notin Granted(x)
  BY <1>1, Zenon DEF Granted, WithAddr
<1> QED BY <1>2, WaitingFinite, FS_AddElement, ZenonT(30)

\* A component that waits, in a module that counts.
LEMMA SentFacts ==
  ASSUME NEW x \in SessionRec, CountInv(x), NEW c \in Comp, x.comp[c] \in {"sent", "tcp"}
  PROVE  c \in Socks(x) /\ x.srv /\ ~x.addr[c] /\ c[1] \in 1..x.medial /\ c \in Of(x, c[1])
<1>1. c \in Socks(x) /\ x.srv /\ ~x.addr[c]
  BY Zenon DEF CountInv, SocketInv
<1>2. c[1] \in Media /\ c[1] <= x.medial
  BY <1>1, CompParts, Zenon DEF Socks
<1>3. c[1] \in 1..x.medial
  BY <1>2, Sizes DEF Media, SessionRec
<1> QED BY <1>1, <1>3, Zenon DEF Of

LEMMA WaitingMore ==
  ASSUME NEW x \in SessionRec, CountInv(x), NEW c \in Comp, x.comp[c] = "sent",
         NEW a, WithAddr(x, c, a), OtherWaits(x, c)
  PROVE  Waiting(a) = Waiting(x)
<1> DEFINE o == Other(c)
<1>1. c \in Socks(x) /\ ~x.addr[c] /\ c[1] \in 1..x.medial /\ c \in Of(x, c[1])
  BY SentFacts, Zenon
<1>2. o \in Comp /\ o[1] = c[1] /\ o # c
  BY CompParts, Zenon
<1>3. x.comp[o] \in {"sent", "done"} /\ ~x.addr[o]
  BY Zenon DEF OtherWaits
<1> HIDE DEF o
<1>4. o \in Of(x, c[1])
  BY <1>2, <1>3, Zenon DEF CountInv, SocketInv, Of
<1>5. a.medial = x.medial /\ \A m : Of(a, m) = Of(x, m)
  BY SocksSame, Zenon DEF WithAddr, OnlyNet, SameWho, SameRun
<1>6. x.addr \in [Comp -> BOOLEAN]
  BY Zenon DEF SessionRec
<1>7. ~a.addr[o]
  BY <1>2, <1>3, <1>6, Zenon DEF WithAddr
<1>8. ASSUME NEW m \in 1..x.medial, m # c[1]
      PROVE  m \in Waiting(a) <=> m \in Waiting(x)
  <2>1. ASSUME NEW e \in Of(x, m)
        PROVE  a.addr[e] = x.addr[e]
    <3>1. e \in Comp /\ e # c
      BY <1>8, <2>1, Zenon DEF Of, Socks
    <3> QED BY <1>6, <3>1, Zenon DEF WithAddr
  <2> QED BY <1>5, <2>1, Zenon DEF Waiting
<1>9. c[1] \in Waiting(a) /\ c[1] \in Waiting(x)
  BY <1>1, <1>4, <1>5, <1>7, Zenon DEF Waiting
<1>10. Waiting(a) \subseteq 1..x.medial /\ Waiting(x) \subseteq 1..x.medial
  BY <1>5, Zenon DEF Waiting
<1> QED BY <1>8, <1>9, <1>10

LEMMA WaitingLess ==
  ASSUME NEW x \in SessionRec, CountInv(x), x.kind \in Counting, NEW c \in Comp, x.comp[c] = "sent",
         NEW a, WithAddr(x, c, a), ~OtherWaits(x, c), ~Exempt(x)
  PROVE  Cardinality(Waiting(a)) = Cardinality(Waiting(x)) - 1
<1> DEFINE o == Other(c)
<1>1. c \in Socks(x) /\ x.srv /\ ~x.addr[c] /\ c[1] \in 1..x.medial /\ c \in Of(x, c[1])
  BY SentFacts, Zenon
<1>2. o \in Comp /\ o[1] = c[1] /\ o # c /\ \A e \in Comp : e[1] = c[1] => e = c \/ e = o
  BY CompParts, Zenon
<1>3. ~(x.comp[o] \in {"sent", "done"} /\ ~x.addr[o])
  BY Zenon DEF OtherWaits
<1> HIDE DEF o
<1>4. a.medial = x.medial /\ \A m : Of(a, m) = Of(x, m)
  BY SocksSame, Zenon DEF WithAddr, OnlyNet, SameWho, SameRun
<1>5. x.addr \in [Comp -> BOOLEAN] /\ x.rtcp \in BOOLEAN
  BY Zenon DEF SessionRec
<1>6. o \in Socks(x) => x.addr[o]
  <2>1. ASSUME o \in Socks(x), ~x.addr[o], x.kind = "turn_tcp"
        PROVE  FALSE
    <3>1. c[2] \in {1, 2} /\ o[2] \in {1, 2} /\ (c[2] = 1 \/ x.rtcp) /\ (o[2] = 1 \/ x.rtcp)
      BY <1>1, <1>2, <2>1, CompParts, ZenonT(30) DEF Socks
    <3>2. c = <<c[1], c[2]>> /\ o = <<o[1], o[2]>>
      BY <1>2, CompParts, Zenon
    <3>3. x.rtcp
      BY <1>2, <3>1, <3>2, Zenon
    <3> QED BY <2>1, <3>3, Zenon DEF Exempt
  <2> QED BY <1>1, <1>2, <1>3, <2>1, ZenonT(30) DEF CountInv, SocketInv
<1>7. ASSUME NEW m \in 1..x.medial, m # c[1]
      PROVE  m \in Waiting(a) <=> m \in Waiting(x)
  <2>1. ASSUME NEW e \in Of(x, m)
        PROVE  a.addr[e] = x.addr[e]
    <3>1. e \in Comp /\ e # c
      BY <1>7, <2>1, Zenon DEF Of, Socks
    <3> QED BY <1>5, <3>1, Zenon DEF WithAddr
  <2> QED BY <1>4, <2>1, Zenon DEF Waiting
<1>8. c[1] \in Waiting(x)
  BY <1>1, Zenon DEF Waiting
<1>9. c[1] \notin Waiting(a)
  <2>1. ASSUME NEW e \in Of(x, c[1])
        PROVE  a.addr[e]
    <3>1. e \in Socks(x) /\ e \in Comp /\ (e = c \/ e = o)
      BY <1>2, <2>1, Zenon DEF Of, Socks
    <3> QED BY <1>2, <1>5, <1>6, <3>1, ZenonT(30) DEF WithAddr
  <2> QED BY <1>4, <2>1, Zenon DEF Waiting
<1>10. Waiting(a) \subseteq 1..x.medial /\ Waiting(x) \subseteq 1..x.medial
  BY <1>4, Zenon DEF Waiting
<1>11. Waiting(a) = Waiting(x) \ {c[1]}
  BY <1>7, <1>8, <1>9, <1>10, ZenonT(30)
<1>12. IsFiniteSet(Waiting(x))
  BY WaitingFinite, Zenon
<1>13. Cardinality(Waiting(x) \ {c[1]}) = Cardinality(Waiting(x)) - 1
  BY <1>8, <1>12, FS_RemoveElement, ZenonT(30)
<1> QED BY <1>11, <1>13, Zenon

\* Only the counters and what is counted change.
OnlyCount(x, y) ==
  /\ y \in SessionRec /\ SameWho(x, y) /\ SameRun(x, y) /\ SameGather(x, y)
  /\ SameCheck(x, y) /\ SameTold(x, y) /\ y.estabh = x.estabh

LEMMA CountTrans ==
  ASSUME NEW x, NEW y, NEW z, OnlyCount(x, y), OnlyCount(y, z)
  PROVE  OnlyCount(x, z)
BY ZenonT(30) DEF OnlyCount, SameWho, SameRun, SameGather, SameCheck, SameTold

Bounded(x) == x.mediac <= x.medial /\ x.mediac + Cardinality(Granted(x)) + x.moved >= 0

LEMMA CountLive ==
  ASSUME NEW x, Inv(x), x.at = "up", x.kind \in Counting, NEW y, y \in SessionRec,
         SameWho(x, y), y.at = x.at, y.medial = x.medial, y.tmr = x.tmr,
         SameCheck(x, y), SameTold(x, y), CountInv(y), Bounded(y), Exempt(x) => Exempt(y)
  PROVE  Inv(y)
<1>1. History(y)
  BY Zenon DEF Inv, Sound, History, SameWho, SameTold, Bounded
<1>2. Shape(y)
  BY Zenon DEF Inv, Sound, Shape, SameWho, SameTold
<1>3. x.kind \notin Ice /\ x.kind \notin Mapping
  BY Zenon DEF Counting, Ice, Mapping
<1>4. Unchecked(y)
  BY <1>3, Zenon DEF Inv, Live, Unchecked, SameCheck, SameTold
<1>5. Live(y)
  BY <1>3, <1>4, ZenonT(30) DEF Live, SameWho
<1> QED BY <1>1, <1>2, <1>5, Zenon DEF Inv, Sound

LEMMA CountStep ==
  ASSUME NEW x, Inv(x), x.at = "up", x.kind \in Counting, NEW y, OnlyCount(x, y),
         CountInv(y), Bounded(y), Exempt(x) => Exempt(y)
  PROVE  Inv(y)
BY CountLive, Zenon DEF OnlyCount, SameRun

\* When the counter gets to zero for the first time all media have their addresses.
LEMMA CountedInv ==
  ASSUME NEW a \in SessionRec, NEW d, d = [a EXCEPT !.mediac = a.mediac - 1],
         Inv(d), d.at = "up", d.kind \in Counting, ~d.wait => d.mediac < 0,
         NEW close \in BOOLEAN, NEW y, y = Counted(a, close)
  PROVE  Inv(y)
<1>1. y = IF d.mediac # 0 THEN d ELSE mnat_handler(d, TRUE, close)
  BY Zenon DEF Counted
<1>2. CASE d.mediac # 0
  BY <1>1, <1>2, Zenon
<1>3. CASE d.mediac = 0
  <2>1. d \in SessionRec /\ Live(d) /\ Sound(d) /\ CountInv(d)
    BY Zenon DEF Inv, Sound, Live
  <2>2. d.wait
    <3>1. ~(d.mediac < 0)
      BY <1>3
    <3> QED BY <3>1, Zenon
  <2>3. Exempt(d) \/ Pending(d) = {}
    <3>1. SUFFICES ASSUME ~Exempt(d)
                   PROVE  Pending(d) = {}
      BY Zenon
    <3>2. Cardinality(Waiting(d)) = 0
      BY <1>3, <2>1, <3>1, Zenon DEF CountInv
    <3>3. Waiting(d) = {}
      BY <2>1, <3>2, WaitingFinite, FS_EmptySet, Zenon
    <3>4. ASSUME NEW c \in Socks(d)
          PROVE  d.addr[c]
      <4>1. c \in Comp /\ c[1] <= d.medial
        BY Zenon DEF Socks
      <4>2. c[1] \in 1..d.medial
        BY <2>1, <4>1, CompParts, Sizes DEF Media, SessionRec
      <4> QED BY <3>3, <4>2, Zenon DEF Waiting, Of
    <3> QED BY <3>4, Zenon DEF Pending
  <2>4. d.kind \notin Mapping /\ d.kind \notin Ice
    BY Zenon DEF Counting, Mapping, Ice
  <2>5. y = mnat_handler(d, TRUE, close)
    BY <1>1, <1>3, Zenon
  <2>6. d.mediac <= 0
    BY <1>3
  <2> QED BY <2>1, <2>2, <2>3, <2>4, <2>5, <2>6, ReportInv, ZenonT(30)
<1> QED BY <1>2, <1>3, ZenonT(30)

\* The answer that grants a component its address, in a module that counts.
LEMMA GrantInv ==
  ASSUME NEW x, Inv(x), x.at = "up", x.kind \in Counting, NEW c \in Comp, x.comp[c] = "sent",
         NEW a, WithAddr(x, c, a), NEW close \in BOOLEAN,
         NEW y, y = IF OtherWaits(x, c) THEN a ELSE Counted(a, close)
  PROVE  Inv(y)
<1> DEFINE d == [a EXCEPT !.mediac = a.mediac - 1]
<1>1. /\ x \in SessionRec /\ CountInv(x) /\ Bounded(x) /\ a \in SessionRec
  BY Zenon DEF Inv, Sound, Live, History, Bounded, WithAddr, OnlyNet
<1>2. c \in Socks(x) /\ x.srv /\ ~x.addr[c]
  BY <1>1, SentFacts, Zenon
<1>3. Cardinality(Granted(a)) = Cardinality(Granted(x)) + 1 /\ Cardinality(Granted(x)) \in Nat
  BY <1>1, <1>2, GrantedMore, WaitingFinite, ZenonT(30)
<1>4. OnlyCount(x, a) /\ a.mediac = x.mediac /\ a.moved = x.moved
  BY Zenon DEF WithAddr, OnlyNet, OnlyCount, SameCount
<1>5. /\ x.mediac \in Int /\ x.moved \in Nat /\ x.medial \in Nat /\ x.wait \in BOOLEAN
      /\ x.addr \in [Comp -> BOOLEAN] /\ x.comp \in [Comp -> States]
  BY <1>1, Sizes DEF SessionRec
<1>6. Exempt(a) <=> Exempt(x)
  BY <1>4, Zenon DEF Exempt, OnlyCount, SameWho
<1>7. Socks(a) = Socks(x) /\ \A m : Of(a, m) = Of(x, m)
  BY <1>4, SocksSame, ZenonT(30) DEF OnlyCount, SameWho, SameRun
<1>8. ASSUME NEW e \in Comp
      PROVE  SocketInv(a, e)
  <2>1. SocketInv(x, e) /\ a.srv = x.srv /\ a.kind = x.kind
    BY <1>1, <1>4, Zenon DEF CountInv, OnlyCount, SameWho, SameRun
  <2>2. CASE e = c
    <3>1. a.comp[e] = "done" /\ a.addr[e]
      BY <1>5, <2>2, Zenon DEF WithAddr
    <3> QED BY <1>2, <1>7, <2>1, <2>2, <3>1, Zenon DEF SocketInv
  <2>3. CASE e # c
    <3>1. a.comp[e] = x.comp[e] /\ a.addr[e] = x.addr[e]
      BY <1>5, <2>3, Zenon DEF WithAddr
    <3> QED BY <1>7, <2>1, <3>1, ZenonT(30) DEF SocketInv
  <2> QED BY <2>2, <2>3, Zenon
<1>9. CASE OtherWaits(x, c)
  <2>1. y = a
    BY <1>9, Zenon
  <2>2. Waiting(a) = Waiting(x)
    BY <1>1, <1>9, WaitingMore, Zenon
  <2>3. CountInv(a)
    BY <1>1, <1>4, <1>6, <1>8, <2>2, ZenonT(30) DEF CountInv, OnlyCount, SameRun, SameTold
  <2>4. Bounded(a)
    BY <1>1, <1>3, <1>4, <1>5 DEF Bounded, OnlyCount, SameRun
  <2> QED BY <1>4, <1>6, <2>1, <2>3, <2>4, CountStep, ZenonT(30)
<1>10. CASE ~OtherWaits(x, c)
  <2>1. y = Counted(a, close)
    BY <1>10, Zenon
  <2>2. d = [a EXCEPT !.mediac = a.mediac - 1]
    BY Zenon
  <2>3. a.mediac - 1 \in Int
    BY <1>4, <1>5
  <2> HIDE DEF d
  <2>4. d \in SessionRec
    BY <1>1, <2>2, <2>3, FieldTypes, ZenonT(30)
  <2>5. /\ SameWho(a, d) /\ SameRun(a, d) /\ SameGather(a, d)
    BY <1>1, <2>2, ZenonT(30) DEF SessionRec, SameWho, SameRun, SameGather
  <2>6. SameCheck(a, d) /\ SameTold(a, d)
    BY <1>1, <2>2, Zenon DEF SessionRec, SameCheck, SameTold
  <2>7. /\ d.mediac = a.mediac - 1 /\ d.moved = a.moved /\ d.estabh = a.estabh
        /\ d.comp = a.comp /\ d.addr = a.addr
    BY <1>1, <2>2, ZenonT(30) DEF SessionRec
  <2>8. OnlyCount(x, d)
    <3>1. OnlyCount(a, d)
      BY <2>4, <2>5, <2>6, <2>7, ZenonT(30) DEF OnlyCount
    <3> QED BY <1>4, <3>1, CountTrans, Zenon
  <2>9. Exempt(d) <=> Exempt(a)
    BY <2>5, <2>7, Zenon DEF Exempt, SameWho
  <2>10. Socks(d) = Socks(a) /\ (\A m : Of(d, m) = Of(a, m)) /\ d.medial = a.medial
    BY <2>5, SocksSame, Zenon DEF SameWho, SameRun
  <2>11. Waiting(d) = Waiting(a) /\ Granted(d) = Granted(a)
    BY <2>7, <2>10 DEF Waiting, Granted
  <2>12. \A e \in Comp : SocketInv(d, e)
    BY <1>8, <2>5, <2>7, <2>10 DEF SocketInv, SameWho, SameRun
  <2>13. ~Exempt(d) => d.mediac = Cardinality(Waiting(d))
    <3>1. ~Exempt(x) => Cardinality(Waiting(a)) = Cardinality(Waiting(x)) - 1
      BY <1>1, <1>10, WaitingLess, Zenon
    <3> QED BY <1>1, <1>4, <1>6, <2>7, <2>9, <2>11, <3>1, Zenon DEF CountInv
  <2>14. ~d.wait => d.mediac < 0
    BY <1>1, <1>4, <1>5, <2>7, <2>8 DEF CountInv, OnlyCount, SameTold
  <2>15. d.mediac < 0 => d.mediac <= 0
    BY <2>7, <1>4, <1>5
  <2>16. CountInv(d)
    BY <1>1, <2>8, <2>12, <2>13, <2>14, <2>15, Zenon DEF CountInv, OnlyCount, SameRun
  <2>17. Bounded(d)
    BY <1>1, <1>3, <1>4, <1>5, <2>7, <2>8, <2>11 DEF Bounded, OnlyCount, SameRun
  <2>18. Inv(d) /\ d.at = "up" /\ d.kind \in Counting
    BY <1>6, <2>8, <2>9, <2>16, <2>17, CountStep, Zenon DEF OnlyCount, SameWho, SameRun
  <2> QED BY <1>1, <2>1, <2>2, <2>14, <2>18, CountedInv, ZenonT(30)
<1> QED BY <1>9, <1>10, Zenon

\* The code that goes on with a released session changes nothing of it here.
LEMMA GoesOnInv ==
  ASSUME NEW x, Inv(x), NEW p \in Places, NEW y, y = GoesOn(x, x, p)
  PROVE  Inv(y)
<1>1. CASE x.at # "gone"
  BY <1>1, Zenon DEF GoesOn
<1>2. CASE x.at = "gone"
  <2>1. y = [x EXCEPT !.stale = p] /\ x \in SessionRec /\ Sound(x)
    BY <1>2, Zenon DEF GoesOn, Inv, Sound
  <2>2. y \in SessionRec
    BY <2>1, FieldTypes, ZenonT(30)
  <2>3. /\ SameWho(x, y) /\ SameCount(x, y) /\ SameRun(x, y)
    BY <2>1 DEF SessionRec, SameWho, SameCount, SameRun
  <2>4. y.addr = x.addr /\ y.comp = x.comp /\ y.missing = x.missing /\ y.reinv = x.reinv
    BY <2>1, ZenonT(30) DEF SessionRec
  <2>5. ~y.tmr \/ x.kind = "ice_host"
    BY <2>1, <2>3, Zenon DEF Sound, Shape, SameRun
  <2>6. Granted(y) = Granted(x) /\ (Exempt(y) <=> Exempt(x))
    BY <2>3, <2>4, Zenon DEF Granted, Exempt, SameWho, SameCount
  <2>7. History(y)
    BY <2>1, <2>3, <2>4, <2>6, Zenon DEF Sound, History, SameWho, SameCount, SameRun
  <2>8. Shape(y)
    BY <1>2, <2>1, <2>3, <2>4, Zenon DEF Sound, Shape, SameWho, SameRun
  <2> QED BY <1>2, <2>2, <2>3, <2>7, <2>8, ZenonT(30) DEF Inv, Sound, SameRun
<1> QED BY <1>1, <1>2, Zenon

\* turn_handler(), in both transports.
LEMMA TurnHandlerInv ==
  ASSUME NEW x, Inv(x), x.at = "up", x.kind \in Counting, NEW c \in Comp,
         NEW ok \in BOOLEAN, NEW close \in BOOLEAN, ok => x.comp[c] = "sent",
         NEW y, y = turn_handler(x, c, ok, close)
  PROVE  Inv(y)
<1>1. x \in SessionRec /\ Sound(x)
  BY Zenon DEF Inv, Sound
<1>2. CASE ~ok
  <2>1. y = mnat_handler(x, FALSE, close)
    BY <1>2, Zenon DEF turn_handler
  <2> QED BY <1>1, <2>1, FailedInv, ZenonT(30)
<1>3. CASE ok
  <2> DEFINE a == Mapped(x, c)
  <2>1. y = IF OtherWaits(x, c) THEN a ELSE Counted(a, close)
    BY <1>3, Zenon DEF turn_handler
  <2>2. a = Mapped(x, c)
    BY Zenon
  <2> HIDE DEF a
  <2>3. WithAddr(x, c, a)
    BY <1>1, <2>2, MappedNet DEF WithAddr
  <2> QED BY <1>3, <2>1, <2>3, GrantInv, ZenonT(30)
<1> QED BY <1>2, <1>3, Zenon

\* The address of a component of "stun" has changed.
LEMMA MovedInv ==
  ASSUME NEW x, Inv(x), x.at = "up", x.kind = "stun", NEW c \in Comp, x.comp[c] = "done",
         x.moved < MaxMoved, NEW close \in BOOLEAN, NEW y, y = mapped_handler(x, c, TRUE, close)
  PROVE  Inv(y)
<1> DEFINE b == Mapped(x, c)
           a == [b EXCEPT !.moved = b.moved + 1]
           d == [a EXCEPT !.mediac = a.mediac - 1]
<1>1. /\ x \in SessionRec /\ CountInv(x) /\ Bounded(x) /\ x.kind \in Counting
  BY Zenon DEF Inv, Sound, Live, History, Bounded, Counting
<1>2. x.addr[c] /\ x.addr \in [Comp -> BOOLEAN] /\ x.comp \in [Comp -> States]
  BY <1>1, Zenon DEF CountInv, SocketInv, SessionRec
<1>3. y = IF OtherWaits(x, c) THEN a ELSE Counted(a, close)
  BY <1>2, Zenon DEF mapped_handler
<1>4. b = Mapped(x, c)
  BY Zenon
<1>5. a = [b EXCEPT !.moved = b.moved + 1] /\ d = [a EXCEPT !.mediac = a.mediac - 1]
  BY Zenon
<1> HIDE DEF a, b, d
<1>6. OnlyNet(x, b) /\ b.comp = [x.comp EXCEPT ![c] = "done"] /\ b.addr = [x.addr EXCEPT ![c] = TRUE]
  BY <1>1, <1>4, MappedNet
<1>7. b.comp = x.comp /\ b.addr = x.addr
  <2>1. x.addr[c] = TRUE
    BY <1>2, Zenon
  <2>2. [x.comp EXCEPT ![c] = "done"] = x.comp
    BY <1>2, Zenon
  <2>3. [x.addr EXCEPT ![c] = TRUE] = x.addr
    BY <1>2, <2>1, ZenonT(30)
  <2> QED BY <1>6, <2>2, <2>3, Zenon
<1>8. b \in SessionRec /\ b.moved = x.moved /\ b.mediac = x.mediac /\ b.moved + 1 \in 0..MaxMoved
      /\ x.mediac \in Int /\ x.moved \in Nat /\ x.medial \in Nat /\ x.wait \in BOOLEAN
  BY <1>1, <1>6, Sizes DEF SessionRec, OnlyNet, SameCount
<1>9. a \in SessionRec
  BY <1>5, <1>8, FieldTypes, ZenonT(30)
<1>10. SameWho(b, a) /\ SameRun(b, a) /\ SameGather(b, a)
  BY <1>5, <1>8, ZenonT(30) DEF SessionRec, SameWho, SameRun, SameGather
<1>11. SameCheck(b, a) /\ SameTold(b, a)
  BY <1>5, <1>8, ZenonT(30) DEF SessionRec, SameCheck, SameTold
<1>12. a.moved = b.moved + 1 /\ a.mediac = b.mediac /\ a.comp = b.comp /\ a.addr = b.addr
       /\ a.estabh = b.estabh
  BY <1>5, <1>8, ZenonT(30) DEF SessionRec
<1>13. OnlyCount(x, a)
  <2>1. OnlyCount(x, b)
    BY <1>6, Zenon DEF OnlyNet, OnlyCount
  <2>2. OnlyCount(b, a)
    BY <1>9, <1>10, <1>11, <1>12, ZenonT(30) DEF OnlyCount
  <2> QED BY <2>1, <2>2, CountTrans, ZenonT(30)
<1>14. a.mediac - 1 \in Int
  BY <1>8, <1>12
<1>15. d \in SessionRec
  BY <1>5, <1>9, <1>14, FieldTypes, ZenonT(30)
<1>16. SameWho(a, d) /\ SameRun(a, d) /\ SameGather(a, d)
  BY <1>5, <1>9 DEF SessionRec, SameWho, SameRun, SameGather
<1>17. SameCheck(a, d) /\ SameTold(a, d)
  BY <1>5, <1>9 DEF SessionRec, SameCheck, SameTold
<1>18. d.moved = a.moved /\ d.mediac = a.mediac - 1 /\ d.comp = a.comp /\ d.addr = a.addr
       /\ d.estabh = a.estabh
  BY <1>5, <1>9 DEF SessionRec
<1>19. OnlyCount(x, d)
  <2>1. OnlyCount(a, d)
    BY <1>15, <1>16, <1>17, <1>18, Zenon DEF OnlyCount
  <2> QED BY <1>13, <2>1, CountTrans, Zenon
<1>20. Exempt(a) /\ Exempt(d)
  BY <1>8, <1>12, <1>13, <1>18, <1>19 DEF Exempt, OnlyCount, SameWho
<1>21. Granted(a) = Granted(x) /\ Granted(d) = Granted(x) /\ Cardinality(Granted(x)) \in Nat
  BY <1>1, <1>7, <1>12, <1>18, WaitingFinite, ZenonT(30) DEF Granted
<1>22. Bounded(a) /\ Bounded(d)
  <2> DEFINE n == Cardinality(Granted(x))
  <2>1. a.medial = x.medial /\ d.medial = x.medial
    BY <1>13, <1>19, Zenon DEF OnlyCount, SameRun
  <2>2. x.mediac <= x.medial /\ x.mediac + n + x.moved >= 0 /\ n \in Nat
    BY <1>1, <1>21, Zenon DEF Bounded
  <2>3. n = Cardinality(Granted(a)) /\ n = Cardinality(Granted(d))
    BY <1>21, Zenon
  <2> HIDE DEF n
  <2>4. a.mediac <= a.medial /\ a.mediac + n + a.moved >= 0
    BY <1>8, <1>12, <2>1, <2>2
  <2>5. d.mediac <= d.medial /\ d.mediac + n + d.moved >= 0
    BY <1>8, <1>12, <1>18, <2>1, <2>2
  <2> QED BY <2>3, <2>4, <2>5, Zenon DEF Bounded
<1>23. Socks(a) = Socks(x) /\ Socks(d) = Socks(x)
  BY <1>13, <1>19, SocksSame, ZenonT(30) DEF OnlyCount, SameWho, SameRun
<1>24. \A e \in Comp : SocketInv(a, e) /\ SocketInv(d, e)
  BY <1>1, <1>7, <1>12, <1>13, <1>18, <1>19, <1>23
     DEF CountInv, SocketInv, OnlyCount, SameWho, SameRun
<1>25. (~a.wait => a.mediac <= 0) /\ (~d.wait => d.mediac < 0 /\ d.mediac <= 0)
  BY <1>1, <1>8, <1>12, <1>13, <1>18, <1>19 DEF CountInv, OnlyCount, SameTold
<1>26. CountInv(a) /\ CountInv(d)
  BY <1>1, <1>13, <1>19, <1>20, <1>24, <1>25, ZenonT(30) DEF CountInv, OnlyCount, SameRun
<1>27. Inv(a) /\ Inv(d) /\ d.at = "up" /\ d.kind \in Counting
  BY <1>1, <1>13, <1>19, <1>20, <1>22, <1>26, CountStep, ZenonT(30) DEF OnlyCount, SameWho, SameRun
<1>28. CASE OtherWaits(x, c)
  BY <1>3, <1>27, <1>28, ZenonT(30)
<1>29. CASE ~OtherWaits(x, c)
  <2>1. y = Counted(a, close)
    BY <1>3, <1>29, ZenonT(30)
  <2> QED BY <1>5, <1>9, <1>25, <1>27, <2>1, CountedInv, ZenonT(30)
<1> QED BY <1>28, <1>29, ZenonT(30)

\* mapped_handler(), for the first answer and for a later one.
LEMMA MappedHandlerInv ==
  ASSUME NEW x, Inv(x), x.at = "up", x.kind = "stun", NEW c \in Comp,
         x.comp[c] = "sent" \/ (x.comp[c] = "done" /\ x.moved < MaxMoved),
         NEW ok \in BOOLEAN, NEW close \in BOOLEAN, NEW y, y = mapped_handler(x, c, ok, close)
  PROVE  Inv(y)
<1>1. x \in SessionRec /\ Sound(x) /\ x.kind \in Counting /\ CountInv(x)
  BY Zenon DEF Inv, Sound, Live, Counting
<1>2. CASE ~ok
  <2>1. y = mnat_handler(x, FALSE, close)
    BY <1>2, Zenon DEF mapped_handler
  <2> QED BY <1>1, <2>1, FailedInv, ZenonT(30)
<1>3. CASE ok /\ x.comp[c] = "sent"
  <2> DEFINE b == Mapped(x, c)
             a == [b EXCEPT !.moved = b.moved]
  <2>1. ~x.addr[c]
    BY <1>1, <1>3, SentFacts, ZenonT(30)
  <2>2. y = IF OtherWaits(x, c) THEN a ELSE Counted(a, close)
    BY <1>3, <2>1, Zenon DEF mapped_handler
  <2>3. b = Mapped(x, c) /\ a = [b EXCEPT !.moved = b.moved]
    BY Zenon
  <2> HIDE DEF a, b
  <2>4. WithAddr(x, c, b)
    BY <1>1, <2>3, MappedNet DEF WithAddr
  <2>5. b \in SessionRec
    BY <2>4, Zenon DEF WithAddr, OnlyNet
  <2>6. a = b
    BY <2>3, <2>5, ZenonT(30) DEF SessionRec
  <2>7. WithAddr(x, c, a)
    BY <2>4, <2>6, Zenon
  <2> QED BY <1>1, <1>3, <2>2, <2>7, GrantInv, ZenonT(30)
<1>4. CASE ok /\ x.comp[c] = "done" /\ x.moved < MaxMoved
  <2>1. y = mapped_handler(x, c, TRUE, close)
    BY <1>4, Zenon
  <2> QED BY <1>4, <2>1, MovedInv, ZenonT(30)
<1> QED BY <1>2, <1>3, <1>4, Zenon

\* tcp_estab_handler(): the request follows.
LEMMA TcpEstabInv ==
  ASSUME NEW x, Inv(x), x.at = "up", x.kind = "turn_tcp", NEW c \in Comp, x.comp[c] = "tcp",
         NEW ok \in BOOLEAN, NEW y, y = tcp_estab_handler(x, c, ok, FALSE)
  PROVE  Inv(y)
<1>1. x \in SessionRec /\ Sound(x) /\ x.kind \in Counting /\ CountInv(x) /\ Bounded(x)
  BY Zenon DEF Inv, Sound, Live, Counting, History, Bounded
<1>2. CASE ~ok
  <2>1. y = mnat_handler(x, FALSE, FALSE)
    BY <1>2, Zenon DEF tcp_estab_handler
  <2> QED BY <1>1, <2>1, FailedInv, ZenonT(30)
<1>3. CASE ok
  <2>1. y = Answered(x, c, "sent") /\ "sent" \in States
    BY <1>3, Zenon DEF tcp_estab_handler, States
  <2>2. OnlyNet(x, y) /\ y.comp = [x.comp EXCEPT ![c] = "sent"] /\ y.addr = x.addr
    <3> DEFINE o == "sent"
    <3>1. o \in States /\ y = Answered(x, c, o)
      BY <2>1, ZenonT(30)
    <3>2. o = "sent"
      BY Zenon
    <3> HIDE DEF o
    <3>3. WithAnswer(x, c, o, y)
      BY <1>1, <3>1, AnsweredNet, ZenonT(30)
    <3> QED BY <3>2, <3>3, ZenonT(30) DEF WithAnswer
  <2>3. OnlyCount(x, y) /\ SameCount(x, y)
    BY <2>2, Zenon DEF OnlyNet, OnlyCount
  <2>4. Socks(y) = Socks(x) /\ (\A m : Of(y, m) = Of(x, m)) /\ y.medial = x.medial
    BY <2>3, SocksSame, ZenonT(30) DEF OnlyCount, SameWho, SameRun
  <2>5. Waiting(y) = Waiting(x) /\ Granted(y) = Granted(x)
    <3>1. Waiting(y) = Waiting(x)
      BY <2>2, <2>4, ZenonT(30) DEF Waiting
    <3>2. Granted(y) = Granted(x)
      BY <2>2, ZenonT(30) DEF Granted
    <3> QED BY <3>1, <3>2, ZenonT(30)
  <2>6. Exempt(y) <=> Exempt(x)
    BY <2>3, ZenonT(30) DEF Exempt, OnlyCount, SameWho, SameCount
  <2>7. Bounded(y)
    BY <1>1, <2>3, <2>4, <2>5, ZenonT(30) DEF Bounded, SameCount
  <2>8. x.comp \in [Comp -> States] /\ c \in Socks(x) /\ x.srv /\ ~x.addr[c]
    BY <1>1, SentFacts, ZenonT(30) DEF SessionRec
  <2>9. ASSUME NEW e \in Comp
        PROVE  SocketInv(y, e)
    <3>1. SocketInv(x, e)
      BY <1>1, Zenon DEF CountInv
    <3>2. CASE e = c
      BY <2>2, <2>3, <2>4, <2>8, <3>2, ZenonT(30) DEF SocketInv, OnlyCount, SameRun
    <3>3. CASE e # c
      <4>1. y.comp[e] = x.comp[e]
        BY <2>2, <2>8, <3>3, ZenonT(30)
      <4> QED BY <2>2, <2>3, <2>4, <3>1, <4>1, ZenonT(30) DEF SocketInv, OnlyCount, SameWho, SameRun
    <3> QED BY <3>2, <3>3, Zenon
  <2>10. CountInv(y)
    BY <1>1, <2>3, <2>5, <2>6, <2>9, ZenonT(30) DEF CountInv, OnlyCount, SameRun, SameTold, SameCount
  <2> QED BY <1>1, <2>3, <2>6, <2>7, <2>10, CountStep, ZenonT(30)
<1> QED BY <1>2, <1>3, ZenonT(30)

\* media_start(): a request for every socket of a medium, or a connection.
StartedComp(x, S, f) ==
  /\ f \in [Comp -> States]
  /\ \A c \in Comp : c \in S => f[c] = "sent" \/ (x.kind = "turn_tcp" /\ f[c] = "tcp")
  /\ \A c \in Comp : c \notin S => f[c] = x.comp[c]

LEMMA MediaStart ==
  ASSUME NEW x \in SessionRec, x.kind \in Counting, NEW m, NEW y, y = media_start(x, m)
  PROVE  y = [x EXCEPT !.comp = y.comp] /\ StartedComp(x, Of(x, m), y.comp)
<1>1. x.comp \in [Comp -> States]
  BY Zenon DEF SessionRec
<1>2. CASE x.kind = "stun"
  <2> DEFINE f == [c \in Comp |-> IF c \in Of(x, m) THEN "sent" ELSE x.comp[c]]
  <2>1. y = [x EXCEPT !.comp = f]
    BY <1>2, Zenon DEF media_start, stun_media_start
  <2>2. StartedComp(x, Of(x, m), f)
    BY <1>1, Zenon DEF StartedComp, States
  <2> HIDE DEF f
  <2>3. y.comp = f
    BY <2>1, ZenonT(30) DEF SessionRec
  <2> QED BY <2>1, <2>2, <2>3, Zenon
<1>3. CASE x.kind # "stun"
  <2> DEFINE f == [c \in Comp |-> IF c \notin Of(x, m) THEN x.comp[c]
                                  ELSE IF x.kind = "turn" THEN "sent" ELSE "tcp"]
  <2>1. y = [x EXCEPT !.comp = f]
    BY <1>3, Zenon DEF media_start, turn_media_start
  <2>2. x.kind = "turn" \/ x.kind = "turn_tcp"
    BY <1>3, Zenon DEF Counting
  <2>3. StartedComp(x, Of(x, m), f)
    BY <1>1, <2>2, ZenonT(30) DEF StartedComp, States
  <2> HIDE DEF f
  <2>4. y.comp = f
    BY <2>1, Zenon DEF SessionRec
  <2> QED BY <2>1, <2>3, <2>4, Zenon
<1> QED BY <1>2, <1>3, Zenon

\* dns_handler(): the server is known, and all media are started.
LEMMA DnsInv ==
  ASSUME NEW x, Inv(x), x.at = "up", x.kind \in Counting, x.dns, NEW ok \in BOOLEAN,
         NEW y, y = dns_handler(x, ok, FALSE)
  PROVE  Inv(y)
<1>1. x \in SessionRec /\ Sound(x) /\ CountInv(x) /\ Bounded(x)
  BY Zenon DEF Inv, Sound, Live, History, Bounded
<1>2. CASE ~ok
  <2>1. y = mnat_handler(x, FALSE, FALSE)
    BY <1>2, Zenon DEF dns_handler
  <2> QED BY <1>1, <2>1, FailedInv, ZenonT(30)
<1>3. CASE ok
  <2> DEFINE f == [c \in Comp |-> IF c \in Socks(x) THEN media_start(x, c[1]).comp[c]
                                  ELSE x.comp[c]]
             a == [x EXCEPT !.srv = TRUE]
             b == [a EXCEPT !.dns = FALSE]
  <2>1. y = [x EXCEPT !.srv = TRUE, !.dns = FALSE, !.comp = f]
    BY <1>3, Zenon DEF dns_handler, StartAll
  <2>2. ASSUME NEW c \in Comp, c \in Socks(x)
        PROVE  /\ f[c] \in States
               /\ f[c] = "sent" \/ (x.kind = "turn_tcp" /\ f[c] = "tcp")
    <3> DEFINE g == media_start(x, c[1]).comp
    <3>1. StartedComp(x, Of(x, c[1]), g)
      BY <1>1, MediaStart, Zenon
    <3>2. f[c] = g[c]
      BY <2>2, Zenon
    <3> HIDE DEF f, g
    <3>3. c \in Of(x, c[1])
      BY <2>2, Zenon DEF Of
    <3> QED BY <3>1, <3>2, <3>3, ZenonT(30) DEF StartedComp
  <2>3. ASSUME NEW c \in Comp, c \notin Socks(x)
        PROVE  f[c] = x.comp[c] /\ f[c] \in States
    BY <1>1, <2>3, Zenon DEF SessionRec
  <2>4. f = [c \in Comp |-> f[c]]
    BY Zenon
  <2>5. y = [b EXCEPT !.comp = f]
    BY <2>1, ZenonT(30)
  <2>6. a = [x EXCEPT !.srv = TRUE] /\ b = [a EXCEPT !.dns = FALSE]
    BY Zenon
  <2> HIDE DEF f, a, b
  <2>7. f \in [Comp -> States]
    BY <2>2, <2>3, <2>4, ZenonT(30)
  <2>8. a \in SessionRec
    BY <1>1, <2>6, FieldTypes, Zenon
  <2>9. b \in SessionRec
    BY <2>6, <2>8, FieldTypes, ZenonT(30)
  <2>10. y \in SessionRec
    BY <2>5, <2>7, <2>9, FieldTypes, ZenonT(30)
  <2>11. SameWho(x, y) /\ SameCount(x, y) /\ SameCheck(x, y)
    <3>1. SameWho(x, y) /\ SameCount(x, y)
      BY <1>1, <2>1, ZenonT(30) DEF SessionRec, SameWho, SameCount
    <3>2. SameCheck(x, y)
      BY <1>1, <2>1, ZenonT(30) DEF SessionRec, SameCheck
    <3> QED BY <3>1, <3>2, ZenonT(30)
  <2>12. SameTold(x, y) /\ y.at = x.at /\ y.medial = x.medial /\ y.tmr = x.tmr
    BY <1>1, <2>1, ZenonT(30) DEF SessionRec, SameTold
  <2>13. y.srv /\ ~y.dns /\ y.comp = f /\ y.addr = x.addr
    BY <1>1, <2>1, ZenonT(30) DEF SessionRec
  <2>14. Socks(y) = Socks(x) /\ \A m : Of(y, m) = Of(x, m)
    BY <2>11, <2>12, SocksSame, ZenonT(30) DEF SameWho
  <2>15. Waiting(y) = Waiting(x) /\ Granted(y) = Granted(x)
    BY <2>12, <2>13, <2>14, ZenonT(30) DEF Waiting, Granted
  <2>16. Exempt(y) <=> Exempt(x)
    BY <2>11, ZenonT(30) DEF Exempt, SameWho, SameCount
  <2>17. Bounded(y)
    BY <1>1, <2>11, <2>12, <2>15, ZenonT(30) DEF Bounded, SameCount
  <2>18. ASSUME NEW c \in Comp
         PROVE  SocketInv(y, c)
    <3>1. ~x.addr[c] /\ x.comp[c] = "off"
      BY <1>1, Zenon DEF CountInv, SocketInv
    <3>2. c \notin Socks(x) => f[c] = "off"
      BY <2>3, <3>1, Zenon
    <3> QED BY <2>2, <2>11, <2>13, <2>14, <3>1, <3>2, ZenonT(30) DEF SocketInv, SameWho
  <2>19. CountInv(y)
    BY <1>1, <2>11, <2>12, <2>13, <2>15, <2>16, <2>18, ZenonT(30) DEF CountInv, SameCount, SameTold
  <2> QED BY <2>10, <2>11, <2>12, <2>16, <2>17, <2>19, CountLive, ZenonT(30)
<1> QED BY <1>2, <1>3, ZenonT(30)

-----------------------------------------------------------------------------
(* Allocation of the streams *)

\* One stream more; after the last one the session is up.
LEMMA AllocatedInv ==
  ASSUME NEW x, Inv(x), x.at = "alloc", NEW y, y \in SessionRec, SameWho(x, y),
         y.at = "alloc", y.medial = x.medial + 1, y.tmr = x.tmr, SameCheck(x, y),
         SameNews(x, y), Exempt(x) => Exempt(y), Live(y), Bounded(y),
         y.kind \notin Counting => y.mediac = 0, NEW z, z = Allocated(y)
  PROVE  Inv(z)
<1>1. /\ x.medial \in Nat /\ x.n \in Nat /\ x.medial < x.n /\ x.wait /\ y.n = x.n /\ y.wait
      /\ y.medial <= y.n
  BY Sizes DEF Inv, Sound, Shape, SessionRec, SameWho, SameNews, Media
<1>2. History(y)
  BY Zenon DEF Inv, Sound, History, SameWho, SameNews, Bounded
<1>3. CASE y.medial # y.n
  <2>1. z = y
    BY <1>3, Zenon DEF Allocated
  <2>2. Shape(y)
    BY <1>1, <1>3 DEF Inv, Sound, Shape, SameWho
  <2> QED BY <1>2, <2>1, <2>2, Zenon DEF Inv, Sound
<1>4. CASE y.medial = y.n
  <2>1. z = [y EXCEPT !.at = "up"]
    BY <1>4, Zenon DEF Allocated
  <2>2. z \in SessionRec
    BY <2>1, FieldTypes, ZenonT(30)
  <2>3. SameWho(y, z) /\ SameCount(y, z) /\ SameGather(y, z)
    BY <2>1 DEF SessionRec, SameWho, SameCount, SameGather
  <2>4. SameCheck(y, z) /\ SameTold(y, z)
    BY <2>1, ZenonT(30) DEF SessionRec, SameCheck, SameTold
  <2>5. /\ z.at = "up" /\ z.medial = y.medial /\ z.srv = y.srv /\ z.dns = y.dns
        /\ z.tmr = y.tmr
    BY <2>1 DEF SessionRec
  <2>6. z.comp = y.comp /\ z.addr = y.addr /\ z.estabh = y.estabh
    BY <2>1, ZenonT(30) DEF SessionRec
  <2>7. Shape(z)
    BY <1>1, <1>4, <2>3, <2>5, ZenonT(30) DEF Inv, Sound, Shape, SameWho
  <2>8. Granted(z) = Granted(y) /\ (Exempt(z) <=> Exempt(y))
    BY <2>3, <2>6, ZenonT(30) DEF Granted, Exempt, SameWho, SameCount
  <2>9. History(z)
    BY <1>2, <2>3, <2>4, <2>5, <2>8, ZenonT(30) DEF History, SameWho, SameCount, SameTold
  <2>10. z.wait
    BY <1>1, <2>4, Zenon DEF SameTold
  <2>11. z.kind \in Counting => CountInv(z)
    BY <2>3, <2>5, <2>6, <2>10, CountKept, Zenon DEF Live, SameWho
  <2>12. z.kind \in Mapping => MapInv(z)
    BY <2>3, <2>5, <2>6, <2>10, ZenonT(30) DEF Live, MapInv, SameWho
  <2>13. z.kind \in Ice => GatherInv(z)
    <3>1. SUFFICES ASSUME z.kind \in Ice
                   PROVE  GatherInv(z)
      BY Zenon
    <3>2. GatherInv(y)
      BY <2>3, <3>1, Zenon DEF Live, SameWho
    <3>3. Socks(z) = Socks(y) /\ \A m : Of(z, m) = Of(y, m)
      BY <2>3, <2>5, SocksSame, ZenonT(30) DEF SameWho
    <3>4. \A m \in Media : Asking(z, m) = Asking(y, m)
      BY <2>6, <3>3, Zenon DEF Asking
    <3>5. \A m \in Media : ~z.gathered[m]
      BY <2>3, <3>2, Zenon DEF GatherInv, SameGather
    <3>6. /\ z.srv => ~z.dns
          /\ z.kind = "ice_host" => ~z.srv /\ ~z.dns
      BY <2>3, <2>5, <3>2, ZenonT(30) DEF GatherInv, SameWho
    <3>7. \A c \in Comp :
             /\ c \notin Socks(z) => z.comp[c] = "off"
             /\ z.comp[c] \in {"off", "sent", "alloc", "done", "failed"}
             /\ z.comp[c] \in {"sent", "alloc"} => z.srv
             /\ c \in Socks(z) /\ z.srv => z.comp[c] # "off"
      BY <2>5, <2>6, <3>2, <3>3, Zenon DEF GatherInv
    <3>8. \A m \in Media : z.nstun[m] = Cardinality(Asking(z, m))
      BY <2>3, <3>2, <3>4, Zenon DEF GatherInv, SameGather
    <3> QED BY <2>10, <3>5, <3>6, <3>7, <3>8, ZenonT(30) DEF GatherInv
  <2>14. Unchecked(y)
    BY <1>1, Zenon DEF Live, CheckInv
  <2>15. Unchecked(z)
    BY <2>4, <2>14, Zenon DEF Unchecked, SameCheck, SameTold
  <2>16. CheckInv(z)
    BY <2>10, <2>15 DEF Unchecked, CheckInv
  <2> QED BY <2>2, <2>7, <2>9, <2>11, <2>12, <2>13, <2>15, <2>16, ZenonT(30) DEF Inv, Sound, Live
<1> QED BY <1>3, <1>4, Zenon

\* The sockets of one stream more.
LEMMA SocksMore ==
  ASSUME NEW x \in SessionRec, NEW y \in SessionRec, y.medial = x.medial + 1, y.rtcp = x.rtcp
  PROVE  /\ Socks(x) \subseteq Socks(y)
         /\ Socks(y) = Socks(x) \cup Of(y, y.medial)
         /\ \A c \in Of(y, y.medial) : c \in Comp /\ c \notin Socks(x)
         /\ \A m \in Media : m # y.medial => Of(y, m) = Of(x, m)
         /\ Of(x, y.medial) = {}
         /\ y.medial \in Media /\ <<y.medial, 1>> \in Of(y, y.medial)
<1>1. x.medial \in Nat /\ y.medial \in Nat /\ y.medial \in Media
  BY Sizes DEF SessionRec, Media
<1>2. \A c \in Comp : c[1] \in Nat /\ (c[1] <= y.medial <=> c[1] <= x.medial \/ c[1] = y.medial)
  BY <1>1, CompParts DEF Media
<1>3. ~(y.medial <= x.medial)
  BY <1>1
<1>4. <<y.medial, 1>> \in Comp
  BY <1>1, Zenon DEF Comp
<1>5. Socks(y) = Socks(x) \cup Of(y, y.medial)
  BY <1>2, <1>3, ZenonT(30) DEF Socks, Of
<1>6. \A c \in Of(y, y.medial) : c \in Comp /\ c \notin Socks(x)
  BY <1>3, Zenon DEF Socks, Of
<1>7. \A m \in Media : m # y.medial => Of(y, m) = Of(x, m)
  BY <1>2, Zenon DEF Socks, Of
<1>8. Of(x, y.medial) = {}
  BY <1>3, Zenon DEF Socks, Of
<1>9. <<y.medial, 1>> \in Of(y, y.medial)
  BY <1>1, <1>4 DEF Socks, Of
<1> QED BY <1>1, <1>5, <1>6, <1>7, <1>8, <1>9, Zenon

\* media_alloc() of the modules that count: one medium more to wait for.
LEMMA MediaAllocInv ==
  ASSUME NEW x, Inv(x), x.at = "alloc", x.kind \in Counting,
         NEW z, z = Allocated(media_alloc(x))
  PROVE  Inv(z)
<1> DEFINE a == [x EXCEPT !.medial = x.medial + 1]
           b == IF x.srv THEN media_start(a, a.medial) ELSE a
           y == [b EXCEPT !.mediac = b.mediac + 1]
           f == b.comp
<1>1. x \in SessionRec /\ CountInv(x) /\ Bounded(x) /\ x.wait
  BY Zenon DEF Inv, Sound, Live, History, Bounded, Shape
<1>2. z = Allocated(y)
  BY Zenon DEF media_alloc
<1>3. x.medial + 1 \in 0..NMedia /\ x.medial \in Nat /\ x.mediac \in Int /\ x.moved \in Nat
  BY <1>1, Sizes DEF Inv, Sound, Shape, SessionRec, Media
<1>4. a = [x EXCEPT !.medial = x.medial + 1]
  BY Zenon
<1>5. b = IF x.srv THEN media_start(a, a.medial) ELSE a
  BY Zenon
<1>6. y = [b EXCEPT !.mediac = b.mediac + 1] /\ f = b.comp
  BY Zenon
<1> HIDE DEF a, b, y, f
<1>7. a \in SessionRec
  BY <1>1, <1>3, <1>4, FieldTypes, ZenonT(30)
<1>8. SameWho(x, a) /\ SameCount(x, a) /\ a.medial = x.medial + 1
  BY <1>1, <1>4, Zenon DEF SessionRec, SameWho, SameCount
<1>9. SameCheck(x, a) /\ SameNews(x, a)
  BY <1>1, <1>4, ZenonT(30) DEF SessionRec, SameCheck, SameNews
<1>10. /\ a.at = x.at /\ a.srv = x.srv /\ a.dns = x.dns /\ a.tmr = x.tmr /\ a.comp = x.comp
       /\ a.addr = x.addr
  BY <1>1, <1>4, ZenonT(30) DEF SessionRec
<1>11. /\ f \in [Comp -> States] /\ b = [a EXCEPT !.comp = f]
       /\ ~x.srv => f = x.comp
       /\ x.srv => StartedComp(a, Of(a, a.medial), f)
  <2>1. CASE x.srv
    <3>1. b = media_start(a, a.medial) /\ a.kind \in Counting
      BY <1>5, <1>8, <2>1, Zenon DEF SameWho
    <3>2. b = [a EXCEPT !.comp = b.comp] /\ StartedComp(a, Of(a, a.medial), b.comp)
      BY <1>7, <3>1, MediaStart, ZenonT(30)
    <3> QED BY <1>6, <2>1, <3>2, Zenon DEF StartedComp
  <2>2. CASE ~x.srv
    <3>1. b = a
      BY <1>5, <2>2, Zenon
    <3>2. f = x.comp /\ f = a.comp
      BY <1>6, <1>10, <3>1, Zenon
    <3>3. a = [a EXCEPT !.comp = a.comp] /\ a.comp \in [Comp -> States]
      BY <1>7, Zenon DEF SessionRec
    <3> QED BY <2>2, <3>1, <3>2, <3>3, ZenonT(30)
  <2> QED BY <2>1, <2>2, Zenon
<1>12. OnlyNet(a, b) /\ b.comp = f /\ b.addr = a.addr
  BY <1>7, <1>11, SetComp
<1>13. b \in SessionRec /\ b.mediac = x.mediac /\ b.mediac + 1 \in Int
  BY <1>3, <1>8, <1>12 DEF OnlyNet, SameCount
<1>14. y \in SessionRec
  BY <1>6, <1>13, FieldTypes, ZenonT(30)
<1>15. SameWho(b, y) /\ SameRun(b, y) /\ y.mediac = b.mediac + 1 /\ y.moved = b.moved
  BY <1>6, <1>13, Zenon DEF SessionRec, SameWho, SameRun
<1>16. SameCheck(b, y) /\ SameNews(b, y) /\ y.comp = b.comp /\ y.addr = b.addr
  BY <1>6, <1>13, ZenonT(30) DEF SessionRec, SameCheck, SameNews
<1>17. SameWho(x, y) /\ SameCheck(x, y)
  BY <1>8, <1>9, <1>12, <1>15, <1>16, ZenonT(30) DEF OnlyNet, SameWho, SameCheck
<1>18. SameNews(x, y)
  BY <1>9, <1>12, <1>16, ZenonT(30) DEF OnlyNet, SameTold, SameNews
<1>19. /\ y.at = x.at /\ y.medial = x.medial + 1 /\ y.srv = x.srv /\ y.dns = x.dns
       /\ y.tmr = x.tmr
  BY <1>8, <1>10, <1>12, <1>15, ZenonT(30) DEF OnlyNet, SameRun
<1>20. y.comp = f /\ y.addr = x.addr /\ y.mediac = x.mediac + 1 /\ y.moved = x.moved
  BY <1>8, <1>10, <1>12, <1>13, <1>15, <1>16, ZenonT(30) DEF OnlyNet, SameCount
<1>21. Exempt(y) <=> Exempt(x)
  BY <1>17, <1>20, Zenon DEF Exempt, SameWho
<1>22. Granted(y) = Granted(x) /\ Cardinality(Granted(x)) \in Nat
  BY <1>1, <1>20, WaitingFinite, ZenonT(30) DEF Granted
<1>23. Bounded(y)
  BY <1>1, <1>3, <1>19, <1>20, <1>22 DEF Bounded
<1>24. /\ Socks(x) \subseteq Socks(y) /\ Socks(y) = Socks(x) \cup Of(y, y.medial)
       /\ \A c \in Of(y, y.medial) : c \in Comp /\ c \notin Socks(x)
       /\ \A m \in Media : m # y.medial => Of(y, m) = Of(x, m)
       /\ y.medial \in Media /\ <<y.medial, 1>> \in Of(y, y.medial)
  BY <1>1, <1>14, <1>17, <1>19, SocksMore, ZenonT(30) DEF SameWho
<1>25. Of(y, y.medial) = Of(a, a.medial)
  BY <1>8, <1>17, <1>19, Zenon DEF Of, Socks, SameWho
<1>26. ASSUME NEW c \in Comp
       PROVE  SocketInv(y, c)
  <2>1. SocketInv(x, c) /\ y.addr[c] = x.addr[c] /\ y.kind = x.kind /\ a.kind = x.kind
    BY <1>1, <1>8, <1>17, <1>20, ZenonT(30) DEF CountInv, SameWho
  <2>2. CASE c \in Of(y, y.medial)
    <3>1. c \notin Socks(x) /\ c \in Socks(y)
      BY <1>24, <2>2, Zenon
    <3>2. x.comp[c] = "off" /\ ~x.addr[c]
      BY <2>1, <3>1, Zenon DEF SocketInv
    <3>3. y.srv => y.comp[c] = "sent" \/ (y.kind = "turn_tcp" /\ y.comp[c] = "tcp")
      BY <1>11, <1>19, <1>20, <1>25, <2>1, <2>2, ZenonT(30) DEF StartedComp
    <3>4. ~y.srv => y.comp[c] = "off"
      BY <1>11, <1>19, <1>20, <3>2, ZenonT(30)
    <3> QED BY <2>1, <3>1, <3>2, <3>3, <3>4, ZenonT(30) DEF SocketInv
  <2>3. CASE c \notin Of(y, y.medial)
    <3>1. c \in Socks(y) <=> c \in Socks(x)
      BY <1>24, <2>3, Zenon
    <3>2. y.comp[c] = x.comp[c]
      BY <1>10, <1>11, <1>20, <1>25, <2>3, ZenonT(30) DEF StartedComp
    <3> QED BY <1>19, <2>1, <3>1, <3>2, Zenon DEF SocketInv
  <2> QED BY <2>2, <2>3, Zenon
<1>27. Waiting(y) = Waiting(x) \cup {y.medial} /\ y.medial \notin Waiting(x)
  <2>1. 1..y.medial = (1..x.medial) \cup {y.medial} /\ y.medial \notin 1..x.medial
    BY <1>3, <1>19
  <2>2. 1..x.medial \subseteq Media
    BY <1>1, Sizes DEF SessionRec, Media
  <2>3. ASSUME NEW m \in 1..x.medial
        PROVE  m \in Waiting(y) <=> m \in Waiting(x)
    <3>1. Of(y, m) = Of(x, m)
      BY <1>24, <2>1, <2>2, Zenon
    <3> QED BY <1>20, <2>1, <3>1, Zenon DEF Waiting
  <2>4. y.medial \in Waiting(y)
    <3>1. ~y.addr[<<y.medial, 1>>]
      <4>1. <<y.medial, 1>> \in Comp /\ <<y.medial, 1>> \notin Socks(x)
        BY <1>24, Zenon
      <4>2. SocketInv(x, <<y.medial, 1>>)
        BY <1>1, <4>1, Zenon DEF CountInv
      <4> QED BY <1>20, <4>1, <4>2, Zenon DEF SocketInv
    <3> QED BY <1>24, <2>1, <3>1, Zenon DEF Waiting
  <2>5. Waiting(y) \subseteq 1..y.medial /\ Waiting(x) \subseteq 1..x.medial
    BY Zenon DEF Waiting
  <2> QED BY <2>1, <2>3, <2>4, <2>5, Zenon
<1>28. ~Exempt(y) => y.mediac = Cardinality(Waiting(y))
  <2>1. Cardinality(Waiting(y)) = Cardinality(Waiting(x)) + 1
    BY <1>1, <1>27, WaitingFinite, FS_AddElement, ZenonT(30)
  <2> QED BY <1>1, <1>20, <1>21, <2>1, Zenon DEF CountInv
<1>29. CountInv(y)
  BY <1>1, <1>18, <1>19, <1>26, <1>28, ZenonT(30) DEF CountInv, SameNews
<1>30. x.kind \notin Ice /\ x.kind \notin Mapping /\ y.kind = x.kind
  BY <1>17, Zenon DEF Counting, Ice, Mapping, SameWho
<1>31. Unchecked(y)
  BY <1>17, <1>18, <1>30, ZenonT(30) DEF Inv, Live, Unchecked, SameCheck, SameNews
<1>32. Live(y)
  BY <1>29, <1>30, <1>31, ZenonT(30) DEF Live
<1> QED BY <1>2, <1>14, <1>17, <1>18, <1>19, <1>21, <1>23, <1>30, <1>32, AllocatedInv, ZenonT(30)

\* tcp_recv_handler(): a message for the TURN client, or one that is no message.
LEMMA TcpRecvInv ==
  ASSUME NEW x, Inv(x), x.at = "up", x.kind = "turn_tcp", NEW c \in Comp,
         NEW o \in {"ok", "err", "bad"}, o = "ok" => x.comp[c] = "sent",
         NEW close \in BOOLEAN, NEW y, y = tcp_recv_handler(x, c, o, close)
  PROVE  Inv(y)
<1> DEFINE ok == o = "ok"
           t == turn_handler(x, c, ok, close)
           p == "turn_tcp_recv"
<1>1. Sound(x) /\ x.kind \in Counting
  BY Zenon DEF Inv, Counting
<1>2. CASE o = "bad"
  <2>1. y = mnat_handler(x, FALSE, close)
    BY <1>2, Zenon DEF tcp_recv_handler
  <2> QED BY <1>1, <2>1, FailedInv, ZenonT(30)
<1>3. CASE o # "bad"
  <2>1. y = GoesOn(t, t, p) /\ p \in Places
    BY <1>3, Zenon DEF tcp_recv_handler, Places
  <2>2. t = turn_handler(x, c, ok, close) /\ ok \in BOOLEAN /\ (ok => x.comp[c] = "sent")
    BY Zenon
  <2> HIDE DEF t, ok, p
  <2>3. Inv(t)
    BY <1>1, <2>2, TurnHandlerInv, Zenon
  <2> QED BY <2>1, <2>3, GoesOnInv, Zenon
<1> QED BY <1>2, <1>3, Zenon

-----------------------------------------------------------------------------
(* The modules with mappings *)

LEMMA MapStep ==
  ASSUME NEW x, Inv(x), x.at # "gone", x.kind \in Mapping, NEW y \in SessionRec,
         SameWho(x, y), SameRun(x, y), SameCount(x, y), SameCheck(x, y), SameNews(x, y),
         ~y.wait => ~y.estabh
  PROVE  Inv(y) /\ y.at = x.at
<1>1. x.kind \notin Ice /\ x.kind \notin Counting /\ y.kind = x.kind
  BY Zenon DEF Counting, Ice, Mapping, SameWho
<1>2. Cardinality(Granted(y)) \in Nat
  BY WaitingFinite, Zenon
<1>3. y.mediac = 0 /\ y.moved \in Nat /\ y.medial \in Nat
  BY <1>1, Sizes DEF Inv, Sound, History, SameCount, SessionRec
<1>4. Exempt(y) <=> Exempt(x)
  BY Zenon DEF Exempt, SameWho, SameCount
<1>5. y.mediac <= y.medial /\ y.mediac + Cardinality(Granted(y)) + y.moved >= 0
  BY <1>2, <1>3
<1>6. History(y)
  BY <1>3, <1>4, <1>5, Zenon DEF Inv, Sound, History, SameWho, SameNews
<1>7. Shape(y) /\ y.at = x.at
  BY Zenon DEF Inv, Sound, Shape, SameWho, SameRun, SameNews
<1>8. MapInv(y)
  BY Zenon DEF Inv, Live, MapInv, SameRun
<1>9. Unchecked(y)
  BY <1>1, Zenon DEF Inv, Live, Unchecked, SameCheck, SameNews
<1> QED BY <1>1, <1>6, <1>7, <1>8, <1>9, ZenonT(30) DEF Inv, Sound, Live

LEMMA MapNet ==
  ASSUME NEW x, Inv(x), x.at # "gone", x.kind \in Mapping, NEW y, OnlyNet(x, y)
  PROVE  Inv(y) /\ y.at = x.at /\ y.kind = x.kind
<1>1. y \in SessionRec /\ SameNews(x, y) /\ y.kind = x.kind
  BY Zenon DEF OnlyNet, SameTold, SameNews, SameWho
<1>2. ~y.wait => ~y.estabh
  BY Zenon DEF Inv, Live, MapInv, OnlyNet, SameTold
<1> QED BY <1>1, <1>2, MapStep, Zenon DEF OnlyNet

\* complete(): only the first call reports.
LEMMA CompleteInv ==
  ASSUME NEW x, Inv(x), x.at # "gone", x.kind \in Mapping, NEW ok \in BOOLEAN,
         ok => x.at = "up" /\ \A c \in Socks(x) : x.addr[c],
         NEW close \in BOOLEAN, NEW y, y = complete(x, ok, close)
  PROVE  Inv(y)
<1> DEFINE a == [x EXCEPT !.estabh = FALSE]
<1>1. x \in SessionRec /\ MapInv(x)
  BY Zenon DEF Inv, Sound, Live
<1>2. CASE ~x.estabh
  BY <1>2, Zenon DEF complete
<1>3. CASE x.estabh
  <2>1. y = mnat_handler(a, ok, close)
    BY <1>3, Zenon DEF complete
  <2>2. x.wait
    BY <1>1, <1>3, Zenon DEF MapInv
  <2>3. a \in SessionRec
    BY <1>1, FieldTypes, ZenonT(30)
  <2>4. SameWho(x, a) /\ SameRun(x, a) /\ SameCount(x, a)
    BY <1>1, ZenonT(30) DEF SessionRec, SameWho, SameRun, SameCount
  <2>5. SameCheck(x, a) /\ SameNews(x, a)
    BY <1>1, ZenonT(30) DEF SessionRec, SameCheck, SameNews
  <2>6. ~a.estabh /\ a.addr = x.addr
    BY <1>1, Zenon DEF SessionRec
  <2> HIDE DEF a
  <2>7. Inv(a) /\ a.at = x.at
    BY <2>3, <2>4, <2>5, <2>6, MapStep, ZenonT(30)
  <2>8. CASE ~ok
    <3>1. y = mnat_handler(a, FALSE, close)
      BY <2>1, <2>8, ZenonT(30)
    <3> QED BY <2>7, <3>1, FailedInv, ZenonT(30) DEF Inv
  <2>9. CASE ok
    <3>1. y = mnat_handler(a, TRUE, close)
      BY <2>1, <2>9, Zenon
    <3>2. Socks(a) = Socks(x)
      BY <2>4, SocksSame, Zenon DEF SameWho, SameRun
    <3>3. Pending(a) = {}
      BY <2>6, <2>9, <3>2, Zenon DEF Pending
    <3>4. a.kind \notin Counting /\ a.kind \notin Ice /\ a.wait
      BY <2>2, <2>4, <2>5, Zenon DEF Mapping, Counting, Ice, SameWho, SameNews
    <3>5. Sound(a) /\ Live(a) /\ a.at = "up"
      BY <2>7, <2>9, ZenonT(30) DEF Inv
    <3> QED BY <2>6, <3>1, <3>3, <3>4, <3>5, ReportInv, ZenonT(30)
  <2> QED BY <2>8, <2>9, Zenon
<1> QED BY <1>2, <1>3, Zenon

LEMMA IsCompleteInv ==
  ASSUME NEW x, Inv(x), x.at = "up", x.kind \in Mapping,
         NEW close \in BOOLEAN, NEW y, y = is_complete(x, close)
  PROVE  Inv(y)
<1>1. CASE \A c \in Socks(x) : x.addr[c]
  <2> DEFINE ok == TRUE
  <2>1. y = complete(x, ok, close) /\ ok \in BOOLEAN /\ x.at # "gone"
    BY <1>1, ZenonT(30) DEF is_complete
  <2> HIDE DEF ok
  <2> QED BY <1>1, <2>1, CompleteInv, ZenonT(30)
<1>2. CASE ~\A c \in Socks(x) : x.addr[c]
  BY <1>2, Zenon DEF is_complete
<1> QED BY <1>1, <1>2, ZenonT(30)

\* The answer to one component, without its consequences.
LEMMA AnsweredMap ==
  ASSUME NEW x, Inv(x), x.at # "gone", x.kind \in Mapping, NEW c \in Comp, NEW o \in States,
         NEW y, y = Answered(x, c, o)
  PROVE  Inv(y) /\ y.at = x.at /\ y.kind = x.kind
<1>1. WithAnswer(x, c, o, y)
  BY AnsweredNet, Zenon DEF Inv, Sound
<1> QED BY <1>1, MapNet, ZenonT(30) DEF WithAnswer

LEMMA ErrorInv ==
  ASSUME NEW x, Inv(x), x.at # "gone", x.kind \in Mapping, NEW c \in Comp,
         NEW close \in BOOLEAN, NEW y, y = complete(Answered(x, c, "failed"), FALSE, close)
  PROVE  Inv(y)
<1> DEFINE o == "failed"
           ok == FALSE
           a == Answered(x, c, o)
<1>1. o \in States /\ a = Answered(x, c, o)
  BY Zenon DEF States
<1>2. y = complete(a, ok, close) /\ ok \in BOOLEAN /\ ~ok
  BY Zenon
<1> HIDE DEF o, a, ok
<1>3. Inv(a) /\ a.at = x.at /\ a.kind = x.kind
  BY <1>1, AnsweredMap
<1> QED BY <1>2, <1>3, CompleteInv, ZenonT(30)

\* natpmp_resp_handler()
LEMMA NatpmpRespInv ==
  ASSUME NEW x, Inv(x), x.at # "gone", x.kind \in Mapping, NEW c \in Comp,
         NEW o \in {"err", "stray", "ok"}, o = "ok" => x.at = "up",
         NEW close \in BOOLEAN, NEW y, y = natpmp_resp_handler(x, c, o, close)
  PROVE  Inv(y)
<1>1. CASE o = "err"
  <2>1. y = complete(Answered(x, c, "failed"), FALSE, close)
    BY <1>1, Zenon DEF natpmp_resp_handler
  <2> QED BY <2>1, ErrorInv, ZenonT(30)
<1>2. CASE o = "stray"
  <2> DEFINE v == "lost"
  <2>1. y = Answered(x, c, v) /\ v \in States
    BY <1>2, Zenon DEF natpmp_resp_handler, States
  <2> HIDE DEF v
  <2> QED BY <2>1, AnsweredMap, Zenon
<1>3. CASE o = "ok"
  <2> DEFINE a == Mapped(x, c)
  <2>1. y = is_complete(a, close) /\ a = Mapped(x, c) /\ x.at = "up"
    BY <1>3, Zenon DEF natpmp_resp_handler
  <2> HIDE DEF a
  <2>2. OnlyNet(x, a)
    BY <2>1, MappedNet, ZenonT(30) DEF Inv, Sound
  <2>3. Inv(a) /\ a.at = "up" /\ a.kind \in Mapping
    BY <2>1, <2>2, MapNet, ZenonT(30)
  <2> QED BY <2>1, <2>3, IsCompleteInv, Zenon
<1> QED BY <1>1, <1>2, <1>3, Zenon

\* CheckInv depends on the checks and on what the call was told.
LEMMA CheckKept ==
  ASSUME NEW x, CheckInv(x), NEW y, SameWho(x, y), y.medial = x.medial, SameCheck(x, y),
         SameNews(x, y)
  PROVE  CheckInv(y)
<1>1. all_completed(y) <=> all_completed(x)
  BY Zenon DEF all_completed, SameCheck
<1>2. Unchecked(x) => Unchecked(y)
  BY Zenon DEF Unchecked, SameCheck, SameNews
<1> QED BY <1>1, <1>2, ZenonT(30) DEF CheckInv, SameWho, SameCheck, SameNews

\* What the invariant does not speak of may change.
LEMMA SameInv ==
  ASSUME NEW x, Inv(x), NEW y \in SessionRec, SameWho(x, y), SameRun(x, y), SameCount(x, y),
         SameGather(x, y), SameCheck(x, y), SameNews(x, y), y.comp = x.comp, y.addr = x.addr,
         x.kind \in Mapping => y.estabh = x.estabh
  PROVE  Inv(y)
<1>1. Granted(y) = Granted(x) /\ (Exempt(y) <=> Exempt(x))
  BY Zenon DEF Granted, Exempt, SameWho, SameCount
<1>2. History(y)
  BY <1>1, Zenon DEF Inv, Sound, History, SameWho, SameCount, SameRun, SameNews
<1>3. Shape(y)
  BY Zenon DEF Inv, Sound, Shape, SameWho, SameRun, SameNews
<1>4. ASSUME x.at # "gone"
      PROVE  Live(y)
  <2>1. Live(x)
    BY <1>4, Zenon DEF Inv
  <2>2. x.kind \in Counting => CountInv(y)
    <3>1. CountInv(x) => (~y.wait => y.mediac <= 0)
      BY Zenon DEF CountInv, SameNews, SameCount
    <3> QED BY <2>1, <3>1, CountKept, ZenonT(30) DEF Live, SameRun
  <2>3. x.kind \in Mapping => MapInv(y)
    BY <2>1, Zenon DEF Live, MapInv, SameRun, SameNews
  <2>4. x.kind \in Ice => GatherInv(y)
    <3>1. all_gathered(y) <=> all_gathered(x)
      BY Zenon DEF all_gathered, SameRun, SameGather
    <3>2. GatherInv(x) => (~y.wait => y.at = "up" /\ all_gathered(y))
      BY <3>1, Zenon DEF GatherInv, SameRun, SameNews
    <3> QED BY <2>1, <3>2, GatherKept, Zenon DEF Live
  <2>5. Unchecked(x) => Unchecked(y)
    BY Zenon DEF Unchecked, SameCheck, SameNews
  <2>6. x.kind \in Ice => CheckInv(y)
    BY <2>1, CheckKept, ZenonT(30) DEF Live, SameRun
  <2> QED BY <2>1, <2>2, <2>3, <2>4, <2>5, <2>6, ZenonT(30) DEF Live, SameWho
<1> QED BY <1>2, <1>3, <1>4, ZenonT(30) DEF Inv, Sound, SameRun

\* A note in the history.
LEMMA StaleInv ==
  ASSUME NEW x, Inv(x), NEW p \in Places, NEW y, y = [x EXCEPT !.stale = p]
  PROVE  Inv(y)
<1>1. x \in SessionRec
  BY Zenon DEF Inv, Sound
<1>2. y \in SessionRec
  BY <1>1, FieldTypes, ZenonT(30)
<1>3. SameWho(x, y) /\ SameRun(x, y) /\ SameCount(x, y)
  BY <1>1, ZenonT(30) DEF SessionRec, SameWho, SameRun, SameCount
<1>4. SameGather(x, y) /\ SameCheck(x, y)
  BY <1>1, Zenon DEF SessionRec, SameGather, SameCheck
<1>5. SameNews(x, y) /\ y.comp = x.comp /\ y.addr = x.addr /\ y.estabh = x.estabh
  BY <1>1, Zenon DEF SessionRec, SameNews
<1> QED BY <1>2, <1>3, <1>4, <1>5, SameInv, ZenonT(30)

\* natpmp_mapping_request(), by the timer.
LEMMA RefreshInv ==
  ASSUME NEW x, Inv(x), x.at = "up", x.kind \in Mapping, NEW c \in Comp,
         NEW o \in {"sent", "error", "fails"}, NEW close \in BOOLEAN,
         NEW y, y = refresh_timeout(x, c, o, close)
  PROVE  Inv(y)
<1>1. CASE o # "fails"
  <2> DEFINE v == IF o = "sent" THEN "sent" ELSE "failed"
  <2>1. y = Answered(x, c, v) /\ v \in States
    BY <1>1, Zenon DEF refresh_timeout, natpmp_mapping_request, States
  <2> HIDE DEF v
  <2> QED BY <2>1, AnsweredMap, ZenonT(30)
<1>2. CASE o = "fails"
  <2> DEFINE e == complete(Answered(x, c, "failed"), FALSE, close)
             p == "natpmp_send"
  <2>1. y = [e EXCEPT !.stale = p] /\ p \in Places
    BY <1>2, ZenonT(30) DEF refresh_timeout, natpmp_mapping_request, natpmp_resp_handler, Places
  <2>2. e = complete(Answered(x, c, "failed"), FALSE, close)
    BY Zenon
  <2> HIDE DEF e, p
  <2>3. Inv(e)
    BY <2>2, ErrorInv, ZenonT(30)
  <2> QED BY <2>1, <2>3, StaleInv, ZenonT(30)
<1> QED BY <1>1, <1>2, Zenon

\* pcp_resp_handler()
LEMMA PcpRespInv ==
  ASSUME NEW x, Inv(x), x.at = "up", x.kind \in Mapping, NEW c \in Comp, NEW ok \in BOOLEAN,
         NEW e \in {0, 1}, NEW close \in BOOLEAN,
         NEW y, y = pcp_resp_handler(x, c, Outcome(ok), e, close)
  PROVE  Inv(y)
<1>1. x \in SessionRec
  BY Zenon DEF Inv, Sound
<1>2. CASE ~ok
  <2>1. y = complete(Answered(x, c, "failed"), FALSE, close)
    BY <1>2, Zenon DEF pcp_resp_handler, Outcome
  <2> QED BY <2>1, ErrorInv, ZenonT(30)
<1>3. CASE ok
  <2> DEFINE a == Mapped(x, c)
             f == [a.epoch EXCEPT ![c[1]] = e]
             b == [a EXCEPT !.epoch = f]
  <2>1. y = is_complete(b, close)
    BY <1>3, Zenon DEF pcp_resp_handler, Outcome
  <2>2. a = Mapped(x, c)
    BY Zenon
  <2>3. b = [a EXCEPT !.epoch = f] /\ f = [a.epoch EXCEPT ![c[1]] = e]
    BY Zenon
  <2> HIDE DEF a, b, f
  <2>4. OnlyNet(x, a) /\ a \in SessionRec
    BY <1>1, <2>2, MappedNet, ZenonT(30) DEF OnlyNet
  <2>5. Inv(a) /\ a.at = "up" /\ a.kind \in Mapping
    BY <2>4, MapNet, Zenon
  <2>6. f \in [Media -> {0, 1}]
    BY <2>3, <2>4, ZenonT(30) DEF SessionRec
  <2>7. b \in SessionRec
    BY <2>3, <2>4, <2>6, FieldTypes, ZenonT(30)
  <2>8. SameWho(a, b) /\ SameRun(a, b) /\ SameCount(a, b)
    BY <2>3, <2>4, Zenon DEF SessionRec, SameWho, SameRun, SameCount
  <2>9. SameCheck(a, b) /\ SameNews(a, b) /\ b.estabh = a.estabh
    BY <2>3, <2>4, Zenon DEF SessionRec, SameCheck, SameNews
  <2>10. ~b.wait => ~b.estabh
    BY <2>5, <2>9, Zenon DEF Inv, Live, MapInv, SameNews
  <2>11. Inv(b) /\ b.at = "up" /\ b.kind \in Mapping
    BY <2>5, <2>7, <2>8, <2>9, <2>10, MapStep, ZenonT(30) DEF SameWho
  <2> QED BY <2>1, <2>11, IsCompleteInv, ZenonT(30)
<1> QED BY <1>2, <1>3, Zenon

\* refresh_session(): the mappings are asked for again.
LEMMA RefreshSessionInv ==
  ASSUME NEW x, Inv(x), x.at = "up", x.kind \in Mapping, NEW e \in {0, 1},
         NEW y, y = refresh_session(x, e)
  PROVE  Inv(y)
<1> DEFINE f == [c \in Comp |-> IF c \in Socks(x) /\ e < x.epoch[c[1]] /\ x.comp[c] = "done"
                                THEN "sent" ELSE x.comp[c]]
           g == [m \in Media |-> IF m <= x.medial THEN e ELSE x.epoch[m]]
           a == [x EXCEPT !.comp = f]
<1>1. x \in SessionRec
  BY Zenon DEF Inv, Sound
<1>2. f \in [Comp -> States] /\ g \in [Media -> {0, 1}]
  BY <1>1, Zenon DEF SessionRec, States
<1>3. y = [x EXCEPT !.comp = f, !.epoch = g]
  BY Zenon DEF refresh_session
<1>4. a = [x EXCEPT !.comp = f]
  BY Zenon
<1> HIDE DEF f, g
<1>5. y = [a EXCEPT !.epoch = g]
  BY <1>3, Zenon
<1> HIDE DEF a
<1>6. a \in SessionRec
  BY <1>1, <1>2, <1>4, FieldTypes, ZenonT(30)
<1>7. y \in SessionRec
  <2>1. \A v \in [Media -> {0, 1}] : [a EXCEPT !.epoch = v] \in SessionRec
    BY <1>6, FieldTypes, ZenonT(30)
  <2> QED BY <1>2, <1>5, <2>1, ZenonT(30)
<1>8. SameWho(x, y) /\ SameRun(x, y) /\ SameCount(x, y)
  BY <1>1, <1>3 DEF SessionRec, SameWho, SameRun, SameCount
<1>9. SameCheck(x, y) /\ SameNews(x, y) /\ y.estabh = x.estabh
  BY <1>1, <1>3 DEF SessionRec, SameCheck, SameNews
<1>10. ~y.wait => ~y.estabh
  BY <1>9, Zenon DEF Inv, Live, MapInv, SameNews
<1> QED BY <1>7, <1>8, <1>9, <1>10, MapStep, ZenonT(30)

\* A medium more, with a request for each of its sockets.
WithMedium(x, y) ==
  /\ y \in SessionRec /\ SameWho(x, y) /\ SameCount(x, y) /\ SameCheck(x, y)
  /\ SameNews(x, y) /\ y.estabh = x.estabh /\ y.at = "alloc"
  /\ y.medial = x.medial + 1 /\ y.tmr = x.tmr /\ y.dns = x.dns

LEMMA MapMore ==
  ASSUME NEW x, Inv(x), x.at = "alloc", x.kind \in Mapping, NEW f \in [Comp -> States],
         NEW y, y = [x EXCEPT !.medial = x.medial + 1, !.comp = f]
  PROVE  WithMedium(x, y)
<1> DEFINE a == [x EXCEPT !.medial = x.medial + 1]
<1>1. x \in SessionRec
  BY Zenon DEF Inv, Sound
<1>2. x.medial + 1 \in 0..NMedia
  BY <1>1, Sizes DEF Inv, Sound, Shape, SessionRec, Media
<1>3. a = [x EXCEPT !.medial = x.medial + 1]
  BY Zenon
<1>4. y = [a EXCEPT !.comp = f]
  BY Zenon
<1> HIDE DEF a
<1>5. a \in SessionRec
  BY <1>1, <1>2, <1>3, FieldTypes, ZenonT(30)
<1>6. y \in SessionRec
  <2>1. \A v \in [Comp -> States] : [a EXCEPT !.comp = v] \in SessionRec
    BY <1>5, FieldTypes, ZenonT(30)
  <2> QED BY <1>4, <2>1, Zenon
<1>7. SameWho(x, y) /\ SameCount(x, y) /\ SameCheck(x, y)
  <2>1. SameWho(x, y) /\ SameCount(x, y)
    BY <1>1, Zenon DEF SessionRec, SameWho, SameCount
  <2>2. SameCheck(x, y)
    BY <1>1, Zenon DEF SessionRec, SameCheck
  <2> QED BY <2>1, <2>2, Zenon
<1>8. SameNews(x, y) /\ y.estabh = x.estabh /\ y.at = "alloc"
  BY <1>1, Zenon DEF SessionRec, SameNews
<1>9. y.medial = x.medial + 1 /\ y.tmr = x.tmr /\ y.dns = x.dns
  BY <1>1, Zenon DEF SessionRec
<1> QED BY <1>6, <1>7, <1>8, <1>9, Zenon DEF WithMedium

\* It is counted as allocated.
LEMMA MapAllocated ==
  ASSUME NEW x, Inv(x), x.at = "alloc", x.kind \in Mapping, NEW y \in SessionRec,
         SameWho(x, y), SameCount(x, y), SameCheck(x, y), SameNews(x, y),
         y.estabh = x.estabh, y.at = "alloc", y.medial = x.medial + 1, y.tmr = x.tmr,
         y.dns = x.dns, NEW z, z = Allocated(y)
  PROVE  Inv(z)
<1>1. x.kind \notin Ice /\ x.kind \notin Counting /\ y.kind = x.kind
  BY Zenon DEF Counting, Ice, Mapping, SameWho
<1>2. Cardinality(Granted(y)) \in Nat
  BY WaitingFinite, ZenonT(30)
<1>3. y.mediac = 0 /\ y.moved \in Nat /\ y.medial \in Nat
  BY <1>1, Sizes DEF Inv, Sound, History, SameCount, SessionRec
<1>4. Bounded(y)
  BY <1>2, <1>3 DEF Bounded
<1>5. Exempt(x) => Exempt(y)
  BY Zenon DEF Exempt, SameWho, SameCount
<1>6. MapInv(y)
  BY Zenon DEF Inv, Live, MapInv, SameNews
<1>7. Unchecked(y)
  BY <1>1, Zenon DEF Inv, Live, Unchecked, SameCheck, SameNews
<1>8. Live(y)
  BY <1>1, <1>6, <1>7, Zenon DEF Live
<1> QED BY <1>3, <1>4, <1>5, <1>8, AllocatedInv, ZenonT(30)

\* The sockets of the new medium are asked for.
LEMMA SentComp ==
  ASSUME NEW x \in SessionRec, NEW S, NEW f,
         f = [c \in Comp |-> IF c \in S THEN "sent" ELSE x.comp[c]]
  PROVE  f \in [Comp -> States]
BY Zenon DEF SessionRec, States

\* pcp_media_alloc()
LEMMA PcpAllocInv ==
  ASSUME NEW x, Inv(x), x.at = "alloc", x.kind \in Mapping,
         NEW z, z = Allocated(pcp_media_alloc(x))
  PROVE  Inv(z)
<1> DEFINE a == [x EXCEPT !.medial = x.medial + 1]
           f == [c \in Comp |-> IF c \in Of(a, a.medial) THEN "sent" ELSE x.comp[c]]
           y == [x EXCEPT !.medial = x.medial + 1, !.comp = f]
<1>1. x \in SessionRec
  BY Zenon DEF Inv, Sound
<1>2. a.comp = x.comp
  BY <1>1, Zenon DEF SessionRec
<1>3. pcp_media_alloc(x) = y
  BY <1>2, Zenon DEF pcp_media_alloc
<1>4. f \in [Comp -> States]
  BY <1>1, SentComp, ZenonT(30)
<1>5. y = [x EXCEPT !.medial = x.medial + 1, !.comp = f]
  BY Zenon
<1> HIDE DEF a, f, y
<1>6. /\ y \in SessionRec /\ SameWho(x, y) /\ SameCount(x, y) /\ SameCheck(x, y)
      /\ SameNews(x, y) /\ y.estabh = x.estabh /\ y.at = "alloc"
      /\ y.medial = x.medial + 1 /\ y.tmr = x.tmr /\ y.dns = x.dns
  <2>1. WithMedium(x, y)
    BY <1>4, <1>5, MapMore, ZenonT(30)
  <2> QED BY <2>1, Zenon DEF WithMedium
<1> QED BY <1>3, <1>6, MapAllocated, ZenonT(30)

\* natpmp_media_alloc(): the last request may not be sent.
LEMMA NatpmpAllocInv ==
  ASSUME NEW x, Inv(x), x.at = "alloc", x.kind \in Mapping, NEW o \in {"sent", "fails"},
         NEW z, z = Allocated(natpmp_media_alloc(x, o, FALSE))
  PROVE  Inv(z)
<1> DEFINE a == [x EXCEPT !.medial = x.medial + 1]
           f == [c \in Comp |-> IF c \in Of(a, a.medial) THEN "sent" ELSE x.comp[c]]
           y == [x EXCEPT !.medial = x.medial + 1, !.comp = f]
           last == <<x.medial + 1, IF x.rtcp THEN 2 ELSE 1>>
           v == IF o = "sent" THEN "sent" ELSE "failed"
           g == Answered(y, last, v)
<1>1. x \in SessionRec
  BY Zenon DEF Inv, Sound
<1>2. a.comp = x.comp /\ a.medial = x.medial + 1
  BY <1>1, ZenonT(30) DEF SessionRec
<1>3. natpmp_media_alloc(x, o, FALSE) = natpmp_mapping_request(y, last, o, FALSE)
  BY <1>2, Zenon DEF natpmp_media_alloc
<1>4. f \in [Comp -> States]
  BY <1>1, SentComp, ZenonT(30)
<1>5. last \in Comp
  <2>1. x.medial + 1 \in Media
    BY <1>1, Sizes DEF Inv, Sound, Shape, SessionRec, Media
  <2> QED BY <2>1, Zenon DEF Comp
<1>6. v \in States
  BY Zenon DEF States
<1>7. y = [x EXCEPT !.medial = x.medial + 1, !.comp = f]
  BY Zenon
<1>8. g = Answered(y, last, v) /\ (o = "sent" => v = "sent") /\ (o = "fails" => v = "failed")
  BY Zenon
<1> HIDE DEF a, f, y, last, v, g
<1>9. /\ y \in SessionRec /\ SameWho(x, y) /\ SameCount(x, y) /\ SameCheck(x, y)
      /\ SameNews(x, y) /\ y.estabh = x.estabh /\ y.at = "alloc"
      /\ y.medial = x.medial + 1 /\ y.tmr = x.tmr /\ y.dns = x.dns
  <2>1. WithMedium(x, y)
    BY <1>4, <1>7, MapMore, Zenon
  <2> QED BY <2>1, Zenon DEF WithMedium
<1>10. OnlyNet(y, g) /\ g.addr = y.addr
  <2>1. WithAnswer(y, last, v, g)
    BY <1>5, <1>6, <1>8, <1>9, AnsweredNet, ZenonT(30)
  <2> QED BY <2>1, Zenon DEF WithAnswer
<1>11. g \in SessionRec /\ SameWho(x, g) /\ SameCount(x, g)
  BY <1>9, <1>10, ZenonT(30) DEF OnlyNet, SameWho, SameCount
<1>12. SameCheck(x, g) /\ SameNews(x, g) /\ g.estabh = x.estabh
  BY <1>9, <1>10, Zenon DEF OnlyNet, SameCheck, SameTold, SameNews
<1>13. g.at = "alloc" /\ g.medial = x.medial + 1 /\ g.tmr = x.tmr /\ g.dns = x.dns
  BY <1>9, <1>10, Zenon DEF OnlyNet, SameRun
<1>14. CASE o = "sent"
  <2>1. z = Allocated(g)
    BY <1>3, <1>8, <1>14, ZenonT(30) DEF natpmp_mapping_request
  <2> QED BY <1>11, <1>12, <1>13, <2>1, MapAllocated, ZenonT(30)
<1>15. CASE o = "fails"
  <2> DEFINE e == complete(g, FALSE, FALSE)
             p == "natpmp_send"
             t == [e EXCEPT !.stale = p]
  <2>1. z = Allocated(t)
    BY <1>3, <1>8, <1>15, ZenonT(30) DEF natpmp_mapping_request, natpmp_resp_handler
  <2>2. p \in Places
    BY Zenon DEF Places
  <2>3. t = [e EXCEPT !.stale = p] /\ e = complete(g, FALSE, FALSE)
    BY Zenon
  <2> HIDE DEF e, p, t
  <2>4. CASE ~g.estabh
    <3>1. e = g
      BY <2>3, <2>4, Zenon DEF complete
    <3>2. t \in SessionRec
      BY <1>11, <2>2, <2>3, <3>1, FieldTypes, ZenonT(30)
    <3>3. SameWho(g, t) /\ SameCount(g, t) /\ SameRun(g, t)
      BY <1>11, <2>3, <3>1, ZenonT(30) DEF SessionRec, SameWho, SameCount, SameRun
    <3>4. SameCheck(g, t) /\ SameNews(g, t) /\ t.estabh = g.estabh
      BY <1>11, <2>3, <3>1, ZenonT(30) DEF SessionRec, SameCheck, SameNews
    <3>5. SameWho(x, t) /\ SameCount(x, t)
      BY <1>11, <3>3, Zenon DEF SameWho, SameCount
    <3>6. SameCheck(x, t) /\ SameNews(x, t) /\ t.estabh = x.estabh
      BY <1>12, <3>4, Zenon DEF SameCheck, SameNews
    <3>7. t.at = "alloc" /\ t.medial = x.medial + 1 /\ t.tmr = x.tmr /\ t.dns = x.dns
      BY <1>13, <3>3, Zenon DEF SameRun
    <3> QED BY <2>1, <3>2, <3>5, <3>6, <3>7, MapAllocated, ZenonT(30)
  <2>5. CASE g.estabh
    <3> DEFINE k == [g EXCEPT !.estabh = FALSE]
               h == [k EXCEPT !.failed = TRUE]
               u == Allocated(y)
    <3>1. e = Released(h)
      BY <2>3, <2>5, ZenonT(30) DEF complete, mnat_handler
    <3>2. k \in SessionRec
      BY <1>11, FieldTypes, ZenonT(30)
    <3>3. SameWho(g, k) /\ SameCount(g, k) /\ k.medial = g.medial /\ k.addr = g.addr
      BY <1>11, Zenon DEF SessionRec, SameWho, SameCount
    <3>4. k.missing = g.missing /\ k.reinv = g.reinv
      BY <1>11, Zenon DEF SessionRec
    <3>5. h = [k EXCEPT !.failed = TRUE] /\ u = Allocated(y)
      BY Zenon
    <3> HIDE DEF k, h, u
    <3>6. h \in SessionRec
      BY <3>2, <3>5, FieldTypes, ZenonT(30)
    <3>7. SameWho(k, h) /\ SameCount(k, h) /\ h.medial = k.medial /\ h.addr = k.addr
      BY <3>2, <3>5, ZenonT(30) DEF SessionRec, SameWho, SameCount
    <3>8. h.missing = k.missing /\ h.reinv = k.reinv
      BY <3>2, <3>5, Zenon DEF SessionRec
    <3>9. Ended(h, e) /\ SameTold(h, e)
      BY <3>1, <3>6, ReleasedOver, ZenonT(30)
    <3>10. Inv(u)
      BY <1>9, <3>5, MapAllocated, ZenonT(30)
    <3>11. SameWho(y, u) /\ SameCount(y, u) /\ u.medial = y.medial /\ u.addr = y.addr
           /\ u.missing = y.missing /\ u.reinv = y.reinv
      BY <1>9, <3>5, ZenonT(30) DEF Allocated, SessionRec, SameWho, SameCount
    <3>12. e.missing = u.missing /\ e.reinv = u.reinv
      <4>1. g.missing = y.missing /\ g.reinv = y.reinv
        BY <1>10, Zenon DEF OnlyNet, SameTold
      <4> QED BY <3>4, <3>8, <3>9, <3>11, <4>1, ZenonT(30) DEF SameTold
    <3>13. SameWho(u, e) /\ SameCount(u, e)
      <4>1. SameWho(y, h) /\ SameCount(y, h)
        BY <1>10, <3>3, <3>7, ZenonT(30) DEF OnlyNet, SameWho, SameCount
      <4> QED BY <3>9, <3>11, <4>1, ZenonT(30) DEF Ended, SameWho, SameCount
    <3>14. e.medial = u.medial /\ e.addr = u.addr
      BY <1>10, <3>3, <3>7, <3>9, <3>11, ZenonT(30) DEF OnlyNet, SameRun, Ended
    <3>15. Ended(u, e)
      BY <3>9, <3>13, <3>14, Zenon DEF Ended
    <3>16. Inv(e) /\ e.at = "gone" /\ e \in SessionRec
      BY <3>10, <3>12, <3>15, OverInv, Zenon DEF Inv, Ended
    <3>17. Inv(t)
      BY <2>2, <2>3, <3>16, StaleInv, ZenonT(30)
    <3>18. t.at = "gone"
      BY <2>3, <3>16, ZenonT(30) DEF SessionRec
    <3>19. z = t
      BY <2>1, <3>18, ZenonT(30) DEF Allocated
    <3> QED BY <3>17, <3>19, ZenonT(30)
  <2> QED BY <2>4, <2>5, ZenonT(30)
<1> QED BY <1>14, <1>15, ZenonT(30)

-----------------------------------------------------------------------------
(* ICE: gathering *)

LEMMA IceStep ==
  ASSUME NEW x, Inv(x), x.at # "gone", x.kind \in Ice, NEW y \in SessionRec,
         SameWho(x, y), y.at = x.at, y.medial = x.medial, y.tmr => x.tmr, SameCount(x, y),
         y.wait = x.wait, y.missing = x.missing, y.reinv = x.reinv, GatherInv(y), CheckInv(y)
  PROVE  Inv(y)
<1>1. x.kind \notin Mapping /\ x.kind \notin Counting /\ y.kind = x.kind
  BY Zenon DEF Counting, Ice, Mapping, SameWho
<1>2. Cardinality(Granted(y)) \in Nat
  BY WaitingFinite, Zenon
<1>3. y.mediac = 0 /\ y.moved \in Nat /\ y.medial \in Nat
  BY <1>1, Sizes DEF Inv, Sound, History, SameCount, SessionRec
<1>4. Exempt(y) <=> Exempt(x)
  BY Zenon DEF Exempt, SameWho, SameCount
<1>5. y.mediac <= y.medial /\ y.mediac + Cardinality(Granted(y)) + y.moved >= 0
  BY <1>2, <1>3
<1>6. History(y)
  BY <1>3, <1>4, <1>5, Zenon DEF Inv, Sound, History, SameWho
<1>7. Shape(y)
  BY Zenon DEF Inv, Sound, Shape, SameWho
<1> QED BY <1>1, <1>6, <1>7, Zenon DEF Inv, Sound, Live

\* A medium has two components at most.
LEMMA OfCard ==
  ASSUME NEW x, NEW m, NEW S, S \subseteq Of(x, m)
  PROVE  IsFiniteSet(S) /\ Cardinality(S) \in 0..2
<1> DEFINE p == <<m, 1>>
           q == <<m, 2>>
           P == {p} \cup {q}
<1>1. p # q
  OBVIOUS
<1>2. S \subseteq P
  BY CompParts DEF Of, Socks
<1> HIDE DEF p, q
<1>3. IsFiniteSet({p}) /\ Cardinality({p}) = 1
  BY FS_Singleton, ZenonT(30)
<1>4. IsFiniteSet(P) /\ Cardinality(P) = 2
  BY <1>1, <1>3, FS_AddElement
<1> HIDE DEF P
<1>5. IsFiniteSet(S) /\ Cardinality(S) <= Cardinality(P)
  BY <1>2, <1>4, FS_Subset, Zenon
<1>6. Cardinality(S) \in Nat
  BY <1>5, FS_CardinalityType, Zenon
<1> QED BY <1>4, <1>5, <1>6

\* gather_handler(): the last medium reports the success, the first failure the error.
LEMMA GatherHandlerInv ==
  ASSUME NEW x, Inv(x), x.at = "up", x.kind \in Ice, x.wait, NEW m \in Media, m <= x.medial,
         NEW ok \in BOOLEAN,
         ok => ~x.tmr /\ ~x.dns /\ \A c \in Of(x, m) : x.comp[c] \in {"done", "failed"},
         NEW close \in BOOLEAN, NEW y, y = gather_handler(x, m, ok, close)
  PROVE  Inv(y)
<1>1. x \in SessionRec /\ Sound(x) /\ GatherInv(x) /\ CheckInv(x) /\ x.kind \notin Mapping
      /\ x.kind \notin Counting
  BY Zenon DEF Inv, Sound, Live, Ice, Mapping, Counting
<1>2. CASE ~ok
  <2> DEFINE f == [x EXCEPT !.estabh = FALSE]
  <2>1. y = IF x.estabh THEN mnat_handler(f, FALSE, close) ELSE f
    BY <1>2, Zenon DEF gather_handler
  <2>2. f \in SessionRec
    BY <1>1, FieldTypes, ZenonT(30)
  <2>3. SameWho(x, f) /\ SameRun(x, f) /\ SameCount(x, f)
    BY <1>1, Zenon DEF SessionRec, SameWho, SameRun, SameCount
  <2>4. SameGather(x, f) /\ SameCheck(x, f)
    BY <1>1, ZenonT(30) DEF SessionRec, SameGather, SameCheck
  <2>5. SameNews(x, f) /\ f.comp = x.comp /\ f.addr = x.addr
    BY <1>1, ZenonT(30) DEF SessionRec, SameNews
  <2> HIDE DEF f
  <2>6. Inv(f)
    BY <1>1, <2>2, <2>3, <2>4, <2>5, SameInv, ZenonT(30)
  <2>7. CASE x.estabh
    <3>1. y = mnat_handler(f, FALSE, close)
      BY <2>1, <2>7, Zenon
    <3> QED BY <2>6, <3>1, FailedInv, ZenonT(30) DEF Inv
  <2>8. CASE ~x.estabh
    BY <2>1, <2>6, <2>8, ZenonT(30)
  <2> QED BY <2>7, <2>8, ZenonT(30)
<1>3. CASE ok
  <2> DEFINE h == [x.gathered EXCEPT ![m] = TRUE]
             g == [x EXCEPT !.gathered = h]
  <2>1. y = IF all_gathered(g) /\ x.estabh THEN mnat_handler(g, TRUE, close) ELSE g
    BY <1>3, Zenon DEF gather_handler
  <2>2. h \in [Media -> BOOLEAN] /\ x.gathered \in [Media -> BOOLEAN]
    BY <1>1, Zenon DEF SessionRec
  <2>3. h = [x.gathered EXCEPT ![m] = TRUE] /\ g = [x EXCEPT !.gathered = h]
    BY Zenon
  <2> HIDE DEF g, h
  <2>4. g \in SessionRec
    BY <1>1, <2>2, <2>3, FieldTypes, ZenonT(30)
  <2>5. SameWho(x, g) /\ SameRun(x, g) /\ SameCount(x, g)
    BY <1>1, <2>3, Zenon DEF SessionRec, SameWho, SameRun, SameCount
  <2>6. SameCheck(x, g) /\ SameNews(x, g)
    BY <1>1, <2>3, ZenonT(30) DEF SessionRec, SameCheck, SameNews
  <2>7. g.comp = x.comp /\ g.addr = x.addr /\ g.nstun = x.nstun /\ g.gathered = h
    BY <1>1, <2>3, Zenon DEF SessionRec
  <2>8. Socks(g) = Socks(x) /\ \A n : Of(g, n) = Of(x, n)
    BY <2>5, SocksSame, ZenonT(30) DEF SameWho, SameRun
  <2>9. \A n \in Media : Asking(g, n) = Asking(x, n)
    BY <2>7, <2>8 DEF Asking
  <2>10. g.wait
    BY <2>6, Zenon DEF SameNews
  <2>11. ASSUME NEW n \in Media, g.gathered[n]
         PROVE  /\ g.at = "up" /\ n <= g.medial /\ ~g.tmr /\ ~g.dns
                /\ \A c \in Of(g, n) : g.comp[c] \in {"done", "failed"}
    <3>1. CASE n = m
      BY <1>3, <2>5, <2>7, <2>8, <3>1, Zenon DEF SameRun
    <3>2. CASE n # m
      <4>1. x.gathered[n]
        BY <2>2, <2>3, <2>7, <2>11, <3>2, Zenon
      <4> QED BY <1>1, <2>5, <2>7, <2>8, <4>1, Zenon DEF GatherInv, SameRun
    <3> QED BY <3>1, <3>2, Zenon
  <2>12. /\ g.srv => ~g.dns
         /\ g.kind = "ice_host" => ~g.srv /\ ~g.dns
    BY <1>1, <2>5, Zenon DEF GatherInv, SameWho, SameRun
  <2>13. \A c \in Comp :
           /\ c \notin Socks(g) => g.comp[c] = "off"
           /\ g.comp[c] \in {"off", "sent", "alloc", "done", "failed"}
           /\ g.comp[c] \in {"sent", "alloc"} => g.srv
           /\ c \in Socks(g) /\ g.srv => g.comp[c] # "off"
    BY <1>1, <2>5, <2>7, <2>8, Zenon DEF GatherInv, SameRun
  <2>14. \A n \in Media : g.nstun[n] = Cardinality(Asking(g, n))
    BY <1>1, <2>7, <2>9, ZenonT(30) DEF GatherInv
  <2>15. GatherInv(g)
    BY <2>10, <2>11, <2>12, <2>13, <2>14, Zenon DEF GatherInv
  <2>16. CheckInv(g)
    BY <1>1, <2>5, <2>6, CheckKept, ZenonT(30) DEF SameRun
  <2>17. Inv(g)
    BY <2>4, <2>5, <2>6, <2>15, <2>16, IceStep, ZenonT(30) DEF SameRun, SameNews
  <2>18. CASE all_gathered(g) /\ x.estabh
    <3>1. y = mnat_handler(g, TRUE, close)
      BY <2>1, <2>18, Zenon
    <3>2. g.kind \notin Mapping /\ g.kind \notin Counting /\ g.kind \in Ice /\ g.at = "up"
      BY <1>1, <2>5, Zenon DEF SameWho, SameRun
    <3>3. ASSUME NEW c \in Socks(g)
          PROVE  g.comp[c] \in {"done", "failed"}
      <4>1. c \in Comp /\ c[1] <= g.medial /\ c[1] \in Media
        BY CompParts, Zenon DEF Socks
      <4>2. c[1] \in 1..g.medial
        BY <2>4, <4>1, Sizes DEF Media, SessionRec
      <4>3. g.gathered[c[1]] /\ c \in Of(g, c[1])
        BY <2>18, <4>2, Zenon DEF all_gathered, Of
      <4> QED BY <2>11, <4>1, <4>3, ZenonT(30)
    <3>4. Pending(g) = {}
      BY <3>3, Zenon DEF Pending
    <3>5. Sound(g) /\ Live(g)
      BY <2>17, <3>2, Zenon DEF Inv
    <3> QED BY <2>10, <2>18, <3>1, <3>2, <3>4, <3>5, ReportInv, ZenonT(30)
  <2>19. CASE ~(all_gathered(g) /\ x.estabh)
    BY <2>1, <2>17, <2>19, ZenonT(30)
  <2> QED BY <2>18, <2>19, ZenonT(30)
<1> QED BY <1>2, <1>3, ZenonT(30)

\* call_gather_handler(): only when no request of the medium is left.
LEMMA CallGatherInv ==
  ASSUME NEW x, Inv(x), x.at = "up", x.kind \in Ice, x.wait, x.srv, NEW m \in Media,
         m <= x.medial, NEW ok \in BOOLEAN, NEW cand \in BOOLEAN, NEW close \in BOOLEAN,
         NEW y, y = call_gather_handler(x, m, ok, cand, close)
  PROVE  Inv(y)
<1>1. x \in SessionRec /\ GatherInv(x) /\ Shape(x)
  BY Zenon DEF Inv, Sound, Live
<1>2. CASE x.nstun[m] # 0
  BY <1>2, Zenon DEF call_gather_handler
<1>3. CASE x.nstun[m] = 0
  <2> DEFINE g == ok /\ cand
  <2>1. y = gather_handler(x, m, g, close) /\ g \in BOOLEAN
    BY <1>3, ZenonT(30) DEF call_gather_handler
  <2>2. ~x.tmr /\ ~x.dns
    BY <1>1, Zenon DEF Shape, GatherInv
  <2>3. Cardinality(Asking(x, m)) = 0
    BY <1>1, <1>3, ZenonT(30) DEF GatherInv
  <2>4. Asking(x, m) \subseteq Of(x, m)
    BY Zenon DEF Asking
  <2>5. Asking(x, m) = {}
    BY <2>3, <2>4, OfCard, FS_EmptySet, ZenonT(30)
  <2>6. ASSUME NEW c \in Of(x, m)
        PROVE  x.comp[c] \in {"done", "failed"}
    <3>1. c \in Comp /\ c \in Socks(x)
      BY Zenon DEF Of, Socks
    <3>2. x.comp[c] \notin {"sent", "alloc"}
      BY <2>5, ZenonT(30) DEF Asking
    <3> QED BY <1>1, <3>1, <3>2, Zenon DEF GatherInv
  <2> HIDE DEF g
  <2> QED BY <2>1, <2>2, <2>6, GatherHandlerInv, ZenonT(30)
<1> QED BY <1>2, <1>3, ZenonT(30)

\* Only the requests, their number and the addresses change.
OnlyIce(x, y) ==
  /\ y \in SessionRec /\ SameWho(x, y) /\ SameRun(x, y) /\ SameCount(x, y)
  /\ SameCheck(x, y) /\ SameTold(x, y) /\ y.gathered = x.gathered

IceIs(x, f, h, y) == OnlyIce(x, y) /\ y.comp = f /\ y.nstun = h

\* A record in which the addresses are replaced by themselves.
LEMMA KeepAddr ==
  ASSUME NEW x \in SessionRec, NEW f, NEW h, NEW w, w = x.addr
  PROVE  [x EXCEPT !.comp = f, !.nstun = h] = [x EXCEPT !.comp = f, !.nstun = h, !.addr = w]
BY ZenonT(30) DEF SessionRec

LEMMA SetIce ==
  ASSUME NEW x \in SessionRec, NEW f \in [Comp -> States], NEW h \in [Media -> 0..2],
         NEW w \in [Comp -> BOOLEAN], NEW y, y = [x EXCEPT !.comp = f, !.nstun = h, !.addr = w]
  PROVE  IceIs(x, f, h, y)
<1> DEFINE a == [x EXCEPT !.comp = f]
           b == [a EXCEPT !.nstun = h]
<1>1. a = [x EXCEPT !.comp = f] /\ b = [a EXCEPT !.nstun = h]
  BY Zenon
<1>2. y = [b EXCEPT !.addr = w]
  BY Zenon
<1> HIDE DEF a, b
<1>3. a \in SessionRec
  BY <1>1, FieldTypes, ZenonT(30)
<1>4. b \in SessionRec
  BY <1>1, <1>3, FieldTypes, ZenonT(30)
<1>5. y \in SessionRec
  <2>1. \A v \in [Comp -> BOOLEAN] : [b EXCEPT !.addr = v] \in SessionRec
    BY <1>4, FieldTypes, ZenonT(30)
  <2> QED BY <1>2, <2>1, Zenon
<1>6. SameWho(x, y) /\ SameRun(x, y)
  BY Zenon DEF SessionRec, SameWho, SameRun
<1>7. SameCount(x, y) /\ SameCheck(x, y)
  BY Zenon DEF SessionRec, SameCount, SameCheck
<1>8. SameTold(x, y) /\ y.gathered = x.gathered
  BY Zenon DEF SessionRec, SameTold
<1>9. y.comp = f /\ y.nstun = h
  BY Zenon DEF SessionRec
<1> QED BY <1>5, <1>6, <1>7, <1>8, <1>9, ZenonT(30) DEF OnlyIce, IceIs

\* A component with a request: the medium is not gathered, and the call waits.
LEMMA AskedFacts ==
  ASSUME NEW x, Inv(x), x.at = "up", x.kind \in Ice, NEW c \in Comp,
         x.comp[c] \in {"sent", "alloc"}
  PROVE  /\ x.srv /\ c \in Socks(x) /\ c \in Of(x, c[1]) /\ c \in Asking(x, c[1])
         /\ c[1] \in Media /\ c[1] <= x.medial /\ x.wait /\ ~x.gathered[c[1]]
         /\ x.nstun[c[1]] \in 1..2 /\ x.nstun[c[1]] = Cardinality(Asking(x, c[1]))
<1>1. x \in SessionRec /\ GatherInv(x)
  BY Zenon DEF Inv, Sound, Live
<1>2. c \in Socks(x) /\ x.srv
  BY <1>1, Zenon DEF GatherInv
<1>3. c[1] \in Media /\ c[1] <= x.medial
  BY <1>2, CompParts, Zenon DEF Socks
<1>4. c \in Of(x, c[1])
  BY <1>2, Zenon DEF Of
<1>5. c \in Asking(x, c[1]) /\ Asking(x, c[1]) \subseteq Of(x, c[1])
  BY <1>4, Zenon DEF Asking
<1>6. ~x.gathered[c[1]]
  BY <1>1, <1>3, <1>4, Zenon DEF GatherInv
<1>7. x.wait
  <2>1. c[1] \in 1..x.medial
    BY <1>1, <1>3, Sizes DEF Media, SessionRec
  <2> QED BY <1>1, <1>6, <2>1, ZenonT(30) DEF GatherInv, all_gathered
<1>8. IsFiniteSet(Asking(x, c[1])) /\ Cardinality(Asking(x, c[1])) \in 0..2
  BY <1>5, OfCard, Zenon
<1>9. Cardinality(Asking(x, c[1])) # 0
  BY <1>5, <1>8, FS_EmptySet, Zenon
<1>10. x.nstun[c[1]] = Cardinality(Asking(x, c[1]))
  BY <1>1, <1>3, Zenon DEF GatherInv
<1> QED BY <1>2, <1>3, <1>4, <1>5, <1>6, <1>7, <1>8, <1>9, <1>10

\* The request of a component is over, or another one follows.
IceAnswered(x, c, o, k, y) ==
  /\ OnlyIce(x, y) /\ y.comp = [x.comp EXCEPT ![c] = o]
  /\ y.nstun = [x.nstun EXCEPT ![c[1]] = k]

LEMMA IceAnsweredInv ==
  ASSUME NEW x, Inv(x), x.at = "up", x.kind \in Ice, NEW c \in Comp,
         x.comp[c] \in {"sent", "alloc"}, NEW o \in {"sent", "done", "failed"}, NEW k,
         k = IF o = "sent" THEN x.nstun[c[1]] ELSE x.nstun[c[1]] - 1,
         NEW y, IceAnswered(x, c, o, k, y)
  PROVE  Inv(y) /\ y.at = "up" /\ y.kind \in Ice /\ y.wait /\ y.srv /\ c[1] <= y.medial
<1> DEFINE n == c[1]
<1>1. x \in SessionRec /\ GatherInv(x) /\ CheckInv(x) /\ y \in SessionRec
  BY Zenon DEF Inv, Sound, Live, IceAnswered, OnlyIce
<1>2. /\ x.srv /\ c \in Socks(x) /\ c \in Of(x, n) /\ c \in Asking(x, n)
      /\ n \in Media /\ n <= x.medial /\ x.wait /\ ~x.gathered[n]
      /\ x.nstun[n] \in 1..2 /\ x.nstun[n] = Cardinality(Asking(x, n))
  BY AskedFacts, Zenon
<1>3. SameWho(x, y) /\ SameRun(x, y) /\ SameCount(x, y) /\ SameCheck(x, y) /\ SameNews(x, y)
      /\ y.gathered = x.gathered
  BY Zenon DEF IceAnswered, OnlyIce, SameTold, SameNews
<1>4. /\ y.at = "up" /\ y.kind = x.kind /\ y.wait /\ y.srv /\ y.medial = x.medial /\ y.dns = x.dns
      /\ y.tmr = x.tmr
  BY <1>2, <1>3, Zenon DEF SameWho, SameRun, SameNews
<1>5. Socks(y) = Socks(x) /\ \A m : Of(y, m) = Of(x, m)
  BY <1>3, SocksSame, ZenonT(30) DEF SameWho, SameRun
<1>6. /\ x.comp \in [Comp -> States] /\ y.comp[c] = o /\ \A e \in Comp : e # c => y.comp[e] = x.comp[e]
  BY <1>1, ZenonT(30) DEF IceAnswered, SessionRec
<1>7. /\ x.nstun \in [Media -> 0..2] /\ y.nstun[n] = k
      /\ \A m \in Media : m # n => y.nstun[m] = x.nstun[m]
  BY <1>1, <1>2 DEF IceAnswered, SessionRec
<1> HIDE DEF n
<1>8. ASSUME NEW m \in Media, m # n
      PROVE  Asking(y, m) = Asking(x, m) /\ \A e \in Of(y, m) : y.comp[e] = x.comp[e]
  <2>1. \A e \in Of(x, m) : e \in Comp /\ e # c
    BY <1>8, Zenon DEF Of, Socks, n
  <2> QED BY <1>5, <1>6, <2>1, Zenon DEF Asking
<1>9. y.nstun[n] = Cardinality(Asking(y, n))
  <2>1. CASE o = "sent"
    <3>1. Asking(y, n) = Asking(x, n)
      <4>1. \A e \in Of(x, n) : e \in Comp
        BY Zenon DEF Of, Socks
      <4> QED BY <1>2, <1>5, <1>6, <2>1, <4>1 DEF Asking
    <3>2. k = x.nstun[n]
      BY <2>1, Zenon DEF n
    <3> QED BY <1>2, <1>7, <3>1, <3>2, ZenonT(30)
  <2>2. CASE o # "sent"
    <3>1. Asking(y, n) = Asking(x, n) \ {c}
      <4>1. \A e \in Of(x, n) : e \in Comp
        BY Zenon DEF Of, Socks
      <4> QED BY <1>2, <1>5, <1>6, <2>2, <4>1 DEF Asking
    <3>2. k = x.nstun[n] - 1
      BY <2>2, Zenon DEF n
    <3>3. IsFiniteSet(Asking(x, n))
      <4>1. Asking(x, n) \subseteq Of(x, n)
        BY Zenon DEF Asking
      <4> QED BY <4>1, OfCard, Zenon
    <3>4. Cardinality(Asking(x, n) \ {c}) = Cardinality(Asking(x, n)) - 1
      BY <1>2, <3>3, FS_RemoveElement, Zenon
    <3> QED BY <1>2, <1>7, <3>1, <3>2, <3>4, Zenon
  <2> QED BY <2>1, <2>2, ZenonT(30)
<1>10. \A m \in Media : y.nstun[m] = Cardinality(Asking(y, m))
  BY <1>1, <1>7, <1>8, <1>9, ZenonT(30) DEF GatherInv
<1>11. ASSUME NEW e \in Comp
       PROVE  /\ e \notin Socks(y) => y.comp[e] = "off"
              /\ y.comp[e] \in {"off", "sent", "alloc", "done", "failed"}
              /\ y.comp[e] \in {"sent", "alloc"} => y.srv
              /\ e \in Socks(y) /\ y.srv => y.comp[e] # "off"
  <2>1. CASE e = c
    BY <1>2, <1>4, <1>5, <1>6, <2>1, ZenonT(30)
  <2>2. CASE e # c
    BY <1>1, <1>2, <1>4, <1>5, <1>6, <2>2, ZenonT(30) DEF GatherInv
  <2> QED BY <2>1, <2>2, Zenon
<1>12. ASSUME NEW m \in Media, y.gathered[m]
       PROVE  /\ y.at = "up" /\ m <= y.medial /\ ~y.tmr /\ ~y.dns
              /\ \A e \in Of(y, m) : y.comp[e] \in {"done", "failed"}
  <2>1. x.gathered[m] /\ m # n
    BY <1>2, <1>3, <1>12, ZenonT(30)
  <2> QED BY <1>1, <1>4, <1>5, <1>8, <2>1, ZenonT(30) DEF GatherInv
<1>13. GatherInv(y)
  <2>1. /\ y.srv => ~y.dns
        /\ y.kind = "ice_host" => ~y.srv /\ ~y.dns
    BY <1>1, <1>2, <1>4, ZenonT(30) DEF GatherInv
  <2> QED BY <1>4, <1>10, <1>11, <1>12, <2>1, ZenonT(30) DEF GatherInv
<1>14. CheckInv(y)
  BY <1>1, <1>3, <1>4, CheckKept, ZenonT(30)
<1>15. Inv(y)
  BY <1>1, <1>3, <1>4, <1>13, <1>14, IceStep, ZenonT(30) DEF SameNews
<1> QED BY <1>2, <1>4, <1>15, Zenon DEF n

LEMMA AnswerIce ==
  ASSUME NEW x \in SessionRec, NEW c \in Comp, NEW v \in States, NEW k \in 0..2,
         k = x.nstun[c[1]] - 1, NEW ok \in BOOLEAN,
         NEW a, a = [Answered(x, c, v) EXCEPT !.nstun[c[1]] = @ - 1, !.addr[c] = ok]
  PROVE  IceAnswered(x, c, v, k, a)
<1> DEFINE f == [x.comp EXCEPT ![c] = v]
           h == [x.nstun EXCEPT ![c[1]] = k]
           w == [x.addr EXCEPT ![c] = ok]
<1>1. /\ x.comp \in [Comp -> States] /\ x.nstun \in [Media -> 0..2]
      /\ x.addr \in [Comp -> BOOLEAN] /\ c[1] \in Media
  BY CompParts, Zenon DEF SessionRec
<1>2. f \in [Comp -> States] /\ h \in [Media -> 0..2] /\ w \in [Comp -> BOOLEAN]
  BY <1>1, Zenon
<1>3. a = [x EXCEPT !.comp = f, !.nstun = h, !.addr = w]
  <2>1. Answered(x, c, v) = [x EXCEPT !.comp = f]
    BY Zenon DEF Answered
  <2>2. /\ [x EXCEPT !.comp = f].nstun = x.nstun
        /\ [x EXCEPT !.comp = f].addr = x.addr
    BY Zenon DEF SessionRec
  <2> QED BY <2>1, <2>2, Zenon
<1>4. f = [x.comp EXCEPT ![c] = v] /\ h = [x.nstun EXCEPT ![c[1]] = k]
  BY Zenon
<1> HIDE DEF f, h, w
<1>5. OnlyIce(x, a) /\ a.comp = f /\ a.nstun = h
  <2>1. IceIs(x, f, h, a)
    BY <1>2, <1>3, SetIce, Zenon
  <2> QED BY <2>1, Zenon DEF IceIs
<1> QED BY <1>4, <1>5, Zenon DEF IceAnswered

LEMMA SendIce ==
  ASSUME NEW x \in SessionRec, NEW c \in Comp, NEW v \in States, NEW k \in 0..2,
         NEW a, IceAnswered(x, c, v, k, a), NEW j \in 0..2, j = k + 1,
         NEW b, b = send_binding_request(a, c)
  PROVE  IceAnswered(x, c, "sent", j, b)
<1> DEFINE f == [x.comp EXCEPT ![c] = "sent"]
           h == [x.nstun EXCEPT ![c[1]] = j]
           w == a.addr
<1>1. /\ x.comp \in [Comp -> States] /\ x.nstun \in [Media -> 0..2]
      /\ a \in SessionRec /\ c[1] \in Media
  BY CompParts, Zenon DEF SessionRec, IceAnswered, OnlyIce
<1>2. f \in [Comp -> States] /\ h \in [Media -> 0..2] /\ w \in [Comp -> BOOLEAN]
  BY <1>1, Zenon DEF SessionRec, States
<1>3. [a.comp EXCEPT ![c] = "sent"] = f
  BY <1>1, Zenon DEF IceAnswered
<1>4. [a.nstun EXCEPT ![c[1]] = a.nstun[c[1]] + 1] = h
  <2>1. a.nstun[c[1]] + 1 = j
    BY <1>1, Zenon DEF IceAnswered
  <2> QED BY <1>1, <2>1, Zenon DEF IceAnswered
<1>5. b = [a EXCEPT !.comp = f, !.nstun = h]
  BY <1>3, <1>4, Zenon DEF send_binding_request
<1>6. f = [x.comp EXCEPT ![c] = "sent"] /\ h = [x.nstun EXCEPT ![c[1]] = j] /\ w = a.addr
  BY Zenon
<1> HIDE DEF f, h, w
<1>7. b = [a EXCEPT !.comp = f, !.nstun = h, !.addr = w]
  <2>1. [a EXCEPT !.comp = f, !.nstun = h] = [a EXCEPT !.comp = f, !.nstun = h, !.addr = w]
    BY <1>1, <1>6, KeepAddr, ZenonT(30)
  <2> QED BY <1>5, <2>1, Zenon
<1>8. OnlyIce(a, b) /\ b.comp = f /\ b.nstun = h
  <2>1. IceIs(a, f, h, b)
    BY <1>1, <1>2, <1>7, SetIce, ZenonT(30)
  <2> QED BY <2>1, Zenon DEF IceIs
<1>9. OnlyIce(x, b)
  BY <1>8, Zenon
     DEF IceAnswered, OnlyIce, SameWho, SameRun, SameCount, SameCheck, SameTold
<1> QED BY <1>6, <1>8, <1>9, Zenon DEF IceAnswered
=============================================================================
