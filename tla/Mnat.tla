-------------------------------- MODULE Mnat --------------------------------
(***************************************************************************)
(* The media-NAT session of a call, with any of the modules: what the      *)
(* network, the timers and the call may do to it.                          *)
(***************************************************************************)
EXTENDS StunTurn, PortMap, IceOps

VARIABLE s

vars == <<s>>

\* session_alloc has succeeded.  A server given by its address is resolved
\* before it returns; "natpmp", "pcp" and ICE without a server resolve nothing.
Init ==
  \E kind \in Kinds, n \in Media, rtcp, offerer, known \in BOOLEAN :
    LET none == kind \in {"natpmp", "pcp", "ice_host"}
    IN  s = [NoSession(kind, n, rtcp, offerer)
               EXCEPT !.srv = known /\ ~none, !.dns = ~known /\ ~none,
                      !.tmr = kind = "ice_host"]

Becomes(t) == s' = t

Is(kind) == s.at = "up" /\ s.kind = kind

Outcome(ok) == IF ok THEN "ok" ELSE "err"

\* The streams are allocated one after the other before the loop runs again.
Allocated(t) == IF t.at = "alloc" /\ t.medial = t.n THEN [t EXCEPT !.at = "up"] ELSE t

AllocMedia ==
  /\ s.at = "alloc"
  /\ \/ Becomes(Released(s))
     \/ s.kind \in {"stun", "turn", "turn_tcp"} /\ Becomes(Allocated(media_alloc(s)))
     \/ s.kind = "pcp" /\ Becomes(Allocated(pcp_media_alloc(s)))
     \/ s.kind \in Ice /\ Becomes(Allocated(ice_media_alloc(s)))
     \/ /\ s.kind = "natpmp"
        /\ \E o \in {"sent", "fails"} : Becomes(Allocated(natpmp_media_alloc(s, o, FALSE)))

Resolved ==
  /\ s.at = "up" /\ s.dns
  /\ \E ok \in BOOLEAN :
       Becomes(IF s.kind \in Ice THEN ice_dns_handler(s, ok, FALSE)
               ELSE dns_handler(s, ok, FALSE))

-----------------------------------------------------------------------------
(* The first answer to the request of component c, or its timeout. *)

StunAnswer(c, ok, close) == Is("stun") /\ Becomes(mapped_handler(s, c, ok, close))

TurnAnswer(c, ok, close) == Is("turn") /\ Becomes(turn_handler(s, c, ok, close))

\* TURN over TCP: an answer comes through the connection, a timeout does not.
TurnTcpAnswer(c, ok, close) ==
  /\ Is("turn_tcp")
  /\ \/ Becomes(tcp_recv_handler(s, c, Outcome(ok), close))
     \/ ~ok /\ Becomes(turn_handler(s, c, FALSE, close))

NatpmpAnswer(c, ok, close) ==
  Is("natpmp") /\ Becomes(natpmp_resp_handler(s, c, Outcome(ok), close))

PcpAnswer(c, ok, close) ==
  /\ Is("pcp")
  /\ \E e \in {0, 1} : Becomes(pcp_resp_handler(s, c, Outcome(ok), e, close))

IceAnswer(c, ok, close) ==
  /\ Is("ice_stun") \/ Is("ice_turn")
  /\ \E cand \in BOOLEAN : Becomes(stun_resp_handler(s, c, ok, cand, close))

Answer(c) ==
  /\ s.comp[c] = "sent"
  /\ \E ok, close \in BOOLEAN :
       \/ StunAnswer(c, ok, close) \/ TurnAnswer(c, ok, close)
       \/ TurnTcpAnswer(c, ok, close) \/ NatpmpAnswer(c, ok, close)
       \/ PcpAnswer(c, ok, close) \/ IceAnswer(c, ok, close)

IceAllocated(c) ==
  /\ Is("ice_turn") /\ s.comp[c] = "alloc"
  /\ \E o \in {"err", "scode", "mapped", "relay"}, ok, cand, close \in BOOLEAN :
       Becomes(turnc_handler(s, c, o, ok, cand, close))

TcpConnected(c) ==
  /\ Is("turn_tcp") /\ s.comp[c] = "tcp"
  /\ \E ok \in BOOLEAN : Becomes(tcp_estab_handler(s, c, ok, FALSE))

IceTimer ==
  /\ s.tmr /\ s.at = "up"
  /\ \E cands \in SUBSET Media, close \in BOOLEAN :
       Becomes(tmr_async_handler(s, cands, close))

-----------------------------------------------------------------------------
(* What may happen later, or never. *)

\* The keepalive of a mapped component finds another address, or no server.
StunChanged(c) ==
  /\ Is("stun") /\ s.comp[c] = "done" /\ s.moved < MaxMoved
  /\ \E ok, close \in BOOLEAN : Becomes(mapped_handler(s, c, ok, close))

\* A refresh of the allocation fails, or the connection is lost or unreadable.
TurnFails(c) ==
  \/ (Is("turn") \/ Is("turn_tcp")) /\ s.comp[c] = "done"
       /\ Becomes(turn_handler(s, c, FALSE, FALSE))
  \/ Is("turn_tcp") /\ s.comp[c] \in {"tcp", "sent", "done"}
       /\ Becomes(tcp_close_handler(s, FALSE))
  \/ Is("turn_tcp") /\ s.comp[c] \in {"sent", "done"}
       /\ Becomes(tcp_recv_handler(s, c, "bad", FALSE))

NatpmpStray(c) ==
  Is("natpmp") /\ s.comp[c] = "sent"
    /\ Becomes(natpmp_resp_handler(s, c, "stray", FALSE))

NatpmpRefresh(c) ==
  /\ Is("natpmp") /\ s.comp[c] = "done"
  /\ \E o \in {"sent", "error", "fails"} : Becomes(refresh_timeout(s, c, o, FALSE))

PcpAgain(c) ==
  /\ Is("pcp") /\ s.comp[c] = "done"
  /\ \E ok \in BOOLEAN, e \in {0, 1} :
       Becomes(pcp_resp_handler(s, c, Outcome(ok), e, FALSE))

PcpAnnounce == Is("pcp") /\ \E e \in {0, 1} : Becomes(refresh_session(s, e))

\* The answer to the offer has come, or the offer was answered.
IceStart ==
  /\ s.at = "up" /\ s.kind \in Ice /\ ~s.wait
  /\ ~s.started /\ \A m \in Media : s.check[m] = "no"
  /\ \E off \in SUBSET Media, fail \in 1..s.medial + 1 :
       Becomes(ice_start(s, off, fail))

IceChecked(m) ==
  /\ s.at = "up" /\ s.check[m] = "running"
  /\ \E ok, changed, close \in BOOLEAN :
       Becomes(conncheck_handler(s, m, ok, changed, close))

Hangup == s.at = "up" /\ Becomes(Released(s))

Over == s.at = "gone" /\ UNCHANGED s

Next ==
  \/ AllocMedia \/ Resolved \/ IceTimer \/ PcpAnnounce \/ IceStart \/ Hangup \/ Over
  \/ \E c \in Comp : \/ Answer(c) \/ IceAllocated(c) \/ TcpConnected(c)
                     \/ StunChanged(c) \/ TurnFails(c) \/ NatpmpStray(c)
                     \/ NatpmpRefresh(c) \/ PcpAgain(c)
  \/ \E m \in Media : IceChecked(m)

Spec == Init /\ [][Next]_vars

\* Every query and request of libre is answered or times out.
FairSpec ==
  /\ Spec /\ WF_vars(AllocMedia) /\ WF_vars(Resolved) /\ WF_vars(IceTimer)
  /\ \A c \in Comp : WF_vars(Answer(c)) /\ WF_vars(IceAllocated(c))
                       /\ WF_vars(TcpConnected(c))
-----------------------------------------------------------------------------
(* Properties *)

\* The fields of a session have the values of the structs they stand for.
TypeOK ==
  /\ s.kind \in Kinds /\ s.at \in {"alloc", "up", "gone"} /\ s.medial \in 0..s.n
  /\ s.comp \in [Comp -> {"off", "tcp", "alloc", "sent", "done", "failed", "lost"}]
  /\ s.mediac \in -(2 * NMedia + MaxMoved)..NMedia
  /\ \A m \in Media : s.nstun[m] \in 0..2
  /\ s.at = "gone" => s.comp = [c \in Comp |-> "off"]

\* "Called when all media streams are established" (call.c:199): when the call
\* goes on, no component of any stream still waits for its address.  Two of the
\* modules keep this only in part: the counter of "stun" also counts an address
\* that changes before, and "turn" over TCP does not wait for a component whose
\* connection is not up yet.
EstabComplete ==
  s.missing = {} \/ (s.kind = "stun" /\ s.moved > 0) \/ (s.kind = "turn_tcp" /\ s.rtcp)

\* The success is reported once; only ICE asks for a re-INVITE later, as the
\* offerer, and once.
EstabOnce ==
  s.reinv > 0 => s.kind \in Ice /\ s.offerer /\ s.reinv = 1

\* ICE: when the last of the media has been checked, no new default address is
\* left without the re-INVITE that tells it to the peer.
ReinviteSent ==
  s.at = "up" /\ s.started /\ s.offerer /\ all_completed(s) => s.fresh = {}

\* A handler that has reported to the call does not go on with the session,
\* which the call may have released: save in the three places named.
NoUseAfterReport ==
  s.stale \in {"none", "natpmp_send", "turn_tcp_recv", "ice_tmr_async"}

\* The call is told in the end, so that it never waits for good before its
\* INVITE or before it is announced; unless it is ended first, or "natpmp" has
\* taken a stray answer for the one it waited for.
Reports ==
  (s.at = "alloc") ~> (~s.wait \/ s.failed \/ s.at = "gone"
                        \/ \E c \in Comp : s.comp[c] = "lost")

\* The call hears of success once, and not before every stream has its addresses;
\* the session is then of its type, and empty when it is gone.
EstabHandler == TypeOK /\ EstabComplete /\ EstabOnce
=============================================================================
