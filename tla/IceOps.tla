------------------------------- MODULE IceOps -------------------------------
(***************************************************************************)
(* The media-NAT module "ice" (modules/ice/ice.c): every medium gathers    *)
(* its candidates (from the interfaces, a STUN server or a TURN server);   *)
(* when all have, estabh is called.  After the exchange of SDP the         *)
(* connectivity is checked, and a new default address makes the offerer    *)
(* send one re-INVITE when all media are complete.                         *)
(*                                                                         *)
(* nstun counts the requests of a medium; check is the state of its        *)
(* connectivity check in libre ("no", "running", "over").                  *)
(***************************************************************************)
EXTENDS MnatOps

all_gathered(s) == \A m \in 1..s.medial : s.gathered[m]

all_completed(s) == \A m \in 1..s.medial : s.complete[m]

gather_handler(s, m, ok, close) ==
  LET g == [s EXCEPT !.gathered[m] = TRUE]
      f == [s EXCEPT !.estabh = FALSE]
  IN  IF ~ok THEN IF s.estabh THEN mnat_handler(f, FALSE, close) ELSE f
      ELSE IF all_gathered(g) /\ s.estabh THEN mnat_handler(g, TRUE, close) ELSE g

\* Without a default candidate (cand) the gathering has failed as well.
call_gather_handler(s, m, ok, cand, close) ==
  IF s.nstun[m] # 0 THEN s ELSE gather_handler(s, m, ok /\ cand, close)

\* Mutant: a failed request is not counted down.
stun_resp_handler_Stuck(s, c, ok, cand, close) ==
  LET a == [Answered(s, c, IF ok THEN "done" ELSE "failed") EXCEPT !.addr[c] = ok]
      b == [a EXCEPT !.nstun[c[1]] = @ - 1]
  IN  IF ok THEN call_gather_handler(b, c[1], ok, cand, close) ELSE a

\* The answer of the STUN server; a failure counts only if it is the last one.
stun_resp_handler(s, c, ok, cand, close) ==
  LET a == [Answered(s, c, IF ok THEN "done" ELSE "failed")
              EXCEPT !.nstun[c[1]] = @ - 1, !.addr[c] = ok]
  IN  call_gather_handler(a, c[1], ok, cand, close)

send_binding_request(s, c) ==
  [s EXCEPT !.comp[c] = "sent", !.nstun[c[1]] = @ + 1]

\* The answer o of the TURN server: "err"; "scode", and a STUN request is
\* tried instead; "mapped"; or "relay" without the mapped address, which is
\* then asked for.  ok: that request can be sent.
turnc_handler(s, c, o, ok, cand, close) ==
  LET a == [Answered(s, c, IF o = "mapped" THEN "done" ELSE "failed")
              EXCEPT !.nstun[c[1]] = @ - 1, !.addr[c] = o = "mapped"]
      b == IF o \in {"scode", "relay"} /\ ok THEN send_binding_request(a, c) ELSE a
  IN  call_gather_handler(b, c[1], o # "err" /\ ok, cand, close)

Asked(s) == IF s.kind = "ice_turn" THEN "alloc" ELSE "sent"

\* A request per socket: an allocation, or a binding.
start_gathering(s, m) ==
  [s EXCEPT !.comp = [c \in Comp |-> IF c \in Of(s, m) THEN Asked(s) ELSE @[c]],
            !.nstun[m] = Cardinality(Of(s, m))]

ice_media_alloc(s) ==
  LET a == [s EXCEPT !.medial = @ + 1]
  IN  IF s.srv THEN start_gathering(a, a.medial) ELSE a

ice_dns_handler(s, ok, close) ==
  IF ~ok THEN mnat_handler(s, FALSE, close)
  ELSE [s EXCEPT !.srv = TRUE, !.dns = FALSE,
          !.comp = [c \in Comp |-> IF c \in Socks(s) THEN Asked(s) ELSE @[c]],
          !.nstun = [m \in Media |-> Cardinality(Of(s, m))]]

\* Without a server: one medium after the other is gathered from the
\* interfaces; the first one without a candidate is reported, and the loop
\* goes on with the next.
tmr_async_handler(s, cands, close) ==
  LET all == 1..s.medial
      bad == all \ cands
      g   == [s EXCEPT !.tmr = FALSE,
                !.comp = [c \in Comp |-> IF c \in Socks(s) THEN "done" ELSE @[c]],
                !.gathered = [m \in Media |-> m < s.medial]]
      f   == gather_handler([s EXCEPT !.tmr = FALSE], 1, FALSE, close)
  IN  IF bad = {} THEN gather_handler(g, s.medial, TRUE, close)
      ELSE IF bad = {s.medial} THEN f ELSE GoesOn(f, f, "ice_tmr_async")

\* The SDP was exchanged and the peer supports ICE: the checks of the media in
\* use start, up to the first that cannot.  Media that are off are complete.
ice_start(s, off, fail) ==
  LET upto == {m \in 1..s.medial : m < fail}
  IN  [s EXCEPT !.complete = [m \in Media |-> m \in upto \cap off],
                !.check = [m \in Media |-> IF m \in upto \ off THEN "running" ELSE "no"],
                !.started = fail > s.medial]

\* Mutant: the request for a re-INVITE is forgotten unless it was the last
\* medium that changed.
conncheck_handler_Last(s, m, ok, changed, close) ==
  LET a == [s EXCEPT !.check[m] = "over", !.complete[m] = @ \/ ok,
                     !.send_reinvite = ok /\ changed,
                     !.fresh = IF ok /\ changed THEN @ \cup {m} ELSE @]
  IN  IF ok /\ all_completed(a) /\ a.send_reinvite /\ s.offerer
      THEN mnat_handler([a EXCEPT !.send_reinvite = FALSE], TRUE, close) ELSE a

conncheck_handler(s, m, ok, changed, close) ==
  LET a == [s EXCEPT !.check[m] = "over", !.complete[m] = @ \/ ok,
                     !.send_reinvite = @ \/ (ok /\ changed),
                     !.fresh = IF ok /\ changed THEN @ \cup {m} ELSE @]
  IN  IF ok /\ all_completed(a) /\ a.send_reinvite /\ s.offerer
      THEN mnat_handler([a EXCEPT !.send_reinvite = FALSE], TRUE, close) ELSE a
=============================================================================
