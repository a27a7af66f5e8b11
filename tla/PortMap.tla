------------------------------ MODULE PortMap ------------------------------
(***************************************************************************)
(* The media-NAT modules "natpmp" and "pcp" (modules/natpmp,               *)
(* modules/pcp): every component asks the gateway for a mapping, and the   *)
(* session is complete when all of them are granted.                       *)
(***************************************************************************)
EXTENDS MnatOps

\* Only the first call reports.
complete(s, ok, close) ==
  IF s.estabh THEN mnat_handler([s EXCEPT !.estabh = FALSE], ok, close) ELSE s

is_complete(s, close) ==
  IF \A c \in Socks(s) : s.addr[c] THEN complete(s, TRUE, close) ELSE s

\* The request is over before its handler looks at the answer: an answer that
\* is for something else is ignored, and nothing is asked again.
natpmp_resp_handler(s, c, o, close) ==
  CASE o = "err"   -> complete(Answered(s, c, "failed"), FALSE, close)
    [] o = "stray" -> Answered(s, c, "lost")
    [] o = "ok"    -> is_complete(Mapped(s, c), close)

\* The request is sent by timeout(); when the socket refuses it, completed()
\* has released the request that is then stored.
natpmp_mapping_request(s, c, o, close) ==
  CASE o = "sent"  -> Answered(s, c, "sent")
    [] o = "error" -> Answered(s, c, "failed")
    [] o = "fails" -> [natpmp_resp_handler(s, c, "err", close)
                         EXCEPT !.stale = "natpmp_send"]

refresh_timeout(s, c, o, close) == natpmp_mapping_request(s, c, o, close)

\* One request per socket; o says what happens to the last one.
natpmp_media_alloc(s, o, close) ==
  LET a    == [s EXCEPT !.medial = @ + 1]
      last == <<a.medial, IF s.rtcp THEN 2 ELSE 1>>
      sent == [a EXCEPT !.comp = [c \in Comp |-> IF c \in Of(a, a.medial)
                                                 THEN "sent" ELSE @[c]]]
  IN  natpmp_mapping_request(sent, last, o, close)

\* libre keeps the mapping alive and calls again; e is the server's epoch.
pcp_resp_handler(s, c, o, e, close) ==
  IF o = "err" THEN complete(Answered(s, c, "failed"), FALSE, close)
  ELSE is_complete([Mapped(s, c) EXCEPT !.epoch[c[1]] = e], close)

pcp_media_alloc(s) ==
  LET a == [s EXCEPT !.medial = @ + 1]
  IN  [a EXCEPT !.comp = [c \in Comp |-> IF c \in Of(a, a.medial)
                                         THEN "sent" ELSE @[c]]]

\* An announcement with an epoch that went back (the gateway has restarted)
\* asks for all mappings of the medium again.
refresh_session(s, e) ==
  [s EXCEPT
     !.comp = [c \in Comp |-> IF c \in Socks(s) /\ e < s.epoch[c[1]]
                                   /\ s.comp[c] = "done"
                              THEN "sent" ELSE @[c]],
     !.epoch = [m \in Media |-> IF m <= s.medial THEN e ELSE @[m]]]
=============================================================================
