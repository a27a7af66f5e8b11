----------------------------- MODULE StreamOps -----------------------------
(***************************************************************************)
(* The audio stream of a call between SDP, media NAT traversal and media   *)
(* encryption: what stream.c, audio.c and call.c start and stop of it.     *)
(* The state is one record; modules Srtp and DtlsSrtp add the state of the *)
(* encryption to it and module Menc the calls.                             *)
(*                                                                         *)
(*   enc     "none", "sdes" (modules/srtp) or "dtls" (modules/dtls_srtp)    *)
(*   nat     the NAT traversal has to connect first (wait_connected)       *)
(*   mux     RTP and RTCP share a socket                                   *)
(*   natup   mnat_connected             secure  menc_secure                *)
(*   raddr   the remote address is set  rsdp    the latest SDP of the peer  *)
(*   ldir    our direction                                                 *)
(*   tx, rx  the stream is enabled      rtcp    RTCP was started           *)
(*   src     the audio source runs      err     what the last mediah said  *)
(*   call    idle, offered, incoming, answered, up or closed               *)
(***************************************************************************)
EXTENDS Naturals, Sequences

None == "none"

Both == {"send", "recv"}

\* sdp_media_dir(): directions are seen from here.
sdp_media_dir(x) == x.ldir \cap x.rsdp.dir
Sends(x)    == "send" \in sdp_media_dir(x)
Receives(x) == "recv" \in sdp_media_dir(x)

mnat_ready(x) == x.nat => x.natup

stream_is_ready_Unsecured(x) == mnat_ready(x) /\ x.raddr /\ sdp_media_dir(x) # {}
stream_is_ready(x) ==
    /\ mnat_ready(x)
    /\ x.enc = "dtls" => x.secure      \* wait_secure
    /\ x.raddr /\ sdp_media_dir(x) # {}

stream_enable_tx(x, enable) ==
    IF ~enable THEN [x EXCEPT !.tx = FALSE]
    ELSE [x EXCEPT !.tx = @ \/ (stream_is_ready(x) /\ Sends(x))]

stream_enable_rx(x, enable) ==
    IF ~enable THEN [x EXCEPT !.rx = FALSE] ELSE [x EXCEPT !.rx = @ \/ Receives(x)]

stream_enable(x, enable) == stream_enable_tx(stream_enable_rx(x, enable), enable)

stream_set_secure(x) == stream_enable_tx([x EXCEPT !.secure = TRUE], TRUE)

stream_start_rtcp(x) == [x EXCEPT !.rtcp = TRUE]

audio_stop(x) == [stream_enable_rx(x, FALSE) EXCEPT !.src = FALSE]

\* audio_update(): the decoder and the receiver, the encoder and the source.
audio_update(x) ==
    IF ~x.rsdp.port THEN audio_stop(x)     \* no format
    ELSE [stream_enable_rx(x, Receives(x)) EXCEPT !.src = Sends(x)]

\* menc_event_handler() of call.c for MENC_EVENT_SECURE; component is what
\* the module put into the parameters.
menc_event_handler_NoAudio(x, component) ==
    LET y == stream_set_secure(x) IN IF component = "RTCP" THEN stream_start_rtcp(y) ELSE y
menc_event_handler(x, component) ==
    LET y == stream_set_secure(x)
    IN audio_update(IF component = "RTCP" THEN stream_start_rtcp(y) ELSE y)

\* menc_error_handler(): the call is over, and released by ua.c.
menc_error_handler(x) == [audio_stop(x) EXCEPT !.call = "closed"]

=============================================================================
