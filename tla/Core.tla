-------------------------------- MODULE Core --------------------------------
(***************************************************************************)
(* The media objects of baresip's core in the form of ObjectCode: the      *)
(* transmitting and the receiving half of an audio stream (audio.c,        *)
(* aureceiver.c), of a video stream (video.c), and the player of tones     *)
(* and files (play.c).  The drivers they open are resources here: a source *)
(* or a player calls its handler from a context of its own from the moment *)
(* it is allocated until mem_deref of it has returned.                     *)
(***************************************************************************)
EXTENDS ObjectCode, Naturals, Sequences

\* Two allocations of which each may fail; the error is looked at afterwards.
Both(a, b) ==
    <<Maybe(1), Take(a), Maybe(1), Take(b),
      IfHeld(a, 2), IfHeld(b, 1), Skip(1), Raise>>

\* A driver is opened, or that fails and is only reported.
Open(r, t) == <<Maybe(2), Take(r), Launch(t)>>

\* The same where the error is returned.
OpenOrFail(r, t) == <<Get(r), Launch(t)>>

\* mem_deref of a driver: it has stopped calling when this returns.
CloseDriver(r, t) == <<IfHeld(r, 3)>> \o Halt(t) \o <<Put(r)>>

-----------------------------------------------------------------------------
(* The transmitter of an audio stream: the source fills aubuf, the thread   *)
(* "Audio TX" encodes from it and sends.  "ac" is the pointer to the codec. *)

audio_alloc ==
    <<Get("st"), Get("strm"), Get("aur"), Try>> \o Both("mb", "sampv")
        \o <<Get("telev"), Try>> \o Both("module", "device")
        \o <<Try, Get("mtx")>>

audio_stop_tx ==
    Stop("run", "tx") \o CloseDriver("ausrc", "source")
        \o <<Put("aubuf"), Put("filt")>>

audio_destructor ==
    audio_stop_tx
        \o <<Put("enc"), Put("aubuf"), Put("mb"), Put("sampv"), Put("module"),
             Put("device"), Put("filt"), Put("strm"), Put("telev"), Put("aur"),
             Put("mtx")>>

\* The encoder is used without the mutex.
audio_encode_rtp_send == <<Use({"enc"}), Locked("mtx", {"strm", "mb"})>>

audio_poll_aubuf_tx ==
    <<Lock("mtx"), IfHeld("filt", 1), Use({"filt"}), Use({"aubuf", "sampv"}),
      Unlock("mtx")>> \o audio_encode_rtp_send

audio_check_telev == <<Locked("mtx", {"telev", "strm"})>>

\* The buffer may hold enough for a packet or not.  The mutex is also held
\* where the loop looks at its atomic flags.
audio_tx_thread ==
    LET send == Perhaps(audio_poll_aubuf_tx) \o audio_check_telev
    IN While("run", <<Locked("mtx", {}), Maybe(Len(send) + 1),
                      IfSet("run", Len(send))>> \o send)

\* aubuf may be NULL here when the source was chosen before it was started.
audio_ausrc_read_handler ==
    Serve("source", <<Locked("mtx", {}), IfHeld("aubuf", 1), Use({"aubuf"})>>)

audio_aufilt_setup ==
    <<IfFree("filt", 4), Maybe(3), Lock("mtx"), Take("filt"), Unlock("mtx")>>

audio_flush_filters == <<Lock("mtx"), Put("filt"), Unlock("mtx")>>

\* The sample rate or the number of channels may be another one, and a source
\* is stopped then; the codec has an encoder state, which encupdh allocates or
\* updates.  audio_update sets up the filters once more: nothing changes.
audio_encoder_set ==
    Perhaps(Perhaps(CloseDriver("ausrc", "source") \o audio_flush_filters)
                \o <<Put("enc"), Set({"ac"})>> \o audio_aufilt_setup)
        \o <<IfFree("enc", 1), Get("enc"), Locked("mtx", {"strm"}),
             Use({"telev"})>>

audio_start_source ==
    LET thread == <<IfClear("run", 2), Set({"run"}), Spawn("tx", {"run"})>>
        open == <<IfFree("aubuf", 1), Get("aubuf")>>
                    \o OpenOrFail("ausrc", "source")
                    \o <<Lock("mtx"), Use({"aubuf"})>>
                    \o Abort(<<Unlock("mtx")>>) \o <<Unlock("mtx")>>
                    \o thread
    IN <<IfSet("ac", Len(open) + 3), IfFree("ausrc", Len(open) + 1)>>
       \o Perhaps(open) \o <<Use({"strm"})>>

audio_update_send == audio_encoder_set \o audio_start_source

audio_set_source ==
    CloseDriver("ausrc", "source") \o Perhaps(OpenOrFail("ausrc", "source"))

audio_set_devicename == <<Put("device"), Get("device")>>

audio_set_bitrate == <<IfSet("ac", 2), IfFree("enc", 1), Get("enc")>>

audio_send_digit == <<Locked("mtx", {"telev"})>>

-----------------------------------------------------------------------------
(* The receiver: the RX thread (or the main loop) decodes into aubuf, the   *)
(* player empties it.                                                       *)

aurecv_alloc == <<Get("st"), Get("sampv")>> \o Both("mtx", "aubuf_mtx")

\* audio_alloc names the module and the device of the player.
aurecv_set_names == Both("module", "device")

aurecv_destructor ==
    <<Put("dec"), Put("aubuf"), Put("aubuf_mtx"), Put("sampv"), Put("mtx"),
      Put("filt"), Put("module"), Put("device")>>

aurecv_stop ==
    CloseDriver("auplay", "play")
        \o <<Lock("mtx"), Clear({"ac"}), Unlock("mtx")>>

\* audio_destructor, which has no receiver yet ("aur") when aurecv_alloc has
\* failed: the stream, with its RX thread, goes before the receiver.
aurecv_release ==
    When("aur", aurecv_stop \o Halt("rx")) \o aurecv_destructor

aurecv_alloc_aubuf ==
    <<Lock("aubuf_mtx"), Maybe(3), Take("aubuf"), Maybe(1), Put("aubuf"),
      Unlock("aubuf_mtx")>>

aurecv_push_aubuf ==
    <<IfFree("aubuf", Len(aurecv_alloc_aubuf))>> \o aurecv_alloc_aubuf
        \o <<IfHeld("aubuf", 1), Use({"aubuf"})>>

\* The codec has a decoder state unless decupdh has failed, which its dech
\* checks; a filter may refuse the frame.
aurecv_stream_decode(push) ==
    <<IfSet("ac", Len(push) + 5), IfHeld("dec", 1), Use({"dec", "sampv"}),
      IfHeld("filt", 1), Use({"filt"}), Maybe(Len(push))>> \o push

\* The payload type may be another one, or the timestamp go back.
aurecv_receive(push) ==
    <<Lock("mtx")>> \o Perhaps(aurecv_stream_decode(push)) \o <<Unlock("mtx")>>

aurecv_reset ==
    <<Lock("mtx"), IfHeld("aubuf", 1), Use({"aubuf"}), Unlock("mtx")>>

aurecv_flush ==
    <<Lock("mtx"), IfHeld("aubuf", 1), Use({"aubuf"}), Put("filt"),
      Unlock("mtx")>>

aurecv_stream_recv_handler ==
    Serve("rx", Perhaps(aurecv_reset) \o aurecv_receive(<<>>))

\* The same where only the buffer is of interest.
aurecv_stream_fills ==
    Serve("rx", <<Lock("mtx")>> \o aurecv_push_aubuf \o <<Unlock("mtx")>>)

\* mtx_trylock fails while the buffer is being allocated.
aurecv_auplay_write_handler ==
    Serve("play", <<Maybe(4), Lock("aubuf_mtx"), IfHeld("aubuf", 1),
                    Use({"aubuf"}), Unlock("aubuf_mtx")>>)

\* The player is opened only when there is a decoder; an error is reported.
aurecv_start_player ==
    <<IfSet("ac", 4), IfFree("auplay", 3)>> \o Open("auplay", "play")

aurecv_decoder_set ==
    <<Lock("mtx"), Maybe(2), Set({"ac"}), Put("dec"),
      IfFree("dec", 2), Maybe(1), Take("dec"), Unlock("mtx")>>

aurecv_filt_append ==
    <<IfFree("filt", 3), Lock("mtx"), Take("filt"), Unlock("mtx")>>

\* audio_decoder_set, in audio_update or when the payload type has changed.
aurecv_update ==
    Perhaps(aurecv_stop \o aurecv_flush) \o aurecv_decoder_set
        \o Perhaps(aurecv_filt_append)

\* The names of module and device are replaced first.
aurecv_set_player ==
    CloseDriver("auplay", "play") \o Perhaps(<<Try>> \o aurecv_start_player)

aurecv_debug ==
    <<Lock("mtx"), Lock("aubuf_mtx"), IfHeld("aubuf", 1), Use({"aubuf"}),
      Unlock("aubuf_mtx"), Unlock("mtx")>>

-----------------------------------------------------------------------------
(* A video stream: the source's handler encodes a picture into packets      *)
(* ("sendq"), the thread "Video TX" sends them and keeps them for a while   *)
(* ("sendqnb") in case the peer asks for one again.  Everything else runs   *)
(* in the main loop.  Four kinds of object look at it with some of its      *)
(* contexts each; they share its allocation and its destructor.             *)

video_vtx_alloc ==
    <<Maybe(5), Take("lock_enc"), Maybe(3), Take("lock_tx"), Maybe(1),
      Take("wait")>>

video_vrx_alloc == <<Maybe(1), Take("lock")>>

\* The object has no destructor yet when one of the two has failed.
video_alloc(filters) ==
    <<Get("st")>> \o video_vtx_alloc \o video_vrx_alloc
        \o <<IfHeld("wait", 2), IfHeld("lock", 1), Skip(2), Put("st"), Raise,
             Get("strm"), Try>> \o filters \o <<Try>>

\* run = false; cnd_signal(); thrd_join(): the thread waits while "waiting".
video_stop_thread ==
    When("run", <<Clear({"run"}), Clear({"waiting"}), Join("vtx")>>)

video_flush == <<Lock("lock_tx"), Put("sendq"), Put("sendqnb"),
                 Unlock("lock_tx")>>

\* The source is the owner's to stop; here it goes after lock_tx.
video_destructor(stop) ==
    stop \o video_flush \o <<Put("lock_tx")>>
        \o CloseDriver("vsrc", "source")
        \o <<Lock("lock_enc"), Put("frame"), Put("enc"), Put("vfilt"),
             Unlock("lock_enc"), Put("lock_enc"),
             Lock("lock"), Put("dec"), Put("vidisp"), Put("dfilt"),
             Unlock("lock"), Put("lock"), Put("strm"), Put("peer")>>

\* A packet is put into the queue.
video_packet_handler ==
    <<Locked("lock_tx", {"strm"}), Maybe(5), Lock("lock_tx"),
      IfFree("sendq", 1), Take("sendq"), Unlock("lock_tx"),
      Clear({"waiting"})>>

\* A picture is left out while packets wait.
video_encode_rtp_send(convert) ==
    LET encode == <<Lock("lock_enc")>> \o convert \o <<Use({"enc"})>>
                      \o video_packet_handler \o <<Unlock("lock_enc")>>
        n == Len(encode)
    IN <<Locked("lock_enc", {}), IfHeld("enc", n + 5), Lock("lock_tx"),
         IfHeld("sendq", 2), Unlock("lock_tx"), Skip(n + 1),
         Unlock("lock_tx")>> \o encode

\* The picture is converted, or lost, and goes through the filters.
video_convert ==
    <<Maybe(3), IfFree("frame", 1), Take("frame"), Use({"frame"}),
      IfHeld("vfilt", 1), Use({"vfilt"})>>

video_frame_handler(convert) ==
    Serve("source", video_encode_rtp_send(convert))

\* cnd_wait releases the mutex and waits, in one step; a signal that comes
\* between the test of `run' and the wait is lost.
video_cnd_wait ==
    <<Set({"waiting"}), Unlock("lock_tx")>> \o While("waiting", <<>>)
        \o <<Locked("lock_tx", {})>>

\* The packet in hand stays in the queue until it has been sent; it is then
\* kept for a while, and the oldest ones are released.
video_send(kept) ==
    <<Unlock("lock_tx"), Use({"sendq", "strm"}), Lock("lock_tx"), Maybe(1),
      Put("sendq")>> \o kept \o <<Unlock("lock_tx")>>

video_vtx_thread(kept) ==
    LET wait == video_cnd_wait
        send == video_send(kept)
    IN While("run", <<Lock("lock_tx"), IfFree("sendq", Len(wait) + 1)>>
                        \o wait \o <<Skip(Len(send))>> \o send)

video_keep ==
    <<IfFree("sendqnb", 1), Take("sendqnb"), Maybe(1), Put("sendqnb")>>

video_rtcp_nack_handler ==
    <<Lock("lock_tx"), IfHeld("sendqnb", 3), Use({"sendqnb", "strm"}),
      Maybe(1), Put("sendqnb"), Unlock("lock_tx")>>

\* FIR and PLI, a wish for a key frame, and the timer of the frame rate.
video_rtcp_handler == <<Locked("lock_enc", {})>>

\* A source that cannot be opened is only reported, and so would be a thread:
\* the result of thread_create_name is not looked at.
video_start_source(thread) ==
    LET start == <<Put("vsrc"), IfFree("vsrc", 3)>> \o Open("vsrc", "source")
                     \o thread \o <<Use({"strm"})>>
    IN <<IfFree("vsrc", Len(start))>> \o start

video_create_thread ==
    <<IfClear("run", 3), Set({"run"}), Maybe(1), Create("vtx")>>

video_stop_source(stop) ==
    CloseDriver("vsrc", "source") \o stop \o video_flush

video_set_source ==
    CloseDriver("vsrc", "source") \o OpenOrFail("vsrc", "source")

\* The codec may be the one in use.
video_encoder_set ==
    <<Lock("lock_enc"), Maybe(3), Put("enc"), Maybe(1), Take("enc"),
      Unlock("lock_enc")>>

video_decoder_set == <<Maybe(2), Put("dec"), Get("dec")>>

video_start_display ==
    <<IfFree("vidisp", 5), Maybe(2), Put("peer"), Get("peer"), Put("vidisp"),
      Get("vidisp")>>

video_stop_display == <<Put("vidisp")>>

\* With filters the picture is copied; a display that was closed is released
\* and the owner told.
video_stream_decode ==
    LET filter == <<IfHeld("dfilt", 4), Maybe(3), Take("frame_filt"),
                    Use({"frame_filt", "dfilt"}), Put("frame_filt")>>
        closed == <<Put("vidisp"), Unlock("lock"), Tell, Skip(1)>>
        show == <<IfHeld("vidisp", 1 + Len(closed)), Maybe(Len(closed))>>
                    \o closed
    IN <<Lock("lock"), IfHeld("dec", Len(filter) + Len(show) + 2),
         Use({"dec", "strm"}), Maybe(Len(filter) + Len(show))>>
       \o filter \o show \o <<Unlock("lock")>>

-----------------------------------------------------------------------------
(* The player of tones and files.  "owner" is the caller's pointer to the   *)
(* object, which the destructor clears through play->playp (the flag).      *)

\* play_file makes playp point to its own variable, and then to the caller's
\* if there is one.
play_set_playp == <<Set({"playp"}), Maybe(1), Take("owner")>>

play_destructor ==
    <<Lock("lock"), Set({"eof"}), Unlock("lock")>>
        \o CloseDriver("ausrc_st", "source") \o CloseDriver("auplay", "write")
        \o <<Put("mod"), Put("dev"), Put("mb"), Put("lock"), Put("aubuf"),
             Put("filename")>>
        \o When("playp", <<Close("owner")>>)

\* The last repetition is over, or the next one is due at `trep'.
play_check_restart ==
    <<IfSet("trep", 3), Maybe(1), Clear({"trep"}), Skip(4)>>
        \o Either(<<Set({"eof"})>>, <<Set({"trep"})>>)

play_tone_write_handler ==
    LET body == <<Use({"mb"})>> \o Perhaps(play_check_restart)
    IN Serve("write", <<Lock("lock"), IfClear("eof", Len(body))>> \o body
                          \o <<Unlock("lock")>>)

\* The variables of play_file: the name, the path and the samples.  On an
\* error, the one of allocating the object included, they are released.
play_file_load ==
    <<Get("file")>> \o Abort(<<Put("file")>>) \o <<Take("path")>>
        \o Abort(<<Put("file"), Put("path")>>) \o <<Take("tone")>>
        \o Abort(<<Put("tone"), Put("file"), Put("path")>>)

play_file_done == <<Put("tone"), Put("file"), Put("path"), Put("srcn")>>

play_tone ==
    <<Take("st"), Take("mb"), Get("lock")>> \o OpenOrFail("auplay", "write")

\* The source's handler.
play_ausrc_read_handler ==
    Serve("source", <<IfClear("eof", 1), Use({"aubuf"})>>)

play_aubuf_write_handler ==
    LET restart == <<IfClear("trep", Len(play_check_restart) + 2),
                     IfFree("ausrc_st", Len(play_check_restart) + 1)>>
                       \o Perhaps(play_check_restart)
    IN Serve("write", <<Use({"aubuf"}), Lock("lock")>> \o restart
                          \o <<Unlock("lock")>>)

\* Called by the main loop when the source has come to its end.
play_ausrc_error_handler ==
    <<Lock("lock")>> \o CloseDriver("ausrc_st", "source")
        \o <<Unlock("lock")>>

\* The copies of the names are not checked; NULL would do as well.
play_file_ausrc ==
    <<Get("st"), Get("lock"), Take("mod"), Take("dev"), Take("filename"),
      Get("aubuf")>> \o OpenOrFail("ausrc_st", "source")

\* The timer: it releases the object on an error, and after the last
\* repetition.
play_tmr_polling ==
    <<Lock("lock"), IfClear("eof", 4), IfFree("auplay", 3)>>
        \o Open("auplay", "write")
        \o <<IfSet("trep", 5), Clear({"trep"}), Use({"aubuf"})>>
        \o Open("ausrc_st", "source") \o <<Unlock("lock")>>

CoreProg ==
    [k \in {"audio_tx", "audio_src", "audio_rx", "audio_play",
            "video_tx", "video_nack", "video_enc", "video_rx",
            "play_tone", "play_file"} |->
        CASE k = "audio_tx" ->
               [Threaded(audio_alloc, audio_destructor,
                         [tx |-> audio_tx_thread,
                          source |-> audio_ausrc_read_handler])
                  EXCEPT !.ops = [update |-> audio_update_send,
                                  stop |-> audio_stop_tx]]
          [] k = "audio_src" ->
               [Threaded(audio_alloc, audio_destructor,
                         [source |-> audio_ausrc_read_handler])
                  EXCEPT !.ops = [encoder |-> audio_encoder_set,
                                  source |-> audio_set_source,
                                  device |-> audio_set_devicename,
                                  bitrate |-> audio_set_bitrate,
                                  digit |-> audio_send_digit]]
          [] k = "audio_rx" ->
               [Threaded(aurecv_alloc \o <<Set({"aur"})>> \o aurecv_set_names
                             \o <<Launch("rx")>>, aurecv_release,
                         [rx |-> aurecv_stream_recv_handler])
                  EXCEPT !.ops = [update |-> aurecv_update,
                                  flush |-> aurecv_flush]]
          [] k = "audio_play" ->
               [Threaded(aurecv_alloc \o <<Set({"aur", "ac"})>> \o aurecv_set_names
                             \o <<Launch("rx")>>,
                         aurecv_release,
                         [rx |-> aurecv_stream_fills,
                          play |-> aurecv_auplay_write_handler])
                  EXCEPT !.ops = [player |-> aurecv_set_player,
                                  debug |-> aurecv_debug,
                                  reset |-> aurecv_reset,
                                  stop |-> aurecv_stop]]
          [] k = "video_tx" ->
               [Threaded(video_alloc(<<>>),
                         video_destructor(video_stop_thread),
                         [vtx |-> video_vtx_thread(<<>>),
                          source |-> Serve("source", video_packet_handler)])
                  EXCEPT !.ops =
                      [start |-> video_start_source(video_create_thread),
                       stop |-> video_stop_source(video_stop_thread)]]
          [] k = "video_nack" ->
               [Threaded(video_alloc(<<>>),
                         video_destructor(video_stop_thread),
                         [vtx |-> video_vtx_thread(video_keep)])
                  EXCEPT !.ops =
                      [start |-> <<IfFree("sendq", 1), Take("sendq")>>
                                     \o video_create_thread,
                       nack |-> video_rtcp_nack_handler,
                       stop |-> video_stop_source(video_stop_thread)]]
          [] k = "video_enc" ->
               [Threaded(video_alloc(<<Maybe(1), Take("vfilt")>>),
                         video_destructor(<<>>),
                         [source |-> video_frame_handler(video_convert)])
                  EXCEPT !.ops =
                      [start |-> video_start_source(<<>>),
                       encoder |-> video_encoder_set,
                       source |-> video_set_source,
                       rtcp |-> video_rtcp_handler,
                       stop |-> video_stop_source(<<>>)]]
          [] k = "video_rx" ->
               Operated(video_alloc(<<Maybe(1), Take("dfilt")>>),
                        video_destructor(<<>>),
                        [decoder |-> video_decoder_set,
                         display |-> video_start_display,
                         recv |-> video_stream_decode,
                         stop |-> video_stop_display])
          [] k = "play_tone" ->
               [Threaded(play_file_load \o play_tone \o play_set_playp
                             \o play_file_done, play_destructor,
                         [write |-> play_tone_write_handler])
                  EXCEPT !.fail = play_file_done]
          [] k = "play_file" ->
               [Threaded(play_file_ausrc \o play_set_playp, play_destructor,
                         [source |-> play_ausrc_read_handler,
                          write |-> play_aubuf_write_handler])
                  EXCEPT !.ops = [polling |-> play_tmr_polling,
                                  end |-> play_ausrc_error_handler]]]
=============================================================================
