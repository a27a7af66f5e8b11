---------------------------- MODULE AudioDrivers ----------------------------
(***************************************************************************)
(* The audio drivers of baresip, each function of each driver as the       *)
(* sequence of its steps on what its contexts share (see ObjectCode).      *)
(* Audio formats, device names and the parameters handed to the sound      *)
(* libraries are left out: a call into a library either succeeds or fails. *)
(***************************************************************************)
EXTENDS ObjectCode, Sequences

-----------------------------------------------------------------------------
(* ALSA *)

alsa_reset == Try

alsa_play_destructor_Early ==
    <<Put("pcm")>> \o Stop("run", "write") \o <<Put("sampv"), Put("device")>>

\* static void auplay_destructor(void *arg)
alsa_play_destructor ==
    Stop("run", "write") \o <<Put("pcm"), Put("sampv"), Put("device")>>

\* The frame is filled by the owner and written; the device is dropped when
\* the thread has been told to stop.
alsa_write_thread ==
    While("run", <<Use({"sampv"}), Call, Use({"pcm", "sampv"})>>)
        \o <<Use({"pcm"})>>

alsa_play_alloc ==
    <<Get("st"), Get("device"), Get("sampv"), Get("pcm"), Try, alsa_reset,
      Set({"run"}), Spawn("write", {"run"})>>

alsa_src_destructor ==
    Stop("run", "read") \o <<Put("pcm"), Put("sampv"), Put("device")>>

\* Nothing is delivered after an overrun, which is repaired, or an error.
alsa_read_thread ==
    <<Use({"pcm"}), Try>>
        \o While("run", <<Use({"pcm", "sampv"}), Maybe(1), Call>>)

alsa_src_alloc ==
    <<Get("st"), Get("device"), Get("sampv"), Get("pcm"), Try, alsa_reset,
      Set({"run"}), Spawn("read", {"run"})>>

-----------------------------------------------------------------------------
(* Files *)

\* `started' remembers the thread: the thread clears `run' itself when the
\* file is at its end.
aufile_src_destructor ==
    When("started", <<Clear({"run"}), Join("src")>>)
        \o <<Clear({"timeout"}), Put("aufile"), Put("aubuf")>>

aufile_src_thread ==
    <<Get("sampv")>>
        \o While("run", <<Maybe(4), Use({"aubuf", "sampv"}), Call,
                          Use({"aubuf"}), Maybe(1)>>)
        \o <<Put("sampv"), Clear({"run"})>>

\* A timer of the main loop watches `run' and reports the end of the file.
aufile_src_timeout ==
    Serve("timeout", <<IfClear("run", 2), Clear({"timeout"}), Errh>>)

\* The file is read into the buffer before the thread exists.
aufile_read_file == <<Use({"aufile"}), Try, Use({"aubuf"})>>

\* Without a read handler the source is made for its duration only.
aufile_src_alloc ==
    <<Get("st"), Get("aufile")>>
        \o Perhaps(<<Get("aubuf")>> \o aufile_read_file
                     \o <<Launch("timeout"), Set({"run", "started"}),
                          Spawn("src", {"run", "started"})>>)

aufile_play_destructor == Stop("run", "write") \o <<Put("auf"), Put("sampv")>>

aufile_write_thread ==
    While("run", <<Use({"sampv"}), Call, Use({"auf", "sampv"}), Maybe(1)>>)

\* The first two errors are plain returns.
aufile_play_alloc ==
    <<Get("st"), GetOrReturn("auf"), GetOrReturn("sampv"), Set({"run"}),
      Spawn("write", {"run"})>>

ausine_destructor_Waits == When("run", <<Join("play")>>)

ausine_destructor == Stop("run", "play")

ausine_play_thread ==
    <<Get("sampv")>>
        \o While("run", <<Maybe(2), Use({"sampv"}), Call>>) \o <<Put("sampv")>>

ausine_alloc == <<Get("st"), Try, Set({"run"}), Spawn("play", {"run"})>>

-----------------------------------------------------------------------------
(* sndio *)

sndio_initpar == Get("par")

sndio_ausrc_destructor == Stop("run", "read") \o <<Put("hdl"), Put("sampv")>>

sndio_read_thread ==
    <<Use({"hdl"}), Try>>
        \o While("run", <<Use({"hdl", "sampv"}), Call>>)

sndio_auplay_destructor == Stop("run", "write") \o <<Put("hdl"), Put("sampv")>>

sndio_write_thread ==
    <<Use({"hdl"}), Try>>
        \o While("run", <<Use({"sampv"}), Call, Use({"hdl", "sampv"})>>)

\* The parameters are released on every way out.
sndio_src_alloc ==
    <<Get("st"), Get("hdl"), sndio_initpar, Try, Try, Get("sampv"),
      Set({"run"}), Spawn("read", {"run"}), Put("par")>>

sndio_play_alloc ==
    <<Get("st"), Get("hdl"), sndio_initpar, Try, Try, Get("sampv"),
      Set({"run"}), Spawn("write", {"run"}), Put("par")>>

-----------------------------------------------------------------------------
(* PulseAudio: callbacks are issued by the thread of the connection's main  *)
(* loop, under its lock.                                                    *)

\* The wait for the flush gives up the lock.
pulse_stream_flush == <<LoopUnlock, LoopLock>>

\* cb: the data callback of the stream's direction.
pastream_destructor(cb) ==
    <<LoopLock, Set({"shutdown"}), Clear({cb})>>
        \o (IF cb = "write" THEN pulse_stream_flush ELSE <<>>)
        \o <<Put("stream"), LoopUnlock, Put("b")>>

pastream_alloc == Get("b")

\* Every way out of it unlocks; a stream that could not be connected stays
\* in the object, for the destructor.
pastream_start(cb) ==
    <<LoopLock, Maybe(5), Take("stream"), Launch(cb), Maybe(2), LoopUnlock,
      Skip(2), LoopUnlock, Raise>>

pulse_auplay_destructor == pastream_destructor("write")

pulse_player_alloc == <<Get("st"), pastream_alloc>> \o pastream_start("write")

pulse_stream_write_cb ==
    ServeLocked("write", <<Use({"b"}), IfClear("shutdown", 4), Maybe(3),
                           Use({"stream"}), Call, Use({"stream"})>>)

pulse_ausrc_destructor == pastream_destructor("read") \o <<Put("sampv")>>

pulse_recorder_alloc ==
    <<Get("st"), Get("sampv"), pastream_alloc>> \o pastream_start("read")

pulse_stream_read_cb ==
    ServeLocked("read", <<Use({"b"}), IfClear("shutdown", 3), Maybe(2),
                          Use({"stream", "sampv"}), Call>>)

-----------------------------------------------------------------------------
(* PortAudio *)

portaudio_read_callback ==
    Serve("read", <<IfSet("ready", 2), Use({"stream_rd"}), Call>>)

portaudio_write_callback == Serve("write", <<IfSet("ready", 1), Call>>)

portaudio_read_stream_open == <<Get("stream_rd"), Try, Launch("read")>>

portaudio_write_stream_open == <<Get("stream_wr"), Try, Launch("write")>>

portaudio_ausrc_destructor ==
    <<Clear({"ready"})>> \o Halt("read") \o <<Put("stream_rd")>>

portaudio_auplay_destructor ==
    <<Clear({"ready"})>> \o Halt("write") \o <<Put("stream_wr")>>

portaudio_find_device == Try

portaudio_src_alloc ==
    <<portaudio_find_device, Get("st"), Set({"ready"})>>
        \o portaudio_read_stream_open

portaudio_play_alloc ==
    <<portaudio_find_device, Get("st"), Set({"ready"})>>
        \o portaudio_write_stream_open

-----------------------------------------------------------------------------
(* JACK *)

\* Samples of 16 bits are converted, and resampled where the server's rate
\* differs, by way of a buffer made on first use.
jack_play_process_handler ==
    Serve("process",
          <<IfSet("s16", 12), IfFree("resamp", 3), Use({"sampv_lin"}), Call,
            Skip(7), IfFree("sampv_rs", 2), Maybe(9), Take("sampv_rs"),
            Use({"sampv_rs"}), Call, Use({"resamp", "sampv_rs", "sampv_lin"}),
            Maybe(4), Use({"sampv", "sampv_lin"}), IfClear("s16", 1), Call,
            Use({"sampv", "portv"})>>)

jack_play_destructor ==
    Halt("process")
        \o <<Put("client"), Put("sampv"), Put("portv"), Put("resamp"),
             Put("sampv_rs"), Put("sampv_lin")>>

jack_play_start_jack ==
    <<Get("client"), Try>>
        \o Perhaps(<<Set({"s16"})>> \o Perhaps(<<Get("resamp"), Try>>)
                     \o <<Get("sampv_lin")>>)
        \o <<Get("sampv"), Try, Try, Launch("process"), Try>>

jack_play_alloc == <<Get("st"), Get("portv")>> \o jack_play_start_jack

jack_src_process_handler ==
    Serve("process", <<Use({"client", "portv", "sampv"}), Call>>)

jack_src_destructor ==
    Halt("process") \o <<Put("client"), Put("sampv"), Put("portv")>>

jack_src_start_jack ==
    <<Get("client"), Try, Get("sampv"), Try, Try, Launch("process"), Try>>

jack_src_alloc == <<Get("st"), Get("portv")>> \o jack_src_start_jack

-----------------------------------------------------------------------------
(* PipeWire: the stream is connected under the lock of the connection's     *)
(* loop; the process callback runs on a thread of its own without it.       *)

\* A stream that could not be made is handed to pw_stream_destroy all the
\* same.
pipewire_ausrc_destructor ==
    <<LoopLock, Put("rh")>> \o Halt("process") \o <<Close("stream"), LoopUnlock>>

\* Neither the first nor the second early exit unlocks; the second one is
\* taken for success.
pipewire_capture_alloc ==
    <<Get("st"), Take("rh"), LoopLock, Get("stream"), Maybe(6), Maybe(3),
      Launch("process"), LoopUnlock, Skip(2), LoopUnlock, Raise>>

\* The handler is read twice, for the test and for the call.
pipewire_capture_on_process ==
    Serve("process", <<Use({"stream"}), Maybe(4), IfHeld("rh", 2),
                       Use({"rh"}), Call, Use({"stream"})>>)

pipewire_auplay_destructor ==
    <<LoopLock, Put("wh")>> \o Halt("process") \o <<Close("stream"), LoopUnlock>>

pipewire_playback_alloc ==
    <<Get("st"), Take("wh"), LoopLock, Get("stream"), Maybe(6), Maybe(3),
      Launch("process"), LoopUnlock, Skip(2), LoopUnlock, Raise>>

pipewire_playback_on_process ==
    Serve("process", <<Use({"stream"}), Maybe(4), IfHeld("wh", 2),
                       Use({"wh"}), Call, Use({"stream"})>>)

-----------------------------------------------------------------------------
(* AAudio: a disconnected stream is replaced by a detached thread.          *)

\* `opened': the pointer to the stream has been set; it never is NULL again.
aaudio_close_stream ==
    When("opened", <<Use({"stream"})>> \o Halt("data") \o <<Put("stream")>>)

aaudio_recorder_destructor ==
    aaudio_close_stream \o <<IfClear("nosampv", 1), Put("sampv")>>

\* A buffer that cannot be enlarged is lost.
aaudio_recorder_dataCallback ==
    Serve("data", <<Maybe(1), Set({"nosampv"}), IfClear("nosampv", 2),
                    Use({"sampv"}), Call>>)

aaudio_open_recorder_stream ==
    <<Get("builder"), Get("stream"), Set({"opened"}), Launch("error"),
      Put("builder")>>

aaudio_restart_recorder_stream ==
    <<Use({"stream"})>> \o Halt("data") \o <<Put("stream")>>
        \o aaudio_open_recorder_stream \o Perhaps(<<Launch("data")>>)

aaudio_recorder_errorCallback ==
    Serve("error", <<Maybe(2), Clear({"error"}), Spawn("restart", {})>>)

aaudio_recorder_alloc ==
    <<Get("st"), Get("sampv")>> \o aaudio_open_recorder_stream
        \o <<Try, Launch("data")>>

aaudio_player_destructor == aaudio_close_stream

aaudio_player_dataCallback == Serve("data", <<Call>>)

aaudio_open_player_stream ==
    <<Get("builder"), Get("stream"), Set({"opened"}), Launch("error"),
      Put("builder")>>

aaudio_restart_player_stream ==
    <<Use({"stream"})>> \o Halt("data") \o <<Put("stream")>>
        \o aaudio_open_player_stream \o Perhaps(<<Launch("data")>>)

aaudio_player_errorCallback ==
    Serve("error", <<Maybe(2), Clear({"error"}), Spawn("restart", {})>>)

aaudio_player_alloc ==
    <<Get("st")>> \o aaudio_open_player_stream \o <<Try, Launch("data")>>

-----------------------------------------------------------------------------
(* OpenSL ES *)

opensles_player_destructor ==
    Halt("bqPlayer") \o <<Put("bqPlayerObject"), Put("outputMixObject"),
                          Put("sampv0"), Put("sampv1")>>

\* What the callback does, also called once to start things.
opensles_fill == <<Use({"sampv0", "sampv1"}), Call>>

opensles_bqPlayerCallback ==
    Serve("bqPlayer", opensles_fill \o <<Use({"bqPlayerObject"})>>)

opensles_createOutput == <<Get("outputMixObject"), Try>>

opensles_createPlayer == <<Get("bqPlayerObject"), Try, Try, Try, Try, Try>>

opensles_player_alloc ==
    <<Get("st"), Get("sampv0"), Get("sampv1")>> \o opensles_createOutput
        \o opensles_createPlayer \o opensles_fill
        \o <<Use({"bqPlayerObject"}), Launch("bqPlayer")>>

\* An object that was never realized is not destroyed.
opensles_recorder_destructor ==
    When("realized", Halt("bqRecorder") \o <<Put("recObject")>>)
        \o <<Put("sampv0"), Put("sampv1")>>

opensles_bqRecorderCallback ==
    Serve("bqRecorder", opensles_fill \o <<Use({"recObject", "sampv0"})>>)

opensles_createAudioRecorder ==
    <<Get("recObject"), Try, Set({"realized"}), Try, Try, Try>>

opensles_startRecording ==
    <<Use({"recObject", "sampv0"}), Try, Try, Launch("bqRecorder")>>

opensles_recorder_alloc ==
    <<Get("st"), Get("sampv0"), Get("sampv1")>>
        \o opensles_createAudioRecorder \o opensles_startRecording

-----------------------------------------------------------------------------
(* Core Audio: the callbacks fetch the owner's handler under a mutex, the   *)
(* destructors clear it.                                                    *)

coreaudio_ausrc_destructor ==
    Forget("mutex", "rh")
        \o Halt("record") \o <<Put("buf"), Put("queue"), Put("mutex")>>

coreaudio_record_handler ==
    Serve("record", Fetch("mutex", "rh", <<Use({"buf"}), Call, Use({"queue"})>>))

\* The first error comes before the mutex is made.
coreaudio_recorder_alloc ==
    <<Get("st"), Set({"rh"}), Try, Get("mutex"), Get("queue"), Try, Get("buf"),
      Try, Launch("record")>>

coreaudio_auplay_destructor ==
    Forget("mutex", "wh")
        \o Halt("play") \o <<Put("buf"), Put("queue"), Put("mutex")>>

coreaudio_play_handler ==
    Serve("play", Fetch("mutex", "wh", <<Use({"buf"}), Call, Use({"queue"})>>))

coreaudio_player_alloc ==
    <<Get("st"), Set({"wh"}), Try, Get("mutex"), Get("queue"), Try, Get("buf"),
      Try, Launch("play")>>

audiounit_ausrc_destructor ==
    Forget("mutex", "rh")
        \o Halt("input") \o <<Put("au_in"), Put("au_conv"), Put("sess"),
                               Put("buf"), Put("mutex")>>

\* What was rendered is converted, in this callback too, and delivered.
audiounit_input_callback ==
    Serve("input",
          Fetch("mutex", "rh",
                <<Use({"buf"}), Use({"au_in"}), Maybe(2),
                  Use({"au_conv", "buf"}), Call>>))

\* The audio session interrupts and resumes the unit.
audiounit_recorder_interrupt_handler ==
    <<Use({"au_in"}), Maybe(3), Clear({"input"}), Await("input"), Skip(1),
      Launch("input")>>

audiounit_recorder_alloc ==
    <<Get("st"), Set({"rh"}), Try, Get("buf"), Get("mutex"), Get("sess"),
      Get("au_in"), Try, Try, Try, Get("au_conv"), Try, Try, Try, Try,
      Launch("input")>>

audiounit_auplay_destructor ==
    Forget("mutex", "wh")
        \o Halt("output") \o <<Put("au"), Put("sess"), Put("mutex")>>

audiounit_output_callback == Serve("output", Fetch("mutex", "wh", <<Call>>))

audiounit_player_interrupt_handler ==
    <<Use({"au"}), Maybe(3), Clear({"output"}), Await("output"), Skip(1),
      Launch("output")>>

\* The last error comes after the unit was started.
audiounit_player_alloc ==
    <<Get("st"), Set({"wh"}), Try, Get("mutex"), Get("sess"), Get("au"), Try,
      Try, Try, Try, Try, Launch("output"), Try>>

-----------------------------------------------------------------------------
(* WASAPI: the threads make and release the interfaces they use.            *)

wasapi_src_destructor == Stop("run", "src") \o <<Put("sampv"), Put("device")>>

wasapi_src_thread ==
    Guarded(<<Take("com"), Take("enumerator"), Use({"device"}),
              Take("capturer"), Take("client"), Take("format"),
              Use({"client", "format"}), Take("service"), Use({"client"})>>,
            While("run", <<Use({"service"}), Maybe(5), Maybe(3),
                           Use({"service", "format"}), Call, Maybe(1)>>),
            <<Put("service"), Put("client"), Put("capturer"),
              Put("enumerator"), Put("format"), Put("com")>>)

wasapi_src_alloc ==
    <<Get("st"), Get("device"), Get("sampv"), Set({"run"}),
      Spawn("src", {"run"})>>

wasapi_play_destructor == Stop("run", "play") \o <<Put("sampv"), Put("device")>>

\* The device interface itself is not among what is released.
wasapi_play_thread ==
    Guarded(<<Take("com"), Take("enumerator"), Use({"device"}),
              Take("renderer"), Take("client"), Take("format"),
              Use({"client", "format"}), Take("service"), Use({"client"})>>,
            While("run", <<Use({"client"}), Maybe(6), Maybe(4), Use({"sampv"}),
                           Call, Use({"service", "sampv"}), Maybe(1)>>),
            <<Put("service"), Put("client"), Put("enumerator"), Put("format"),
              Put("com")>>)

wasapi_play_alloc ==
    <<Get("st"), Get("device"), Get("sampv"), Set({"run"}),
      Spawn("play", {"run"})>>

-----------------------------------------------------------------------------
(* GStreamer: buffers and bus messages come from threads of the pipeline.   *)

gst_sync_handler ==
    Serve("bus", <<Maybe(3), Clear({"run"}), Set({"eos"}), Skip(5),
                   Maybe(4), Set({"err"}), IfSet("errh", 1), Errh,
                   Clear({"run"})>>)

gst_play_packet == <<Use({"aubuf", "buf"}), Maybe(1), Call>>

gst_packet_handler ==
    <<IfSet("run", 5), Use({"aubuf"}), IfSet("run", 3)>> \o gst_play_packet

gst_handoff_handler == Serve("handoff", gst_packet_handler)

\* In the end the pipeline owns the elements made on the way.
gst_setup ==
    <<Get("pipeline"), Get("source"), Take("bin"), Get("capsfilt"),
      Get("sink"), Put("sink"), Put("capsfilt"), Put("bin"), Put("source")>>

gst_setup_uri == Get("uri")

gst_destructor ==
    <<Clear({"run"}), Clear({"timeout"})>> \o Halt("handoff") \o Halt("bus")
        \o <<Put("pipeline"), Put("uri"), Put("aubuf"), Put("buf")>>

gst_timeout ==
    Serve("timeout", <<IfClear("run", 3), Clear({"timeout"}),
                       IfSet("eos", 1), Errh>>)

\* A pipeline that is at its end before the timer was started is taken for
\* success, without a timer.
gst_alloc ==
    <<Get("st"), gst_setup_uri, Get("buf"), Get("aubuf")>> \o gst_setup
        \o <<Set({"run"}), Launch("handoff"), Launch("bus"),
             IfClear("run", 3), IfSet("err", 1), Raise, Skip(2),
             Set({"errh"}), Launch("timeout")>>

-----------------------------------------------------------------------------
(* sndfile: an audio filter that opens its file with the first frame.       *)

sndfile_enc_destructor == <<Put("encf"), Put("filename")>>

sndfile_dec_destructor == <<Put("decf"), Put("filename")>>

sndfile_filename_alloc == Get("filename")

sndfile_openfile(r) == <<Set({"err"}), Get(r), Clear({"err"})>>

sndfile_encode_update == <<Get("st"), sndfile_filename_alloc>>

sndfile_decode_update == <<Get("st"), sndfile_filename_alloc>>

\* A file that could not be opened is not tried again.
sndfile_encode ==
    <<IfClear("err", 5), IfFree("encf", 3)>> \o sndfile_openfile("encf")
        \o <<Use({"encf"})>>

sndfile_decode ==
    <<IfClear("err", 5), IfFree("decf", 3)>> \o sndfile_openfile("decf")
        \o <<Use({"decf"})>>

-----------------------------------------------------------------------------
AudioProg ==
    [alsa_play |-> Threaded(alsa_play_alloc, alsa_play_destructor,
                            [write |-> alsa_write_thread]),
     alsa_src |-> Threaded(alsa_src_alloc, alsa_src_destructor,
                           [read |-> alsa_read_thread]),
     aufile_src |-> [Threaded(aufile_src_alloc, aufile_src_destructor,
                              [src |-> aufile_src_thread,
                               timeout |-> aufile_src_timeout])
                       EXCEPT !.loop = {"timeout"}],
     aufile_play |-> Threaded(aufile_play_alloc, aufile_play_destructor,
                              [write |-> aufile_write_thread]),
     ausine |-> Threaded(ausine_alloc, ausine_destructor,
                         [play |-> ausine_play_thread]),
     sndio_src |-> [Threaded(sndio_src_alloc, sndio_ausrc_destructor,
                             [read |-> sndio_read_thread])
                      EXCEPT !.fail = <<Put("par")>>],
     sndio_play |-> [Threaded(sndio_play_alloc, sndio_auplay_destructor,
                              [write |-> sndio_write_thread])
                       EXCEPT !.fail = <<Put("par")>>],
     pulse_player |-> Threaded(pulse_player_alloc, pulse_auplay_destructor,
                               [write |-> pulse_stream_write_cb]),
     pulse_recorder |-> Threaded(pulse_recorder_alloc, pulse_ausrc_destructor,
                                 [read |-> pulse_stream_read_cb]),
     portaudio_src |-> Threaded(portaudio_src_alloc,
                                portaudio_ausrc_destructor,
                                [read |-> portaudio_read_callback]),
     portaudio_play |-> Threaded(portaudio_play_alloc,
                                 portaudio_auplay_destructor,
                                 [write |-> portaudio_write_callback]),
     jack_play |-> Threaded(jack_play_alloc, jack_play_destructor,
                            [process |-> jack_play_process_handler]),
     jack_src |-> Threaded(jack_src_alloc, jack_src_destructor,
                           [process |-> jack_src_process_handler]),
     pipewire_capture |-> Threaded(pipewire_capture_alloc,
                                   pipewire_ausrc_destructor,
                                   [process |-> pipewire_capture_on_process]),
     pipewire_playback |-> Threaded(pipewire_playback_alloc,
                                    pipewire_auplay_destructor,
                                    [process |-> pipewire_playback_on_process]),
     aaudio_recorder |-> [Threaded(aaudio_recorder_alloc,
                                   aaudio_recorder_destructor,
                                   [data |-> aaudio_recorder_dataCallback,
                                    error |-> aaudio_recorder_errorCallback,
                                    restart |-> aaudio_restart_recorder_stream])
                            EXCEPT !.fail = aaudio_close_stream],
     aaudio_player |-> [Threaded(aaudio_player_alloc, aaudio_player_destructor,
                                 [data |-> aaudio_player_dataCallback,
                                  error |-> aaudio_player_errorCallback,
                                  restart |-> aaudio_restart_player_stream])
                          EXCEPT !.fail = aaudio_close_stream],
     opensles_player |-> Threaded(opensles_player_alloc,
                                  opensles_player_destructor,
                                  [bqPlayer |-> opensles_bqPlayerCallback]),
     opensles_recorder |-> Threaded(opensles_recorder_alloc,
                                    opensles_recorder_destructor,
                                    [bqRecorder |-> opensles_bqRecorderCallback]),
     coreaudio_recorder |-> Threaded(coreaudio_recorder_alloc,
                                     coreaudio_ausrc_destructor,
                                     [record |-> coreaudio_record_handler]),
     coreaudio_player |-> Threaded(coreaudio_player_alloc,
                                   coreaudio_auplay_destructor,
                                   [play |-> coreaudio_play_handler]),
     audiounit_recorder |-> [Threaded(audiounit_recorder_alloc,
                                      audiounit_ausrc_destructor,
                                      [input |-> audiounit_input_callback])
                               EXCEPT !.ops = [interrupt |-> audiounit_recorder_interrupt_handler]],
     audiounit_player |-> [Threaded(audiounit_player_alloc,
                                    audiounit_auplay_destructor,
                                    [output |-> audiounit_output_callback])
                             EXCEPT !.ops = [interrupt |-> audiounit_player_interrupt_handler]],
     wasapi_src |-> Threaded(wasapi_src_alloc, wasapi_src_destructor,
                             [src |-> wasapi_src_thread]),
     wasapi_play |-> Threaded(wasapi_play_alloc, wasapi_play_destructor,
                              [play |-> wasapi_play_thread]),
     gst |-> [Threaded(gst_alloc, gst_destructor,
                       [handoff |-> gst_handoff_handler,
                        bus |-> gst_sync_handler, timeout |-> gst_timeout])
                EXCEPT !.loop = {"timeout"}],
     sndfile_enc |-> Operated(sndfile_encode_update, sndfile_enc_destructor,
                              [encode |-> sndfile_encode]),
     sndfile_dec |-> Operated(sndfile_decode_update, sndfile_dec_destructor,
                              [decode |-> sndfile_decode])]
=============================================================================
