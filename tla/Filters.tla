------------------------------ MODULE Filters -------------------------------
(***************************************************************************)
(* The audio and video filters of baresip, in the form of ObjectCode.  A   *)
(* filter state is made by the encode or decode update handler and works   *)
(* on the frames of one call.  The owner (audio.c, video.c) calls one      *)
(* function of a state at a time, except where the filter is also reached  *)
(* by commands or through other calls: there the calls with frames are a   *)
(* context of their own, which the owner ends before it releases the       *)
(* filter (Filtering, Unfiltered).                                         *)
(***************************************************************************)
EXTENDS ObjectCode, Naturals, Sequences

\* The owner's thread begins to pass frames; it stops doing so.
Filtering == <<Launch("frames")>>

Unfiltered == Halt("frames")

-----------------------------------------------------------------------------
(* Audio filters on their own *)

\* The flag "buf" is the pointer, the resource what it points to.
auconv_destructor == When("buf", <<Put("buf")>>)

auconv_update == <<Get("st")>>

\* The pointer is assigned the result of mem_reallocarray, which on failure is
\* NULL and leaves the old buffer as it was.
auconv_realloc ==
    Abort(<<Clear({"buf"})>>)
        \o <<IfSet("buf", 1), Put("buf"), Take("buf"), Set({"buf"})>>

auconv_frame ==
    <<Maybe(Len(auconv_realloc) + 3), IfSet("buf", 1),
      Maybe(Len(auconv_realloc))>>
        \o auconv_realloc \o <<Use({"buf"})>>

augain_encode_update == <<Get("st")>>

augain_encode == <<Use({})>>

plc_update == <<Get("st"), Try>>

plc_decode == <<Use({})>>

auresamp_common_destructor == <<Put("rsampv"), Put("sampv")>>

auresamp_common_update == <<Try, Get("st")>>

auresamp_rsampv_check_size == <<Maybe(2), Put("rsampv"), Get("rsampv")>>

\* The rates are equal, or the frame is converted: to 16 bit if it has another
\* format, to the output's rate, and to the output's format.
auresamp_common_resample ==
    <<Maybe(3), Put("rsampv"), Put("sampv"), Skip(12), Maybe(3),
      IfFree("sampv", 1), Get("sampv"), Use({"sampv"}), Try>>
        \o <<IfHeld("rsampv", 1)>> \o auresamp_rsampv_check_size
        \o <<Use({"rsampv"}), Maybe(1), Use({"sampv"})>>

vumeter_destructor == <<Clear({"tmr"})>>

vumeter_update == <<Get("st"), Launch("tmr")>>

vumeter_tmr_handler == Serve("tmr", When("started", <<Tell>>))

vumeter_frame == <<Use({}), Set({"started"})>>

-----------------------------------------------------------------------------
(* in_band_dtmf: a command adds tones to the buffer from which the encoder  *)
(* takes them, without a lock; "buf" is the memory the buffer grows into.   *)

in_band_dtmf_enc_destructor == Unfiltered \o <<Put("mb"), Put("buf")>>

in_band_dtmf_encode_update == <<Get("st"), Get("mb")>> \o Filtering

in_band_dtmf_encode ==
    Serve("frames", <<IfHeld("buf", 2), Maybe(1), Use({"mb", "buf"})>>)

in_band_dtmf_send == <<Use({"mb"}), Put("buf"), Get("buf"), Use({"mb"})>>

in_band_dtmf_dec_destructor == Unfiltered \o <<Clear({"tmr_dtmf_end"}), Put("dec")>>

in_band_dtmf_decode_update == <<Get("st"), Get("dec")>> \o Filtering

in_band_dtmf_dec_handler == <<Use({}), Launch("tmr_dtmf_end"), Use({})>>

in_band_dtmf_decode ==
    Serve("frames", <<Use({"dec"})>> \o Perhaps(in_band_dtmf_dec_handler))

in_band_dtmf_dtmfend_handler ==
    Serve("tmr_dtmf_end", <<Clear({"tmr_dtmf_end"}), Use({}), Tell>>)

-----------------------------------------------------------------------------
(* webrtc_aec: one canceller for both directions.  "st" is the shared       *)
(* state; the encoder runs in the transmit thread, the decoder in the       *)
(* receive thread.                                                          *)

webrtc_aec_destructor == <<Put("inst"), Put("mutex")>>

webrtc_aec_alloc == <<Try, Get("st"), Get("mutex"), Get("inst")>>

webrtc_aec_encode_destructor == Unfiltered \o <<Put("enc")>>

webrtc_aec_encode_update == <<Get("enc")>> \o Filtering

webrtc_aec_decode_destructor == Halt("played") \o <<Put("dec")>>

webrtc_aec_decode_update == <<Get("dec"), Launch("played")>>

webrtc_aec_encode_float == <<Lock("mutex"), Use({"inst"}), Unlock("mutex")>>

webrtc_aec_decode_float == <<Lock("mutex"), Use({"inst"}), Unlock("mutex")>>

webrtc_aec_encode == Serve("frames", <<Maybe(3)>> \o webrtc_aec_encode_float)

webrtc_aec_decode == Serve("played", <<Maybe(3)>> \o webrtc_aec_decode_float)

-----------------------------------------------------------------------------
(* mixminus: "st" is the encoder of one call; the mixer "mix" in its list   *)
(* belongs to another call, which comes and goes and whose receive thread   *)
(* ("others") walks over the encoders and their mixers to fill the buffer.  *)

mixminus_enc_destructor ==
    Unfiltered \o When("mixed", <<Clear({"mixed"}), Put("ab"), Put("mix")>>)
        \o <<Put("sampv"), Put("rsampv"), Put("fsampv"), Clear({"listed"}),
             Put("mtx")>>

mixminus_other_enc_destructor ==
    <<Lock("mtx"), IfSet("mixed", 3), Clear({"mixed"}), Put("ab"), Put("mix"),
      Unlock("mtx")>>

mixminus_encode_update ==
    <<Get("st"), GetOrReturn("mtx"), GetOrReturn("sampv"),
      GetOrReturn("rsampv"), GetOrReturn("fsampv"), Set({"listed"})>>
        \o Filtering \o <<Launch("others")>>

mixminus_other_encode_update ==
    <<IfClear("mixed", 5), Get("mix"), Get("ab"), Lock("mtx"), Set({"mixed"}),
      Unlock("mtx")>>

mixminus_encode ==
    Serve("frames",
          <<Lock("mtx"), IfSet("mixed", 3), Maybe(2), Use({"sampv", "rsampv"}),
            Use({"mix", "ab"}), Unlock("mtx")>>)

mixminus_other_decode ==
    Serve("others",
          <<[IfSet("listed", 2) EXCEPT !.own = {}],
            [IfSet("mixed", 1) EXCEPT !.own = {}], Use({"mix", "ab"})>>)

mixminus_dec_destructor == <<Put("fsampv")>>

mixminus_decode_update == <<Get("st"), GetOrReturn("fsampv")>>

mixminus_decode == <<Use({"fsampv"})>>

-----------------------------------------------------------------------------
(* Video filters *)

\* A graph that could not be set up is not taken down by filter_reset.
avfilter_reset ==
    <<IfSet("enabled", 4), Put("filter_graph"), Put("vframe_in"),
      Put("vframe_out"), Clear({"enabled"})>>

avfilter_init ==
    <<Maybe(10), Maybe(7), Take("outputs"), Take("inputs"),
      Take("filter_graph"), Take("vframe_in"), Take("vframe_out"), Maybe(1),
      Set({"enabled"}), Put("inputs"), Put("outputs")>>

avfilter_filter_encode ==
    <<IfSet("enabled", 1), Use({"filter_graph", "vframe_in", "vframe_out"})>>

avfilter_update == <<Get("st")>>

avfilter_encode ==
    <<Lock("st"), Maybe(Len(avfilter_reset) + Len(avfilter_init))>>
        \o avfilter_reset \o avfilter_init \o <<Unlock("st")>>
        \o avfilter_filter_encode

swscale_destructor == <<Put("frame"), Put("sws")>>

swscale_update == <<Get("st")>>

swscale_process ==
    <<Try, IfFree("sws", 1), Get("sws"), IfFree("frame", 1), Get("frame"),
      Use({"sws", "frame"}), Try>>

\* One frame is written to a file; the two flags are global.
snapshot_do_snapshot ==
    <<Maybe(1), Take("f2"), Take("png_ptr"), Maybe(1), Take("row_pointers"),
      Maybe(1), Take("fp"), Put("f2"), Put("row_pointers"), Put("png_ptr"),
      Put("fp")>>

snapshot_encode == When("flag_enc", <<Clear({"flag_enc"})>> \o snapshot_do_snapshot)

snapshot_decode == When("flag_dec", <<Clear({"flag_dec"})>> \o snapshot_do_snapshot)

snapshot_recv == <<Set({"flag_enc", "flag_dec"})>>

vidinfo_destructor == <<>>

vidinfo_update == <<Get("st")>>

vidinfo_decode == <<Use({})>>

\* selfview: "st" is the state shared by the encoder, which fills the frame,
\* and the decoder, which draws it into the received picture.
selfview_destructor ==
    Unfiltered \o Halt("drawn") \o <<Put("disp"), Lock("lock"), Put("frame"),
                                     Unlock("lock"), Put("lock")>>

selfview_alloc == <<Get("st"), GetOrReturn("lock")>>

selfview_encode_update ==
    selfview_alloc \o <<Maybe(2), Get("disp"), Try>> \o Filtering

selfview_decode_update == <<Launch("drawn")>>

selfview_encode ==
    Serve("frames",
          <<IfHeld("disp", 1), Use({"disp"})>>
          \o <<Lock("lock"), Maybe(1), Put("frame"), IfFree("frame", 2),
               Maybe(1), Take("frame"), IfHeld("frame", 1), Use({"frame"}),
               Unlock("lock")>>)

selfview_decode_pip ==
    Serve("drawn", <<Lock("lock"), IfHeld("frame", 1), Use({"frame"}),
                     Unlock("lock")>>)
-----------------------------------------------------------------------------
FilterProg ==
    [auconv |-> Operated(auconv_update, auconv_destructor,
                         [frame |-> auconv_frame]),
     augain |-> Operated(augain_encode_update, <<>>, [encode |-> augain_encode]),
     plc |-> Operated(plc_update, <<>>, [decode |-> plc_decode]),
     auresamp |-> Operated(auresamp_common_update, auresamp_common_destructor,
                           [resample |-> auresamp_common_resample]),
     vumeter |-> Looped(vumeter_update, vumeter_destructor,
                        [frame |-> vumeter_frame],
                        [tmr |-> vumeter_tmr_handler]),
     in_band_dtmf_enc |->
        [Operated(in_band_dtmf_encode_update, in_band_dtmf_enc_destructor,
                  [send |-> in_band_dtmf_send])
           EXCEPT !.thr = [frames |-> in_band_dtmf_encode]],
     in_band_dtmf_dec |->
        [Threaded(in_band_dtmf_decode_update, in_band_dtmf_dec_destructor,
                  [frames |-> in_band_dtmf_decode,
                   tmr_dtmf_end |-> in_band_dtmf_dtmfend_handler])
           EXCEPT !.loop = {"tmr_dtmf_end"}],
     webrtc_aec |->
        Threaded(webrtc_aec_alloc \o webrtc_aec_encode_update
                     \o webrtc_aec_decode_update,
                 webrtc_aec_encode_destructor \o webrtc_aec_decode_destructor
                     \o webrtc_aec_destructor,
                 [frames |-> webrtc_aec_encode, played |-> webrtc_aec_decode]),
     mixminus_enc |->
        [Operated(mixminus_encode_update, mixminus_enc_destructor,
                  [joins |-> mixminus_other_encode_update,
                   leaves |-> mixminus_other_enc_destructor])
           EXCEPT !.thr = [frames |-> mixminus_encode,
                           others |-> mixminus_other_decode]],
     mixminus_dec |-> Operated(mixminus_decode_update, mixminus_dec_destructor,
                               [decode |-> mixminus_decode]),
     avfilter |-> Operated(avfilter_update, avfilter_reset,
                           [encode |-> avfilter_encode]),
     swscale |-> Operated(swscale_update, swscale_destructor,
                          [process |-> swscale_process]),
     snapshot |-> Operated(<<Get("st")>>, <<>>,
                           [encode |-> snapshot_encode,
                            decode |-> snapshot_decode,
                            recv |-> snapshot_recv]),
     vidinfo |-> Operated(vidinfo_update, vidinfo_destructor,
                          [decode |-> vidinfo_decode]),
     selfview |-> Threaded(selfview_encode_update \o selfview_decode_update,
                           selfview_destructor,
                           [frames |-> selfview_encode,
                            drawn |-> selfview_decode_pip])]
=============================================================================
