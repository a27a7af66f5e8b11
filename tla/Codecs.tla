------------------------------- MODULE Codecs -------------------------------
(***************************************************************************)
(* The audio and video codecs of baresip, in the form of ObjectCode.  The  *)
(* state of an encoder or decoder is made by its update handler, which     *)
(* leaves an existing one alone unless said otherwise.  What the           *)
(* bit-streams contain is left out.                                        *)
(*                                                                         *)
(* The owner calls one function of a state at a time.                      *)
(***************************************************************************)
EXTENDS ObjectCode, Naturals, Sequences

-----------------------------------------------------------------------------
(* Audio *)

opus_enc_destructor == <<Put("enc")>>

opus_encode_update == <<Get("st"), Get("enc"), Use({"enc"})>>

\* An existing encoder gets the new parameters.
opus_encode_reupdate == <<Use({"enc"})>>

opus_encode_frm == <<Use({"enc"}), Try>>

opus_dec_destructor == <<Put("dec")>>

opus_decode_update == <<Get("st"), Get("dec")>>

opus_decode_frm == <<Use({"dec"}), Try>>

opus_decode_pkloss == <<Use({"dec"}), Try>>

opus_ms_enc_destructor == <<Put("enc")>>

opus_ms_encode_update == <<Try, Get("st"), Get("enc"), Use({"enc"})>>

opus_ms_encode_frm == <<Use({"enc"}), Try>>

opus_ms_dec_destructor == <<Put("dec")>>

opus_ms_decode_update == <<Try, Get("st"), Get("dec")>>

opus_ms_decode_frm == <<Use({"dec"}), Try>>

opus_ms_decode_pkloss == <<Use({"dec"}), Try>>

aac_enc_destructor == <<Put("enc")>>

aac_encode_update == <<Get("st"), Get("enc"), Try, Use({"enc"}), Try, Try>>

aac_encode_frm == <<Maybe(2), Use({"enc"}), Try>>

aac_dec_destructor == <<Put("dec")>>

aac_decode_update == <<Get("st"), Get("dec"), Try, Use({"dec"}), Try>>

\* One or more access units; the loop ends with the packet.
aac_decode_frm == <<Try, Maybe(3), Use({"dec"}), Try, Try>>

aptx_enc_destructor == <<Put("enc")>>

aptx_encode_update == <<Get("st"), Get("enc")>>

aptx_encode_frm ==
    <<Maybe(4), Get("buf"), Use({"enc", "buf"}), Put("buf"), Skip(1),
      Use({"enc"})>>

aptx_dec_destructor == <<Put("dec")>>

aptx_decode_update == <<Get("st"), Get("dec")>>

aptx_decode_frm == <<Use({"dec"})>>

codec2_encode_destructor == <<Put("c2")>>

codec2_encode_update == <<Get("st"), Get("c2"), Use({"c2"})>>

codec2_decode_destructor == <<Put("c2")>>

codec2_decode_update == <<Get("st"), Get("c2")>>

codec2_encode == <<Use({"c2"}), Try>>

codec2_decode == <<Use({"c2"}), Try>>

libg722_encode_destructor == <<Put("enc")>>

libg722_encode_update == <<Get("st"), Get("enc")>>

libg722_encode == <<IfHeld("enc", 2), Use({"enc"}), Try>>

libg722_decode_destructor == <<Put("dec")>>

libg722_decode_update == <<Get("st"), Get("dec")>>

libg722_decode == <<IfHeld("dec", 2), Use({"dec"}), Try>>

\* The state is the codec: there is nothing besides "st" to release.
g722_encode_update == <<Get("st"), Try>>

g722_decode_update == <<Get("st"), Try>>

g722_encode == <<Use({}), Try>>

g722_decode == <<Use({}), Try>>

g7221_encode_update == <<Get("st"), Try>>

g7221_decode_update == <<Get("st"), Try>>

g7221_encode == <<Use({}), Try>>

g7221_decode == <<Use({}), Try>>

amr_encode_destructor == <<Put("enc")>>

amr_encode_update == <<Get("st"), Get("enc")>>

amr_encode == <<Use({"enc"}), Try>>

\* The buffer for bandwidth-efficient payloads, "be_dec_arr", is a field of
\* the static codec description and not of the decoder state.
amr_decode_destructor == <<Put("dec"), Put("be_dec_arr")>>

amr_decode_update == <<Get("st"), Get("dec"), Get("be_dec_arr")>>

amr_decode == <<Try, Use({"be_dec_arr"}), Use({"dec"})>>

\* A second call makes, and releases, a decoder of its own.
amr_other_decode_update == <<IfClear("other", 2), Set({"other"}), Get("be_dec_arr")>>

amr_other_decode_destructor == When("other", <<Clear({"other"}), Put("be_dec_arr")>>)

-----------------------------------------------------------------------------
(* Video *)

\* `ctxup' says that the codec context is up.  New parameters close it; the
\* next frame opens it again.
ctxup_destructor == When("ctxup", <<Close("ctx")>>)

ctxup_close == <<IfSet("ctxup", 2), Close("ctx"), Clear({"ctxup"})>>

ctxup_update == Perhaps(ctxup_close)

vpx_open_encoder == <<Try>> \o ctxup_close \o <<Get("ctx"), Set({"ctxup"})>>

vpx_reopen == <<IfSet("ctxup", 1), Maybe(Len(vpx_open_encoder))>>
    \o vpx_open_encoder

vp8_enc_destructor == ctxup_destructor

vp8_encode_update == <<Get("st")>>

vp8_encode_reupdate == ctxup_update

vp8_encode ==
    vpx_reopen \o <<Use({"ctx"}), Try, Maybe(2), Call, Try>>

vp8_dec_destructor == ctxup_destructor \o <<Put("mb")>>

vp8_decode_update == <<Get("st"), Get("mb"), Get("ctx"), Set({"ctxup"})>>

vp8_decode == <<Try, Use({"mb"}), Try, Use({"ctx", "mb"})>>

\* The frame's image header is freed on every way out but one: a packet that
\* cannot be sent ends the function at once.
vp9_encode ==
    vpx_reopen
        \o Guarded(<<Take("img"), Use({"ctx", "img"})>>,
                   <<Maybe(2), Call, Try>>, <<Put("img")>>)

vp9_enc_destructor == ctxup_destructor

vp9_encode_update == <<Get("st")>>

vp9_encode_reupdate == ctxup_update

vp9_dec_destructor == ctxup_destructor \o <<Put("mb")>>

vp9_decode_update == <<Get("st"), Get("mb"), Get("ctx"), Set({"ctxup"})>>

vp9_decode == <<Try, Use({"mb"}), Try, Use({"ctx", "mb"})>>

av1_enc_destructor == ctxup_destructor

av1_encode_update == <<Get("st")>>

av1_encode_reupdate == ctxup_update

av1_open_encoder == <<Try>> \o ctxup_close \o <<Get("ctx"), Set({"ctxup"})>>

av1_encode_packet ==
    <<IfSet("ctxup", 1), Maybe(Len(av1_open_encoder))>> \o av1_open_encoder
        \o Guarded(<<Take("img"), Use({"ctx", "img"}), Call>>, <<>>,
                   <<Put("img")>>)

av1_dec_destructor == ctxup_destructor \o <<Put("mb")>>

av1_decode_update == <<Get("st"), Get("mb"), Get("ctx"), Set({"ctxup"})>>

av1_decode ==
    <<Try, Use({"mb"}), Maybe(8)>>
        \o Guarded(<<Take("mb2"), Use({"mb", "mb2"}), Use({"ctx", "mb2"})>>,
                   <<>>, <<Use({"mb"}), Put("mb2")>>)

avcodec_enc_destructor == <<Put("mb_frag"), Put("ctx")>>

avcodec_set_hwframe_ctx == Perhaps(<<Take("hw_frames"), Put("hw_frames")>>)

avcodec_open_encoder ==
    <<Put("ctx"), Get("ctx"), Use({"ctx"})>> \o avcodec_set_hwframe_ctx
        \o Abort(<<Put("ctx")>>)

avcodec_encode_update == <<Get("st"), Try, Get("mb_frag"), Try>>

avcodec_encode ==
    <<IfHeld("ctx", 1), Maybe(Len(avcodec_open_encoder) + 1), Try>>
        \o avcodec_open_encoder
        \o Guarded(<<Take("pict"), Take("hw_frame"), Use({"ctx", "pict"}),
                     Take("pkt"), Use({"ctx", "pkt"}), Call>>, <<>>,
                   <<Put("pict"), Put("pkt"), Put("hw_frame")>>)

avcodec_dec_destructor == <<Put("mb"), Put("ctx"), Put("pict")>>

avcodec_init_decoder == <<Try, Maybe(1), Take("ctx"), Get("pict"),
                          IfFree("ctx", 1), Raise, Use({"ctx"}), Try>>

avcodec_decode_update == <<Get("st"), Get("mb")>> \o avcodec_init_decoder

\* The buffer's padding is written before anything is released on an error.
avcodec_ffdecode ==
    <<Maybe(1), Get("hw_frame"), Use({"mb"}), Try>>
        \o Guarded(<<Take("avpkt"), Use({"ctx", "mb", "avpkt"}),
                     Use({"pict"})>>, <<>>,
                   <<Put("hw_frame"), Put("avpkt")>>)

avcodec_decode == <<Try, Use({"mb"}), Try, Maybe(Len(avcodec_ffdecode))>>
    \o avcodec_ffdecode
-----------------------------------------------------------------------------
Encoder(update, destructor, encode) ==
    Operated(update, destructor, [encode |-> encode])

Decoder(update, destructor, decode) ==
    Operated(update, destructor, [decode |-> decode])

CodecProg ==
    [opus_enc |-> Operated(opus_encode_update, opus_enc_destructor,
                           [update |-> opus_encode_reupdate,
                            encode |-> opus_encode_frm]),
     opus_dec |-> Operated(opus_decode_update, opus_dec_destructor,
                           [decode |-> opus_decode_frm,
                            pkloss |-> opus_decode_pkloss]),
     opus_ms_enc |-> Encoder(opus_ms_encode_update, opus_ms_enc_destructor,
                             opus_ms_encode_frm),
     opus_ms_dec |-> Operated(opus_ms_decode_update, opus_ms_dec_destructor,
                              [decode |-> opus_ms_decode_frm,
                               pkloss |-> opus_ms_decode_pkloss]),
     aac_enc |-> Encoder(aac_encode_update, aac_enc_destructor, aac_encode_frm),
     aac_dec |-> Decoder(aac_decode_update, aac_dec_destructor, aac_decode_frm),
     aptx_enc |-> Encoder(aptx_encode_update, aptx_enc_destructor,
                          aptx_encode_frm),
     aptx_dec |-> Decoder(aptx_decode_update, aptx_dec_destructor,
                          aptx_decode_frm),
     codec2_enc |-> Encoder(codec2_encode_update, codec2_encode_destructor,
                            codec2_encode),
     codec2_dec |-> Decoder(codec2_decode_update, codec2_decode_destructor,
                            codec2_decode),
     libg722_enc |-> Encoder(libg722_encode_update, libg722_encode_destructor,
                             libg722_encode),
     libg722_dec |-> Decoder(libg722_decode_update, libg722_decode_destructor,
                             libg722_decode),
     g722_enc |-> Encoder(g722_encode_update, <<>>, g722_encode),
     g722_dec |-> Decoder(g722_decode_update, <<>>, g722_decode),
     g7221_enc |-> Encoder(g7221_encode_update, <<>>, g7221_encode),
     g7221_dec |-> Decoder(g7221_decode_update, <<>>, g7221_decode),
     amr_enc |-> Encoder(amr_encode_update, amr_encode_destructor, amr_encode),
     amr_dec |-> Operated(amr_decode_update, amr_decode_destructor,
                          [decode |-> amr_decode,
                           other_update |-> amr_other_decode_update,
                           other_destructor |-> amr_other_decode_destructor]),
     vp8_enc |-> Operated(vp8_encode_update, vp8_enc_destructor,
                          [update |-> vp8_encode_reupdate,
                           encode |-> vp8_encode]),
     vp8_dec |-> Decoder(vp8_decode_update, vp8_dec_destructor, vp8_decode),
     vp9_enc |-> Operated(vp9_encode_update, vp9_enc_destructor,
                          [update |-> vp9_encode_reupdate,
                           encode |-> vp9_encode]),
     vp9_dec |-> Decoder(vp9_decode_update, vp9_dec_destructor, vp9_decode),
     av1_enc |-> Operated(av1_encode_update, av1_enc_destructor,
                          [update |-> av1_encode_reupdate,
                           encode |-> av1_encode_packet]),
     av1_dec |-> Decoder(av1_decode_update, av1_dec_destructor, av1_decode),
     avcodec_enc |-> Encoder(avcodec_encode_update, avcodec_enc_destructor,
                             avcodec_encode),
     avcodec_dec |-> Decoder(avcodec_decode_update, avcodec_dec_destructor,
                             avcodec_decode)]
=============================================================================
