---------------------------- MODULE ObjectTables ----------------------------
(***************************************************************************)
(* The code of every kind of object, and what the code as it is leaves     *)
(* behind or touches when it is not there; the README explains the entries.*)
(***************************************************************************)
EXTENDS AudioDrivers, VideoDrivers, Codecs, Filters, Bridges, Apps, Core,
        Sessions, TLC

AllProg == AudioProg @@ VideoProg @@ CodecProg @@ FilterProg @@ BridgeProg
               @@ AppProg @@ CoreProg @@ SessionProg

AppleAudio ==
    {"coreaudio_recorder", "coreaudio_player", "audiounit_recorder",
     "audiounit_player"}

LeftByCode ==
    UNION {{"aaudio_player", "aaudio_recorder"}
               \X {"builder", "stream", "data", "error", "restart"},
           {<<"aaudio_recorder", "sampv">>},
           {"amr_dec"} \X {"be_dec_arr"},
           {"auconv"} \X {"buf"},
           {"aufile_play"} \X {"st", "auf"},
           {"avcapture"} \X {"self", "sess", "screenInput", "output"},
           {"avcodec_dec"} \X {"hw_frame"},
           {"avfilter"} \X {"filter_graph", "vframe_in", "vframe_out"},
           {"avformat"} \X {"ctx"},
           {"cons"} \X {"log", "log_mb"},
           {"ctrl_dbus"} \X {"command", "interface", "modev"},
           {"ctrl_tcp"} \X {"buf", "evbuf"},
           {"dshow"} \X {"dev_enum", "enum_mon", "pin_enum"},
           {"gst"} \X {"source", "bin", "capsfilt"},
           {"mixminus_dec"} \X {"st"},
           {"mixminus_enc"} \X {"st", "mtx", "sampv", "rsampv", "mix", "others"},
           {"opensles_recorder"} \X {"recObject"},
           {"pipewire_capture", "pipewire_playback"} \X {"lock"},
           {"selfview"} \X {"st"},
           {"ua_cert"} \X {"st", "acc", "cuser", "buf"},
           {"video_tx", "video_enc", "video_nack", "video_rx"}
               \X {"lock_enc", "lock_tx", "wait", "lock"},
           {"video_tx", "video_enc"} \X {"sendq"},
           {"vp9_enc"} \X {"img"},
           {"wasapi_play"} \X {"renderer"},
           {"wincons"} \X {"input"},
           {"x11"} \X {"gc"}}

UsedByCode ==
    UNION {{"aaudio_player", "aaudio_recorder"} \X {"st", "stream"},
           {<<"aaudio_recorder", "sampv">>},
           {"amr_dec"} \X {"be_dec_arr"},
           {<<"audio_tx", "enc">>},
           AppleAudio \X {"mutex"},
           {"auresamp"} \X {"sampv"},
           {"avcapture"} \X {"frameh"},
           {"cons"} \X {"mbr", "st", "tc", "us"},
           {"ctrl_dbus"} \X {"mb", "mtx"},
           {"ctrl_tcp"} \X {"buf", "evbuf", "resp"},
           {"dshow"} \X {"pin"},
           {"httpreq"} \X {"mb"},
           {"in_band_dtmf_enc"} \X {"buf"},
           {<<"mediatrack", "media">>},
           {"mixminus_enc"} \X {"st", "mix", "ab"},
           {"pipewire_capture"} \X {"stream", "rh"},
           {"pipewire_playback"} \X {"stream", "wh"},
           {"play_tone", "play_file"} \X {"lock", "owner"},
           {<<"stream", "rx">>},
           {"vidbridge"} \X {"src"},
           {"video_tx", "video_nack"} \X {"vtx"},
           {"video_tx", "video_enc"} \X {"lock_tx"},
           {<<"video_enc", "enc">>},
           {"wincons"} \X {"mq", "st"},
           {"x11"} \X {"shm", "attach", "shmaddr", "image"}}

StuckInCode ==
    {<<"ctrl_dbus", "thread">>} \cup ({"video_tx", "video_nack"} \X {"vtx"})
=============================================================================
