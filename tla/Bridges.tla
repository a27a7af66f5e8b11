------------------------------ MODULE Bridges -------------------------------
(***************************************************************************)
(* Objects of baresip's modules that two owners share, in the form of      *)
(* ObjectCode: the bridges between a player and a source (aubridge,        *)
(* vidbridge) and the media file read for an audio and a video source      *)
(* (avformat).  "st" is what is shared; its two ends come and go as        *)
(* operations, and the destructor is what is left to do for both ends and  *)
(* the shared state when the owners are done.                              *)
(***************************************************************************)
EXTENDS ObjectCode, Naturals, Sequences

-----------------------------------------------------------------------------
(* aubridge: a thread copies from the player to the source while both are   *)
(* connected.  The flags "auplay" and "ausrc" are the pointers of the       *)
(* device, the resources of the same names the ends themselves.             *)

\* Either end stops the thread and disconnects both.
aubridge_device_stop == Stop("run", "device") \o <<Clear({"auplay", "ausrc"})>>

aubridge_destructor == aubridge_device_stop

aubridge_device_thread ==
    <<Use({"auplay"}), Get("sampv")>>
        \o While("run", <<Maybe(5), IfSet("run", 4), Use({"auplay", "sampv"}),
                          Call, Use({"ausrc"}), Call>>)
        \o <<Put("sampv")>>

\* On an error the end that was being made is released.
aubridge_device_connect(end) ==
    LET start == Abort(aubridge_device_stop \o <<Put(end)>>)
                     \o <<Set({"run"}), Create("device")>>
        n == Len(start)
    IN <<Set({end}), IfSet("ausrc", n + 2), IfSet("auplay", n + 1),
         IfClear("run", n)>> \o start

aubridge_ausrc_destructor == aubridge_device_stop \o <<Put("ausrc")>>

aubridge_auplay_destructor == aubridge_device_stop \o <<Put("auplay")>>

aubridge_src_alloc == <<Get("ausrc")>> \o aubridge_device_connect("ausrc")

aubridge_play_alloc == <<Get("auplay")>> \o aubridge_device_connect("auplay")

-----------------------------------------------------------------------------
(* vidbridge: the display passes its frames to the source of the same name. *)
(* "st" is the display; "vidsrc" is its pointer to the source, "vidisp" the *)
(* source's pointer back; a second display of the name takes the latter.    *)

vidbridge_disp_destructor ==
    Halt("display")
        \o <<IfSet("vidsrc", 2), Use({"src"}), Clear({"vidisp"}),
             Put("device")>>

vidbridge_disp_alloc == <<Get("st"), Get("device"), Launch("display")>>

vidbridge_disp_display ==
    Serve("display", <<IfSet("vidsrc", 2), Use({"src"}), Call>>)

vidbridge_src_alloc ==
    <<IfFree("src", 2), Get("src"), Set({"vidsrc", "vidisp"})>>

vidbridge_src_destructor ==
    <<IfHeld("src", 3), IfSet("vidisp", 1), Clear({"vidsrc", "vidisp"}),
      Put("src")>>

vidbridge_other_disp_alloc == <<IfHeld("src", 1), Clear({"vidisp"})>>

-----------------------------------------------------------------------------
(* avformat: one thread reads the file for both sources.                    *)

avformat_shared_set(end, p) ==
    <<Lock("lock"), IF p THEN Set({end}) ELSE Clear({end}), Unlock("lock")>>

avformat_shared_destructor ==
    Stop("run", "read") \o <<Put("au_ctx"), Put("vid_ctx"), Put("ic"),
                             Put("lock"), Put("dev")>>

\* A context that no stream takes, or whose codec cannot be opened, is lost.
avformat_open_codec(ctx) ==
    <<Maybe(6), Get("ctx"), Try, Try, Maybe(2), Take(ctx), Put("ctx")>>

avformat_shared_alloc ==
    <<Get("st"), Get("dev"), Get("lock"), Try, Get("ic")>>
        \o avformat_open_codec("au_ctx") \o avformat_open_codec("vid_ctx")
        \o <<Set({"run"}), Spawn("read", {"run"}), Set({"shared"})>>

avformat_audio_decode ==
    <<IfHeld("au_ctx", 8), Use({"au_ctx"}), Maybe(6), Lock("lock"),
      IfSet("ausrc_st", 3), Use({"ausrc", "swr"}), Maybe(1), Call,
      Unlock("lock")>>

avformat_video_copy ==
    <<Lock("lock"), IfSet("vidsrc_st", 2), Use({"vidsrc"}), Call,
      Unlock("lock")>>

avformat_video_decode ==
    <<IfHeld("vid_ctx", Len(avformat_video_copy) + 5), Maybe(Len(avformat_video_copy) + 4),
      Take("frame"), Use({"vid_ctx"}), Maybe(Len(avformat_video_copy))>>
        \o avformat_video_copy \o <<Put("frame")>>

\* The end of the file rewinds it; an error ends the thread.
avformat_read_thread ==
    LET body == <<Use({"ic"})>> \o Perhaps(avformat_audio_decode)
                    \o Perhaps(avformat_video_decode)
    IN <<Get("pkt")>> \o While("run", <<Maybe(Len(body) + 1)>> \o body \o <<Maybe(1)>>)
           \o <<Put("pkt")>>

avformat_audio_destructor ==
    When("shared", avformat_shared_set("ausrc_st", FALSE))
        \o <<Put("ausrc"), Put("swr")>>

avformat_video_destructor ==
    When("shared", avformat_shared_set("vidsrc_st", FALSE))
        \o <<Put("vidsrc")>>

avformat_audio_alloc ==
    <<IfFree("au_ctx", 1), Raise, Get("ausrc"), Get("swr")>>
        \o avformat_shared_set("ausrc_st", TRUE)

\* The second source of a file finds the first one's state, or else opens the
\* file for itself; the latter is another object.
avformat_video_alloc ==
    <<IfHeld("vid_ctx", 5), IfFree("vidsrc", 4), Get("vidsrc")>>
        \o avformat_shared_set("vidsrc_st", TRUE)
-----------------------------------------------------------------------------
BridgeProg ==
    [aubridge |->
        [Operated(<<Get("st")>> \o aubridge_src_alloc,
                  aubridge_auplay_destructor \o aubridge_ausrc_destructor
                      \o aubridge_destructor,
                  [play |-> <<IfFree("auplay", Len(aubridge_play_alloc))>>
                                \o aubridge_play_alloc,
                   unplay |-> <<IfHeld("ausrc", Len(aubridge_auplay_destructor))>>
                                  \o aubridge_auplay_destructor,
                   src |-> <<IfFree("ausrc", Len(aubridge_src_alloc))>>
                               \o aubridge_src_alloc,
                   unsrc |-> <<IfHeld("auplay", Len(aubridge_ausrc_destructor))>>
                                 \o aubridge_ausrc_destructor])
           EXCEPT !.thr = [device |-> aubridge_device_thread]],
     vidbridge |->
        [Operated(vidbridge_disp_alloc,
                  vidbridge_disp_destructor \o vidbridge_src_destructor,
                  [src |-> vidbridge_src_alloc,
                   unsrc |-> vidbridge_src_destructor,
                   other |-> vidbridge_other_disp_alloc])
           EXCEPT !.thr = [display |-> vidbridge_disp_display]],
     avformat |->
        [Operated(avformat_shared_alloc \o avformat_audio_alloc,
                  avformat_video_destructor \o avformat_audio_destructor
                      \o avformat_shared_destructor,
                  [video |-> avformat_video_alloc,
                   unvideo |-> <<IfHeld("vidsrc",
                                        Len(avformat_video_destructor))>>
                                   \o avformat_video_destructor])
           EXCEPT !.thr = [read |-> avformat_read_thread]]]
=============================================================================
