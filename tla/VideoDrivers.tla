---------------------------- MODULE VideoDrivers ----------------------------
(***************************************************************************)
(* The video sources and displays of baresip, in the form of ObjectCode.   *)
(* Pixel formats, window titles and the contents of frames are left out;   *)
(* a frame either has the size of the previous one or it does not.         *)
(***************************************************************************)
EXTENDS ObjectCode, Naturals, Sequences

-----------------------------------------------------------------------------
(* Sources with a thread of their own *)

fakevideo_process_frame == <<Use({"frame"}), Call>>

fakevideo_read_thread == While("run", <<Maybe(2)>> \o fakevideo_process_frame)

fakevideo_src_destructor_Keep == Stop("run", "read")

fakevideo_src_destructor == Stop("run", "read") \o <<Put("frame")>>

fakevideo_src_alloc ==
    <<Get("st"), Get("frame"), Set({"run"}), Spawn("read", {"run"})>>

\* Two of the device's buffers are mapped, one after the other.
v4l2_init_mmap == <<Use({"fd"}), Try, Get("buffers"), Get("map0"), Get("map1")>>

v4l2_init_device == <<Use({"fd"}), Try, Try>> \o v4l2_init_mmap \o <<Try>>

v4l2_stop_capturing == <<IfHeld("fd", 1), Use({"fd"})>>

v4l2_uninit_device == <<Put("map0"), Put("map1"), Put("buffers")>>

v4l2_start_capturing == <<Use({"fd"}), Try, Try>>

v4l2_read_frame ==
    <<Use({"fd"}), Maybe(3), Use({"buffers", "map0", "map1"}), Call, Use({"fd"})>>

v4l2_vd_open == Get("fd")

v4l2_destructor ==
    Stop("run", "read") \o v4l2_stop_capturing \o v4l2_uninit_device
        \o <<Put("fd")>>

v4l2_read_thread == While("run", v4l2_read_frame)

v4l2_alloc ==
    <<Get("st"), v4l2_vd_open>> \o v4l2_init_device \o v4l2_start_capturing
        \o <<Set({"run"}), Spawn("read", {"run"})>>

-----------------------------------------------------------------------------
(* DirectShow *)

dshow_BufferCB == Serve("BufferCB", <<Use({"grab"}), Maybe(1), Call>>)

\* The enumerators are not released.
dshow_enum_devices == <<Get("dev_enum"), Get("enum_mon"), Get("dev_moniker")>>

dshow_get_device == dshow_enum_devices

\* Its result is ignored.
dshow_add_sample_grabber ==
    <<Maybe(5), Take("grabber_filter"), Maybe(3), Take("grabber"), Maybe(1),
      Set({"callback"})>>

dshow_config_pin ==
    <<IfHeld("pin", 4), Maybe(3), Take("media_enum"), Maybe(1),
      Take("stream_conf"), Put("media_enum"), Put("stream_conf")>>

dshow_destructor ==
    Halt("BufferCB")
        \o <<Put("mc"), Put("grabber"), Put("grabber_filter"),
             Put("dev_moniker"), Put("dev_filter"), Put("capture"),
             Put("graph"), Put("grab")>>

\* The pin is released whether there is one or not.
dshow_alloc ==
    <<Get("st")>> \o dshow_get_device
        \o <<Take("grab"), Get("graph"), Get("capture"), Try,
             Get("dev_filter"), Try, Maybe(3), Take("pin_enum"), Maybe(1),
             Take("pin")>>
        \o dshow_add_sample_grabber \o dshow_config_pin
        \o <<Close("pin"), Try, Try, Get("mc"), Try, IfSet("callback", 1),
             Launch("BufferCB")>>

-----------------------------------------------------------------------------
(* AVFoundation *)

\* The early returns leave behind what was allocated before; `cap' is the
\* pointer the driver gets.
avcapture_init ==
    <<Get("self"), Maybe(2), Take("screenInput"), Skip(1), Try,
      Take("output"), Take("sess"), Try, Set({"cap"}), Launch("capture")>>

avcapture_stop == Halt("capture") \o <<Put("sess")>>

\* The handler is read twice, for the test and for the call.
avcapture_captureOutput ==
    Serve("capture", <<IfHeld("frameh", 3), Maybe(2), Use({"frameh"}), Call>>)

avcapture_setCamera ==
    <<Maybe(4), IfFree("screenInput", 2), Use({"sess"}), Take("screenInput"),
      Skip(1), Use({"sess"})>>

avcapture_destructor ==
    <<Put("frameh")>> \o When("cap", avcapture_stop \o <<Put("self")>>)

avcapture_alloc == <<Get("st"), Take("frameh")>> \o avcapture_init

avcapture_update == avcapture_setCamera

-----------------------------------------------------------------------------
(* X11.  The flags `shmid' and `addr' say that the id and the address of    *)
(* the shared segment have valid-looking values.                            *)

x11_close_window ==
    <<IfHeld("disp", 1), Put("gc"),
      IfSet("xshmat", 2), IfHeld("disp", 1), Close("attach"),
      IfSet("addr", 2), Close("shmaddr"), Clear({"addr"}),
      IfSet("shmid", 1), Close("shm"),
      IfHeld("disp", 2), Put("win"), Put("disp")>>

x11_destructor == <<Put("image")>> \o x11_close_window

x11_create_window == <<IfFree("win", 1), Get("win")>>

\* The segment of the previous size is given up before there is a new one;
\* `xshmat' and the address keep their values.
x11_reset ==
    <<Use({"disp", "win"}), Try, Put("image"),
      IfSet("xshmat", 1), Close("attach"),
      IfSet("addr", 1), Close("shmaddr"),
      IfSet("shmid", 1), Close("shm"), Clear({"shmid"}), Get("shm"),
      Set({"shmid"}), Clear({"addr"}), Get("shmaddr"), Set({"addr"}),
      Maybe(4), Try, Maybe(2), Take("attach"), Set({"xshmat"}),
      Get("gc"), IfSet("xshmat", 1), Use({"attach"}), Get("image"),
      Set({"sized"})>>

\* The id of the segment is 0, a valid one, before there is a segment.
x11_alloc == <<Get("st"), Set({"shmid"}), Get("disp")>>

\* A deleted window closes the display for good.
x11_display ==
    <<IfHeld("disp", Len(x11_close_window) + Len(x11_reset) + 9),
      Maybe(Len(x11_close_window) + 1)>>
        \o x11_close_window \o <<Skip(Len(x11_reset) + 7)>>
        \o <<IfSet("sized", 1), Maybe(Len(x11_reset) + 2)>>
        \o x11_create_window \o x11_reset
        \o <<IfSet("xshmat", 1), Use({"attach"}),
             Use({"disp", "win", "gc", "shmaddr", "image"})>>

x11_hide == <<IfHeld("win", 1), Use({"disp"})>>

-----------------------------------------------------------------------------
(* SDL and DirectFB *)

sdl_reset == <<Put("texture"), Put("renderer"), Put("window")>>

sdl_poll_events == <<Maybe(1), Use({"window"}), Maybe(1), Use({"mq"}),
                     Maybe(1), Set({"quit"})>>

sdl_destructor == <<Put("mq")>> \o sdl_reset

sdl_alloc == <<Get("st"), Get("mq")>>

sdl_display ==
    <<IfClear("quit", 19)>> \o Perhaps(sdl_reset)
        \o <<IfFree("window", 1), Get("window"),
             IfFree("renderer", 1), Get("renderer"),
             IfFree("texture", 1), Get("texture")>>
        \o sdl_poll_events
        \o <<Use({"texture"}), Try, Use({"renderer", "texture"})>>

sdl_hide == <<IfHeld("window", 1), Use({"window"})>>

directfb_destructor == <<Put("surface"), Put("window"), Put("layer")>>

\* The results of the calls that make the three interfaces are not tested.
directfb_alloc == <<Get("st"), Take("layer")>>

directfb_display ==
    <<Maybe(2), Put("surface"), Put("window"),
      IfFree("window", 4), Use({"layer"}), Take("window"), Use({"window"}),
      Take("surface"), Use({"surface"})>>

directfb_hide == <<IfHeld("window", 1), Use({"window"})>>

-----------------------------------------------------------------------------
VideoProg ==
    [fakevideo |-> Threaded(fakevideo_src_alloc, fakevideo_src_destructor,
                            [read |-> fakevideo_read_thread]),
     v4l2 |-> Threaded(v4l2_alloc, v4l2_destructor,
                       [read |-> v4l2_read_thread]),
     dshow |-> Threaded(dshow_alloc, dshow_destructor,
                        [BufferCB |-> dshow_BufferCB]),
     avcapture |-> [Threaded(avcapture_alloc, avcapture_destructor,
                             [capture |-> avcapture_captureOutput])
                      EXCEPT !.ops = [update |-> avcapture_update]],
     x11 |-> Operated(x11_alloc, x11_destructor,
                      [display |-> x11_display, hide |-> x11_hide]),
     sdl |-> Operated(sdl_alloc, sdl_destructor,
                      [display |-> sdl_display, hide |-> sdl_hide]),
     directfb |-> Operated(directfb_alloc, directfb_destructor,
                           [display |-> directfb_display,
                            hide |-> directfb_hide])]
=============================================================================
