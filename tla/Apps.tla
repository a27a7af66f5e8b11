-------------------------------- MODULE Apps --------------------------------
(***************************************************************************)
(* The application and user-interface modules of baresip as objects, in    *)
(* the form of ObjectCode.  "st" is the state a module allocates when it   *)
(* is loaded; its allocation is the module's init function, its destructor *)
(* the module's close function, which the module loader also calls when    *)
(* init fails.  Handlers are called by the main loop; commands given to a  *)
(* module are a Call (one that unloads the module itself is left out).     *)
(***************************************************************************)
EXTENDS ObjectCode, Naturals, Sequences

-----------------------------------------------------------------------------
(* ctrl_tcp: JSON commands over a TCP connection, framed as netstrings.     *)

ctrl_tcp_netstring_destructor ==
    <<Put("th"), Clear({"recv"}), Put("ns_tc"), Put("mb"), Put("ns")>>

ctrl_tcp_netstring_insert ==
    LET undo == ctrl_tcp_netstring_destructor
    IN Perhaps(<<Take("ns"), Take("ns_tc")>>
                   \o Either(<<Take("th"), Launch("recv")>>, undo))

\* A failed odict_alloc returns without releasing buf; send follows success.
ctrl_tcp_encode_response(send) ==
    LET out == <<Use({"resp"}), Put("buf"), Put("od_resp")>> \o Perhaps(send)
        rest == <<Maybe(Len(out) + 1), Take("od_resp")>> \o out
    IN Either(Unchecked("buf"), <<Maybe(Len(rest) + 1), Take("buf")>>) \o rest

ctrl_tcp_command_handler ==
    <<Maybe(1), Take("resp")>>
        \o Guarded(<<Take("od"), Use({"resp"})>>,
                   <<Call>> \o ctrl_tcp_encode_response(<<Use({"tc"})>>),
                   <<Put("resp"), Put("od")>>)

\* Every whole frame is handed over; what cannot be a frame ends the buffer.
ctrl_tcp_netstring_recv_handler ==
    LET frame == ctrl_tcp_command_handler \o <<Use({"ns", "mb"})>>
        n == Len(frame)
    IN Serve("recv", <<IfFree("mb", 1), Get("mb"), Maybe(n + 8),
                       Maybe(n + 7), Maybe(2), Put("mb"), Skip(n + 4)>>
                         \o frame
                         \o <<Maybe(2), Put("mb"), Skip(1), Back(n + 7)>>)

ctrl_tcp_close_handler == Serve("closed", <<Clear({"closed", "recv"}), Put("tc")>>)

\* A new connection replaces the old one.
ctrl_tcp_conn_handler ==
    Serve("conn", <<Put("tc"), Clear({"closed"})>>
                      \o ctrl_tcp_netstring_destructor
                      \o Perhaps(<<Take("tc"), Launch("closed")>>
                                     \o ctrl_tcp_netstring_insert))

\* A failed odict_alloc returns without releasing the buffer.
ctrl_tcp_report ==
    Unchecked("evbuf")
        \o Perhaps(<<Take("od_ev"), Maybe(2), IfHeld("tc", 1), Use({"tc"}),
                     Put("evbuf"), Put("od_ev")>>)

ctrl_tcp_event_handler == Serve("event", ctrl_tcp_report)

ctrl_tcp_message_handler == Serve("message", ctrl_tcp_report)

ctrl_tcp_destructor ==
    <<Clear({"closed"}), Put("tc"), Clear({"conn"}), Put("ts")>>
        \o ctrl_tcp_netstring_destructor

ctrl_tcp_alloc == <<Get("st"), Get("ts"), Launch("conn")>>

ctrl_tcp_init ==
    ctrl_tcp_alloc \o <<Try, Launch("event"), Try, Launch("message")>>

ctrl_tcp_close == <<Clear({"event"}), Clear({"message"})>> \o ctrl_tcp_destructor

-----------------------------------------------------------------------------
(* ctrl_dbus: a GLib main loop in a thread of its own serves the bus; a     *)
(* command waits there until the main thread has executed it.  "looping" is *)
(* set while g_main_loop_run is inside its loop; the bus name is acquired   *)
(* again only when the event of the last time has been sent.                *)

ctrl_dbus_command_handler ==
    LET run == Unchecked("mb") \o <<Call>>
    IN <<Clear({"command_id"}), IfHeld("command", Len(run))>> \o run
           \o <<Lock("mtx"), Put("command"), Unlock("mtx")>>

ctrl_dbus_send_event == <<Use({"modev"}), Put("modev"), Clear({"event_id"})>>

ctrl_dbus_queue_handler ==
    Serve("queue", When("command_id", ctrl_dbus_command_handler)
                       \o When("event_id", ctrl_dbus_send_event))

\* cnd_wait releases the mutex while it waits.  The command is left behind
\* when it cannot be queued.
ctrl_dbus_on_handle_invoke ==
    LET reply == <<IfHeld("mb", 2), Use({"mb"}), Put("mb")>>
    IN Perhaps(<<Take("command"), Lock("mtx"), Maybe(5), Set({"command_id"}),
                 IfHeld("command", 3), Unlock("mtx"), Lock("mtx"), Back(3),
                 Unlock("mtx")>>
                   \o reply)

ctrl_dbus_on_name_acquired ==
    <<Take("interface")>>
        \o Perhaps(<<Take("modev"), Maybe(1), Set({"event_id"})>>)

ctrl_dbus_thread ==
    LET dispatch ==
            When("owned", Perhaps(<<IfClear("event_id",
                                            Len(ctrl_dbus_on_name_acquired))>>
                                      \o ctrl_dbus_on_name_acquired))
                \o <<IfHeld("interface", Len(ctrl_dbus_on_handle_invoke))>>
                \o ctrl_dbus_on_handle_invoke
    IN While("run", <<Use({"loop"}), Set({"looping"})>>
                        \o While("looping", dispatch))

ctrl_dbus_event_handler ==
    LET emit == Guarded(<<Take("evbuf"), Take("od_ev"), Use({"interface"})>>,
                        <<>>, <<Put("evbuf"), Put("od_ev")>>)
    IN Serve("event", <<IfHeld("interface", Len(emit))>> \o emit)

ctrl_dbus_message_handler ==
    Serve("message", <<IfHeld("interface", 2), Maybe(1), Use({"interface"})>>)

ctrl_dbus_destructor ==
    When("run", <<Clear({"run"}), Use({"loop"}), Clear({"looping"}),
                  Join("thread")>>)
        \o <<Clear({"owned"}), Put("bus_owner"), Put("interface"), Put("loop"),
             Close("mtx"), Clear({"queue"}), Put("mqueue")>>

ctrl_dbus_alloc ==
    <<Get("st"), Get("mtx"), Get("loop"), Get("mqueue"), Launch("queue"),
      Set({"run"}), Spawn("thread", {"run"})>>

ctrl_dbus_init ==
    ctrl_dbus_alloc
        \o <<Try, Launch("event"), Try, Launch("message"), Get("bus_owner"),
             Set({"owned"})>>

ctrl_dbus_close == <<Clear({"event"}), Clear({"message"})>> \o ctrl_dbus_destructor
-----------------------------------------------------------------------------
(* mqtt: commands and events by way of a broker.  "tmr" and "reconnect" are *)
(* the two handlers of the module's one timer.                              *)

mqtt_handle_command ==
    LET respond == Perhaps(<<Take("od_resp")>> \o Perhaps(<<Use({"mosq"})>>))
    IN <<Maybe(1), Take("resp")>>
           \o Guarded(<<Take("cmd_buf"), Take("od"), Call>>,
                      <<IfHeld("resp", Len(respond))>> \o respond,
                      <<Put("cmd_buf"), Put("resp"), Put("od_resp"), Put("od")>>)

mqtt_message_callback == Perhaps(mqtt_handle_command)

mqtt_connect_callback == <<Maybe(1), Use({"mosq"})>>

mqtt_disconnect_callback ==
    <<Maybe(4), Clear({"tmr", "fd"}), Put("fhs"), Clear({"reconnect"}),
      Launch("reconnect")>>

\* mosquitto_loop_read and mosquitto_loop_write issue the callbacks.
mqtt_fd_handler ==
    Serve("fd", <<Use({"mosq"})>> \o Perhaps(mqtt_connect_callback)
                    \o Perhaps(mqtt_message_callback)
                    \o Perhaps(mqtt_disconnect_callback) \o <<Use({"mosq"})>>)

mqtt_tmr_handler ==
    Serve("tmr", <<Use({"mosq"})>> \o Perhaps(mqtt_disconnect_callback))

\* When the new socket cannot be polled nothing is started any more.
mqtt_tmr_reconnect ==
    Serve("reconnect", <<Clear({"reconnect"}), Use({"mosq"})>>
                           \o Either(<<Maybe(3), Take("fhs"), Launch("fd"),
                                       Launch("tmr")>>,
                                     <<Set({"reconnect"})>>))

mqtt_event_handler ==
    Serve("event", Guarded(<<Take("od_ev"), Use({"mosq"})>>, <<>>,
                           <<Put("od_ev")>>))

mqtt_init ==
    <<Get("st"), Get("mosq"), Try, Try, Try, Launch("tmr"), Try,
      Launch("event"), Get("fhs"), Launch("fd")>>

mqtt_close ==
    <<Clear({"fd"}), Put("fhs"), Clear({"event"}), Clear({"tmr", "reconnect"}),
      Put("mosq")>>

-----------------------------------------------------------------------------
(* httpd and httpreq: an HTTP server and an HTTP client.                    *)

httpd_http_req_handler ==
    Serve("req", Perhaps(<<Take("mb")>>
                             \o Guarded(<<Take("buf"), Call>>, <<>>,
                                        <<Put("mb"), Put("buf")>>)))

httpd_init == <<Get("st"), Get("httpsock"), Launch("req")>>

httpd_close == <<Clear({"req"}), Put("httpsock")>>

httpreq_ensure_alloc ==
    <<IfFree("net", 1), Get("net"), IfFree("client", 1), Get("client"),
      IfFree("conn", 1), Get("conn")>>

httpreq_send_request == httpreq_ensure_alloc \o <<Try, Use({"conn"})>>

httpreq_cmd_setauth == httpreq_ensure_alloc \o <<Try, Use({"conn"})>>

httpreq_cmd_setbody ==
    httpreq_ensure_alloc
        \o Perhaps(<<Get("mb")>> \o Perhaps(<<Use({"conn"})>>) \o <<Put("mb")>>)

\* Each of the functions that set a property of the connection.
httpreq_cmd_set_conn == httpreq_ensure_alloc \o <<Use({"conn"})>>

httpreq_cmd_set_client == httpreq_ensure_alloc \o <<Use({"client"})>>

httpreq_cmd_clear == <<Put("conn"), Put("client")>>

httpreq_ca_handler == httpreq_ensure_alloc \o Unchecked("mb") \o <<Use({"client"}), Put("mb")>>

httpreq_init ==
    <<Get("st")>> \o Perhaps(httpreq_cmd_set_conn)
        \o Perhaps(httpreq_ensure_alloc \o <<Get("buf"), Use({"client"}), Put("buf")>>)
        \o Perhaps(httpreq_ca_handler) \o <<Try>>

httpreq_destructor == <<Put("client"), Put("conn"), Put("net")>>

-----------------------------------------------------------------------------
(* cons: a console over UDP and TCP.  What baresip logs goes to it as well, *)
(* and any thread may log: that is the context "log".                       *)

cons_timeout == Serve("timeout", <<Clear({"timeout"}), Call>>)

cons_udp_recv ==
    Serve("udp", Unchecked("mbr")
                     \o <<Call, Maybe(1), Use({"us"}), Launch("timeout"),
                          Put("mbr")>>)

cons_tcp_recv_handler == Serve("tcp", <<Use({"tc"}), Call, Launch("timeout")>>)

cons_tcp_close_handler == Serve("closed", <<Clear({"closed", "tcp"}), Put("tc")>>)

cons_tcp_conn_handler ==
    Serve("conn", <<Clear({"closed", "tcp"}), Put("tc"), Maybe(3), Take("tc"),
                    Launch("tcp"), Launch("closed")>>)

cons_output_handler(mb) ==
    Perhaps(<<Take(mb), Maybe(1), Use({"us"}), IfHeld("tc", 1), Use({"tc"}),
              Put(mb)>>)

cons_log_handler == Serve("log", cons_output_handler("log_mb"))

cons_destructor ==
    <<Clear({"timeout"}), Clear({"udp"}), Put("us"), Clear({"closed", "tcp"}),
      Put("tc"), Clear({"conn"}), Put("ts")>>

cons_init ==
    <<Get("st"), Get("us"), Launch("udp"), Get("ts"), Launch("conn"),
      Launch("log")>>

cons_close == <<Clear({"log"})>> \o cons_destructor

-----------------------------------------------------------------------------
(* stdio, wincons and evdev: the keyboard.                                  *)

stdio_timeout == Serve("timeout", <<Clear({"timeout"}), Call>>)

stdio_ui_fd_handler == Serve("fd", <<Maybe(2), Launch("timeout"), Call>>)

\* "term" are the settings of the terminal that have to be restored.
stdio_term_setup == <<Maybe(1), Take("term")>>

stdio_ui_alloc == <<Get("st"), Get("fhs"), Launch("fd")>> \o stdio_term_setup

stdio_ui_destructor == <<Clear({"fd"}), Put("fhs"), Put("term"), Clear({"timeout"})>>

wincons_input_thread ==
    While("run", <<Maybe(3), Maybe(1), Clear({"run"}), Use({"mq"})>>)

wincons_timeout == stdio_timeout

wincons_mqueue_handler == Serve("mqueue", <<Launch("timeout"), Call>>)

\* The destructor waits for the thread, but not longer than five seconds.
wincons_destructor ==
    <<Clear({"run"}), IfHeld("hThread", 2), Maybe(1), Join("input"),
      Put("hThread"), Clear({"timeout"}), Clear({"mqueue"}), Put("mq")>>

wincons_ui_alloc ==
    <<Get("st"), Get("mq"), Launch("mqueue"), Set({"run"})>>
        \o Abort(<<Clear({"run"})>>) \o <<Take("hThread"), Create("input")>>

\* A device that is gone is closed at once.
evdev_close == <<IfHeld("fd", 3), Clear({"read"}), Put("fhs"), Put("fd")>>

evdev_fd_handler == Serve("read", Either(evdev_close, <<Maybe(1), Call>>))

evdev_output == <<IfHeld("fd", 1), Use({"fd"})>>

evdev_alloc == <<Get("st"), Get("fd"), Get("fhs"), Launch("read")>>
-----------------------------------------------------------------------------
AppProg ==
    [ctrl_tcp |->
        Looped(ctrl_tcp_init, ctrl_tcp_close, <<>>,
               [conn |-> ctrl_tcp_conn_handler,
                closed |-> ctrl_tcp_close_handler,
                recv |-> ctrl_tcp_netstring_recv_handler,
                event |-> ctrl_tcp_event_handler,
                message |-> ctrl_tcp_message_handler]),
     ctrl_dbus |->
        [Threaded(ctrl_dbus_init, ctrl_dbus_close,
                  [thread |-> ctrl_dbus_thread,
                   queue |-> ctrl_dbus_queue_handler,
                   event |-> ctrl_dbus_event_handler,
                   message |-> ctrl_dbus_message_handler])
            EXCEPT !.loop = {"queue", "event", "message"}],
     mqtt |->
        Looped(mqtt_init, mqtt_close, <<>>,
               [fd |-> mqtt_fd_handler, tmr |-> mqtt_tmr_handler,
                reconnect |-> mqtt_tmr_reconnect, event |-> mqtt_event_handler]),
     httpd |->
        Looped(httpd_init, httpd_close, <<>>, [req |-> httpd_http_req_handler]),
     httpreq |->
        Operated(httpreq_init, httpreq_destructor,
                 [send |-> httpreq_send_request, auth |-> httpreq_cmd_setauth,
                  body |-> httpreq_cmd_setbody, conn |-> httpreq_cmd_set_conn,
                  client |-> httpreq_cmd_set_client,
                  clear |-> httpreq_cmd_clear]),
     cons |->
        [Looped(cons_init, cons_close, [output |-> cons_output_handler("mb")],
                [timeout |-> cons_timeout, udp |-> cons_udp_recv,
                 tcp |-> cons_tcp_recv_handler,
                 closed |-> cons_tcp_close_handler,
                 conn |-> cons_tcp_conn_handler, log |-> cons_log_handler])
            EXCEPT !.loop = @ \ {"log"}],
     stdio |->
        Looped(stdio_ui_alloc, stdio_ui_destructor, <<>>,
               [fd |-> stdio_ui_fd_handler, timeout |-> stdio_timeout]),
     wincons |->
        [Looped(wincons_ui_alloc, wincons_destructor, <<>>,
                [input |-> wincons_input_thread, timeout |-> wincons_timeout,
                 mqueue |-> wincons_mqueue_handler])
            EXCEPT !.loop = @ \ {"input"}],
     evdev |->
        Looped(evdev_alloc, evdev_close, [output |-> evdev_output],
               [read |-> evdev_fd_handler])]
=============================================================================
