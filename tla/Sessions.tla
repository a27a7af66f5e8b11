------------------------------ MODULE Sessions ------------------------------
(***************************************************************************)
(* Further objects of baresip's core in the form of ObjectCode: media      *)
(* streams with their bundle (stream.c, bundle.c), peer connections        *)
(* (peerconn.c, mediatrack.c), accounts, user agents, local addresses,     *)
(* listeners for messages and contacts.  A list is one resource, held      *)
(* while it has an element.  Parameters of an account come all or none.    *)
(***************************************************************************)
EXTENDS ObjectCode, Naturals, Sequences

\* Resources obtained in turn.
GetAll(s) == [i \in 1..Len(s) |-> Get(s[i])]

PutAll(s) == [i \in 1..Len(s) |-> Put(s[i])]

\* A new element x of a list l.
AppendTo(l, x) == <<IfFree(l, 1), Take(l), Put(x)>>

\* A string is replaced, or only removed.
Replace(r) == <<Put(r), Maybe(1), Get(r)>>

-----------------------------------------------------------------------------
(* A media stream.  Its receiver "rx" is that of RtpRecv; here it is a     *)
(* resource which stream_close releases early.                             *)

\* The media encryption is prepared, or told of the new description.
stream_start_mediaenc ==
    <<IfHeld("mencs", 3), Locked("lock", {"rtp", "sdp"}), IfFree("mes", 1),
      Get("mes")>>

stream_alloc ==
    GetAll(<<"st", "lock", "metric">>) \o <<Try>>
        \o GetAll(<<"rx", "rtp", "cname", "peer", "sdp">>)
        \o <<Maybe(1), Take("mid"), Try>>
        \o Perhaps(<<Get("mns"), Launch("mnat")>>)
        \o Perhaps(<<Take("mencs")>> \o stream_start_mediaenc)

stream_destructor ==
    <<Put("metric"), Clear({"rtptmr", "natph"}), Put("rx"), Put("sdp"),
      Put("mes"), Put("mencs"), Clear({"mnat"}), Put("mns"), Put("uh"),
      Put("bundle"), Put("rtp"), Put("cname"), Put("peer"), Put("mid"),
      Put("lock")>>

\* The RTP timeout: the owner may release the stream in its handler.
stream_close == <<Clear({"natph"}), Put("rx"), Errh>>

stream_check_rtp_handler ==
    Serve("rtptmr", <<IfHeld("rx", 1 + Len(stream_close))>>
                        \o Perhaps(stream_close))

stream_natpinhole_handler ==
    Serve("natph", Perhaps(<<Take("mb"), Locked("lock", {}), Use({"rtp"}),
                             Put("mb")>>))

\* The media-NAT module has the address of the receiver.
stream_mnat_connected ==
    Serve("mnat", <<Use({"rx"}), Locked("lock", {}), Launch("natph")>>)

stream_send ==
    Serve("send", <<Use({"metric"}), Locked("lock", {"rtp"}),
                    Use({"metric"})>>)

stream_resend == <<Locked("lock", {}), Use({"rtp"})>>

stream_disable_mnat == <<Clear({"mnat"}), Put("mns")>>

stream_parse_mid == Perhaps(<<Put("mid"), Maybe(1), Take("mid"), Use({"sdp"})>>)

stream_remote_set ==
    stream_parse_mid \o <<Locked("lock", {"sdp"}), Locked("lock", {})>>

\* A part of a bundle that is not its base gives up the media-NAT session.
stream_update ==
    LET media == When("mux", stream_disable_mnat) \o stream_remote_set
                     \o <<IfHeld("bundle", 1), Use({"bundle", "sdp"})>>
    IN <<Clear({"natph"}), Locked("lock", {"sdp"})>> \o Perhaps(media)
           \o Perhaps(stream_start_mediaenc) \o Perhaps(<<Launch("natph")>>)

\* stream_hold and stream_set_ldir.
stream_hold == <<Use({"sdp"}), IfHeld("rx", 1), Use({"rx"}), Use({"rtp"})>>

stream_enable_rtp_timeout ==
    <<Clear({"rtptmr"}), Maybe(2), Use({"sdp"}), Launch("rtptmr")>>

stream_bundle_init == <<Get("bundle")>> \o Perhaps(<<Use({"sdp"}), Try>>)

bundle_start_socket ==
    <<IfHeld("bundle", 4), IfFree("uh", 3), Maybe(2), Use({"rtp"}), Take("uh")>>

stream_enable_bundle ==
    Perhaps(<<Set({"mux"})>> \o stream_disable_mnat \o <<Put("mencs")>>)
        \o bundle_start_socket

bundle_sdp_decode ==
    stream_parse_mid \o Perhaps(stream_enable_bundle \o <<Try>>)
        \o stream_parse_mid

-----------------------------------------------------------------------------
(* A peer connection with one media track.  The state of signalling is one *)
(* of "offered" (ours), "remote" (theirs) and stable.                      *)

Signalling == {"offered", "remote"}

peerconnection_new ==
    <<Get("st"), Get("sdp"), Get("mnats"), Launch("mnat"), Get("mencs"),
      Launch("menc"), Set({"closeh"})>>

\* pc_close: the owner is told once.
pc_close == When("closeh", <<Clear({"closeh"}), Tell>>)

\* mediatrack_stop, mem_deref(media).
mediatrack_destructor == <<Put("u"), Put("media")>>

peerconnection_destructor ==
    mediatrack_destructor \o pc_close
        \o <<Put("sdp"), Clear({"mnat", "menc"}), Put("mnats"), Put("mencs")>>

\* The result of media_track_add is not checked; on an error the track stays
\* in the list, empty.
peerconnection_add_track ==
    <<IfFree("media", 5)>> \o Unchecked("media")
        \o <<IfHeld("media", 1), Get("u")>>

peerconnection_set_remote_descr ==
    LET decode == <<Maybe(2), Switch(Signalling, {"remote"}), Skip(1),
                    Switch(Signalling, {}), Use({"sdp"}), Try,
                    IfHeld("u", 1), Use({"u"}), Set({"sdp_dec_ok"})>>
    IN Either(<<Switch(Signalling, {})>>, <<IfClear("remote", Len(decode))>>
                                              \o decode)

peerconnection_create_offer ==
    <<IfSet("gather_ok", 5), IfClear("offered", 4), IfClear("remote", 3),
      Use({"sdp"}), Try, Switch(Signalling, {"offered"})>>

peerconnection_create_answer ==
    <<IfSet("gather_ok", 4), IfSet("remote", 3), Use({"sdp"}), Try,
      Switch(Signalling, {})>>

peerconnection_start_ice ==
    <<IfSet("sdp_dec_ok", 2), IfHeld("mnats", 1), Use({"mnats"})>>

peerconnection_close == <<Clear({"closeh"}), Clear({"mnat"}), Put("mnats")>>

\* The session has gathered, or failed.
peerconnection_mnat_estab_handler ==
    Serve("mnat", Either(<<Set({"gather_ok"}), Tell>>, pc_close))

\* A track is secure.  menc_error_handler does not forget the handler.
peerconnection_menc_event_handler ==
    Serve("menc", Either(When("closeh", <<Tell>>),
                         <<IfHeld("u", 2), Set({"dtls_ok"}), Use({"u"}), Tell>>))

mediatrack_mnatconn_handler ==
    <<IfHeld("u", 2), Set({"ice_conn"}), Use({"u"})>>

\* mediatrack_start_audio and mediatrack_start_video.
mediatrack_start ==
    <<IfSet("ice_conn", 3), IfSet("dtls_ok", 2), Use({"u"}), Try>>

-----------------------------------------------------------------------------
(* An account: strings from the parameters of its address.                 *)

account_sip_params ==
    <<"regq", "outboundv", "sipnat", "auth_user", "dispname">>

account_uas_params == <<"uas_user", "uas_pass">>

account_media_params == <<"mencid", "mnatid">>

account_decode_pairs ==
    <<"ausrc_mod", "ausrc_dev", "auplay_mod", "auplay_dev", "vidsrc_mod",
      "vidsrc_dev", "viddisp_mod", "viddisp_dev">>

account_stunsrv_params == <<"stun_host", "stun_user", "stun_pass">>

\* The copy of the value of "sipnat" is the function's own.
account_sip_params_decode ==
    <<Maybe(1), Take("value"), Put("value")>> \o GetAll(account_sip_params)

\* The user name and the password for requests are copied without a check.
account_uasauth_decode ==
    <<Maybe(1), Take("uas_user"), Maybe(1), Take("uas_pass")>>

account_alloc ==
    GetAll(<<"st", "buf">>) \o <<Try, Get("aor")>>
        \o Perhaps(account_sip_params_decode \o account_uasauth_decode
                       \o GetAll(account_media_params) \o <<Try>>
                       \o GetAll(account_decode_pairs) \o <<Get("auth_pass")>>
                       \o GetAll(account_stunsrv_params)
                       \o GetAll(<<"cert", "extra">>) \o <<Try>>)

account_destructor ==
    PutAll(<<"auth_user", "auth_pass", "outboundv", "regq", "sipnat",
             "stun_user", "stun_pass", "stun_host", "mnatid", "mencid", "aor",
             "dispname", "buf">>)
        \o PutAll(account_decode_pairs) \o PutAll(<<"cert", "extra">>)
        \o PutAll(account_uas_params)

\* The other setters of strings have the same form.
account_set_stun_uri == Replace("stun_host")

-----------------------------------------------------------------------------
(* A user agent. "host" and "buf" are variables of ua_alloc.               *)

ua_create_register_clients == Perhaps(<<Try, IfFree("regl", 1), Get("regl")>>)

\* A certificate that the transport refuses is a plain return.
ua_add_cert ==
    <<[Try EXCEPT !.lost = TRUE], Get("host"), Try>>

ua_alloc(cert) ==
    <<Get("st"), Maybe(1), Get("buf")>> \o GetAll(<<"acc", "cuser">>) \o cert
        \o ua_create_register_clients \o <<Use({"acc"}), Put("host"), Put("buf")>>

ua_alloc_out == <<Put("host"), Put("buf")>>

\* The event tells which account is unregistered.
ua_destructor ==
    <<IfHeld("regl", 1), Use({"acc"}), Put("regl"), Put("cuser"),
      Put("pub_gruu"), Put("ansval"), Put("acc"), Put("custom_hdrs"),
      Put("hdr_filter")>>

ua_update_account == <<Put("regl")>> \o ua_create_register_clients

ua_add_xhdr_filter ==
    <<Get("filter")>> \o Abort(<<Put("filter")>>)
        \o AppendTo("hdr_filter", "filter")

ua_add_custom_hdr ==
    <<Get("name")>> \o Abort(<<Put("name")>>)
        \o AppendTo("custom_hdrs", "name")

ua_rm_custom_hdr == <<Maybe(1), Put("custom_hdrs")>>

ua_set_custom_hdrs == <<Put("custom_hdrs")>> \o Perhaps(ua_add_custom_hdr)

\* ua_add_custom_hdr may fail inside.
ua_enable_autoanswer ==
    <<Get("mb")>> \o Abort(<<Put("mb")>>) \o <<Take("name")>>
        \o Abort(<<Put("name"), Put("mb")>>)
        \o AppendTo("custom_hdrs", "name") \o <<Put("mb")>>

ua_set_autoanswer_value == Replace("ansval")

ua_pub_gruu_set == Replace("pub_gruu")

-----------------------------------------------------------------------------
(* The network's local addresses, the listeners for messages, and contacts.*)

net_add_address_ifname ==
    <<Get("laddr")>> \o Abort(<<Put("laddr")>>) \o AppendTo("laddrs", "laddr")

net_alloc ==
    <<Get("st"), Try, Get("dnsc"), Use({"dnsc"})>>
        \o Perhaps(<<Take("laddr")>> \o AppendTo("laddrs", "laddr"))

net_destructor == <<Put("dnsc"), Put("laddrs")>>

net_rm_address == <<Maybe(1), Put("laddrs")>>

net_set_address == <<Put("laddrs")>> \o Perhaps(net_add_address_ifname)

net_use_nameserver == <<Use({"dnsc"})>>

message_listen ==
    <<IfFree("sip_lsnr", 2), Get("sip_lsnr"), Launch("request"), Get("lsnr")>>
        \o AppendTo("lsnrl", "lsnr")

message_unlisten == <<Maybe(1), Put("lsnrl")>>

\* A listener may end the application, and with it this object.
message_request_handler ==
    Serve("request", Perhaps(<<IfHeld("lsnrl", 2), Use({"lsnrl"}), Tell>>))

message_destructor == <<Put("lsnrl"), Clear({"request"}), Put("sip_lsnr")>>

contact_init == <<Get("st"), Get("cht")>>

contacts_destructor ==
    <<Put("cur"), Clear({"hashed"}), Put("cht")>>
        \o When("hashed", <<Use({"cht"})>>) \o <<Put("cl")>>

\* The handler of the owner is told; "hashed": the contact is in the table,
\* from which its destructor takes it.
contact_remove ==
    <<IfHeld("cl", 4), Use({"cl", "cht"}), Clear({"hashed"}), Put("cur"),
      Put("cl")>>

contact_add ==
    <<Get("c")>> \o Abort(<<Put("c")>>) \o Perhaps(contact_remove)
        \o Abort(<<Put("c")>>) \o <<Use({"cht"}), Set({"hashed"})>>
        \o AppendTo("cl", "c")

contacts_set_current == <<IfHeld("cl", 2), Put("cur"), Take("cur")>>

SessionProg ==
    [k \in {"stream", "stream_tx", "stream_bundle", "peerconn",
            "mediatrack", "account", "ua", "ua_cert", "net", "message",
            "contacts"} |->
        CASE k = "stream" ->
               Looped(stream_alloc, stream_destructor,
                      [update |-> stream_update, hold |-> stream_hold,
                       timeout |-> stream_enable_rtp_timeout],
                      [rtptmr |-> stream_check_rtp_handler,
                       natph |-> stream_natpinhole_handler,
                       mnat |-> stream_mnat_connected])
          [] k = "stream_tx" ->
               [Threaded(stream_alloc \o <<Launch("send")>>,
                         Halt("send") \o stream_destructor,
                         [send |-> stream_send, mnat |-> Serve("mnat", <<>>)])
                  EXCEPT !.ops = [resend |-> stream_resend]]
          [] k = "stream_bundle" ->
               Looped(stream_alloc \o stream_bundle_init, stream_destructor,
                      [decode |-> bundle_sdp_decode, update |-> stream_update],
                      [natph |-> stream_natpinhole_handler,
                       mnat |-> stream_mnat_connected])
          [] k = "peerconn" ->
               Looped(peerconnection_new, peerconnection_destructor,
                      [remote |-> peerconnection_set_remote_descr,
                       offer |-> peerconnection_create_offer,
                       answer |-> peerconnection_create_answer,
                       ice |-> peerconnection_start_ice,
                       close |-> peerconnection_close],
                      [mnat |-> peerconnection_mnat_estab_handler,
                       menc |-> Serve("menc", <<>>)])
          [] k = "mediatrack" ->
               Looped(peerconnection_new, peerconnection_destructor,
                      [add |-> peerconnection_add_track,
                       connected |-> mediatrack_mnatconn_handler,
                       start |-> mediatrack_start],
                      [menc |-> peerconnection_menc_event_handler,
                       mnat |-> Serve("mnat", <<>>)])
          [] k = "account" ->
               Operated(account_alloc, account_destructor,
                        [stun_uri |-> account_set_stun_uri])
          [] k = "ua" ->
               [Operated(ua_alloc(<<>>), ua_destructor,
                         [account |-> ua_update_account,
                          filter |-> ua_add_xhdr_filter,
                          add |-> ua_add_custom_hdr,
                          rm |-> ua_rm_custom_hdr,
                          set |-> ua_set_custom_hdrs,
                          answer |-> ua_enable_autoanswer,
                          value |-> ua_set_autoanswer_value,
                          gruu |-> ua_pub_gruu_set])
                  EXCEPT !.fail = ua_alloc_out]
          [] k = "ua_cert" ->
               [Plain(ua_alloc(ua_add_cert), ua_destructor)
                  EXCEPT !.fail = ua_alloc_out]
          [] k = "net" ->
               Operated(net_alloc, net_destructor,
                        [add |-> net_add_address_ifname,
                         rm |-> net_rm_address, set |-> net_set_address,
                         dns |-> net_use_nameserver])
          [] k = "message" ->
               Looped(<<Get("st")>>, message_destructor,
                      [listen |-> message_listen,
                       unlisten |-> message_unlisten],
                      [request |-> message_request_handler])
          [] k = "contacts" ->
               Operated(contact_init, contacts_destructor,
                        [add |-> contact_add, remove |-> contact_remove,
                         current |-> contacts_set_current])]
=============================================================================
