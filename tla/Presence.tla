------------------------------ MODULE Presence ------------------------------
(***************************************************************************)
(* The modules that watch and are watched over SIP, and what they do to    *)
(* the end of the program.  modules/mwi subscribes to the message summary  *)
(* of an account, modules/presence publishes our own status, notifies the  *)
(* watchers and subscribes to a contact.  Each of these objects holds a    *)
(* reference to a User-Agent, and baresip stops when the last reference to *)
(* the last User-Agent is gone (ua_destroy, ua_destructor, ua_stop_all).   *)
(*                                                                         *)
(* All of it runs on the main loop, so a handler is a step.  The state is  *)
(* one record, and the C functions are operators from state to state.  A   *)
(* function that asks the SIP stack for something has a parameter ok: the  *)
(* answer of the stack.  Documents, waiting times and routes are left out. *)
(***************************************************************************)
EXTENDS Naturals, FiniteSets, Sequences, SequencesExt

CONSTANTS
    UA,          \* the User-Agents
    WatchedUa,   \* those with a watcher
    MwiUa,       \* account_mwi() is set
    PubUa,       \* account_pubint() is not 0
    OutboundUa   \* account_sipnat() is "outbound"

ASSUME AccountsAssumption ==
    IsFiniteSet(UA) /\ WatchedUa \subseteq UA /\ MwiUa \subseteq UA /\ PubUa \subseteq UA /\ OutboundUa \subseteq UA

MaxReqs == 2     \* bound: PUBLISH requests of a publisher without an answer

VARIABLE s

None   == "none"
Status == {"unknown", "open", "closed"}

-----------------------------------------------------------------------------
(* User-Agents *)

\* The objects that hold a reference to u.
Holders(x, u) ==
    {h \in {"mwi"}       : x.mwi[u] # None}      \cup
    {h \in {"publisher"} : x.pub[u].on}      \cup
    {h \in {"notifier"}  : x.watcher[u] # None}  \cup
    {h \in {"presence"}  : x.pres.on /\ x.pres.ua = u}

mem_ref(x, u) == [x EXCEPT !.nref[u] = @ + 1]

\* sip_close(): the stack ends when its transactions have.
sip_close(x) == [x EXCEPT !.sip = IF @ = "open" THEN "closing" ELSE @]

\* ua_destructor(): what is registered is un-REGISTERed.  Of the handlers only that of mwi looks at UNREGISTERING,
\* and it has nothing of a User-Agent to which there is no reference.
ua_destructor_Kept(x, u) ==
    [x EXCEPT !.ual = SelectSeq(@, LAMBDA v : v # u), !.trans = x.quit]
ua_destructor(x, u) ==
    LET y == [x EXCEPT !.ual = SelectSeq(@, LAMBDA v : v # u), !.trans = x.quit]
    IN IF x.delayed_close /\ y.ual = <<>> THEN sip_close(y) ELSE y

mem_deref(x, u) ==
    LET y == [x EXCEPT !.nref[u] = IF @ = 0 THEN 0 ELSE @ - 1,
                       !.freed = @ \/ x.nref[u] = 0]
    IN IF x.nref[u] = 1 THEN ua_destructor(y, u) ELSE y

-----------------------------------------------------------------------------
(* Message waiting: an object per User-Agent, "sub" with a subscription and *)
(* "shut" with the timer that ends it                                       *)

mwi_subscribe_Unreferenced(x, u, ok) == IF ok THEN [x EXCEPT !.mwi[u] = "sub"] ELSE x
mwi_subscribe(x, u, ok) == IF ok THEN mem_ref([x EXCEPT !.mwi[u] = "sub"], u) ELSE x

mwi_destructor(x, u) == mem_deref([x EXCEPT !.mwi[u] = None], u)

\* The end of a subscription is a transaction of its own.
mwi_shutdown(x, u) ==
    CASE x.mwi[u] = None   -> x
      [] x.mwi[u] = "sub"  -> [x EXCEPT !.mwi[u] = "shut", !.trans = x.quit]
      [] x.mwi[u] = "shut" -> mwi_destructor(x, u)

mwi_event_handler(x, ev, u, ok) ==
    CASE ev = "REGISTER_OK" ->
           IF x.mwi[u] = None /\ u \in MwiUa THEN mwi_subscribe(x, u, ok) ELSE x
      [] ev = "SHUTDOWN" \/ (ev = "UNREGISTERING" /\ u \in OutboundUa) ->
           mwi_shutdown(x, u)
      [] OTHER -> x

-----------------------------------------------------------------------------
(* The publisher of a User-Agent *)

publisher_alloc == [on |-> TRUE, tmr |-> TRUE, etag |-> FALSE, refresh |-> FALSE,
                    reqs |-> 0, failed |-> FALSE]
NoPublisher == [publisher_alloc EXCEPT !.on = FALSE, !.tmr = FALSE]

publish(x, u, ok) == [x EXCEPT !.pub[u].reqs = IF ok THEN @ + 1 ELSE @]

publisher_update_status(x, u, ok) ==
    IF ~x.pub[u].on THEN x ELSE publish([x EXCEPT !.pub[u].refresh = FALSE], u, ok)

publisher_event_handler(x, ev, u, ok) ==
    IF u \in PubUa /\ ev = "REGISTER_OK" /\ x.status[u] = "unknown"
      THEN publisher_update_status([x EXCEPT !.status[u] = "open"], u, ok)
      ELSE x

\* The last PUBLISH has no handler; earlier ones are still waiting for theirs.
publisher_destructor(x, u) ==
    IF ~x.pub[u].on THEN x
    ELSE mem_deref([x EXCEPT !.status[u] = "closed", !.pub[u] = NoPublisher, !.trans = x.quit], u)

bevent_unregister(x, h) == [x EXCEPT !.ehel = SelectSeq(@, LAMBDA g : g # h)]

publisher_close(x) ==
    FoldSet(LAMBDA u, y : publisher_destructor(y, u), bevent_unregister(x, "publisher"), UA)

-----------------------------------------------------------------------------
(* The watcher of a User-Agent: what it was told last *)

notifier_update_status(x, u) ==
    IF x.watcher[u] = None THEN x ELSE [x EXCEPT !.watcher[u] = x.status[u]]

notifier_destructor(x, u) ==
    IF x.watcher[u] = None THEN x
    ELSE mem_deref([x EXCEPT !.watcher[u] = None, !.trans = x.quit], u)

notifier_close(x) ==
    FoldSet(LAMBDA u, y : notifier_destructor(y, u), [x EXCEPT !.subh = FALSE], UA)

-----------------------------------------------------------------------------
(* The subscriber to the status of a contact *)

NoPresence     == [on |-> FALSE, sub |-> FALSE, tmr |-> None, ua |-> None]
presence_alloc == [on |-> TRUE, sub |-> FALSE, tmr |-> "retry", ua |-> None]

\* subscribe(): uses the first User-Agent.
subscribe(x, ok) ==
    IF x.ual = <<>> THEN [x EXCEPT !.pres.tmr = "retry"]
    ELSE LET u == Head(x.ual)
             y == IF x.pres.ua = None THEN x ELSE mem_deref(x, x.pres.ua)
         IN mem_ref([y EXCEPT !.pres = [on |-> TRUE, sub |-> ok, ua |-> u,
                                        tmr |-> IF ok THEN None ELSE "retry"]], u)

presence_destructor(x) ==
    LET y == [x EXCEPT !.pres = NoPresence, !.trans = @ \/ (x.quit /\ x.pres.sub)]
    IN IF x.pres.ua = None THEN y ELSE mem_deref(y, x.pres.ua)

subscriber_close_all(x) ==
    LET y == [x EXCEPT !.contacth = FALSE]
    IN IF ~y.pres.on THEN y
       ELSE IF y.pres.sub
              THEN [y EXCEPT !.pres.sub = FALSE, !.pres.tmr = "deref", !.trans = y.quit]
              ELSE presence_destructor(y)

subscriber_close(x) ==
    LET y == [x EXCEPT !.contacth = FALSE]
    IN IF ~y.pres.on THEN y ELSE presence_destructor(y)

presence_event_handler(x, ev) ==
    IF ev = "SHUTDOWN" THEN subscriber_close_all(notifier_close(publisher_close(x))) ELSE x

-----------------------------------------------------------------------------
(* bevent.c: the handlers are called in the order of the list.  A handler   *)
(* may remove others; the next one is read before a handler is called, so   *)
(* removing that one leaves the caller with a released element.             *)

handle(x, h, ev, u, ok) ==
    CASE h = "publisher" -> publisher_event_handler(x, ev, u, ok)
      [] h = "presence"  -> presence_event_handler(x, ev)
      [] h = "mwi"       -> mwi_event_handler(x, ev, u, ok)

bevent_ua_emit(x, ev, u, ok) ==
    FoldLeft(LAMBDA a, h :
                 IF Contains(a.x.ehel, h) THEN [x |-> handle(a.x, h, ev, u, ok), before |-> a.x.ehel]
                 ELSE [a EXCEPT !.x.freed = @ \/ Contains(a.before, h), !.before = a.x.ehel],
             [x |-> x, before |-> <<>>], x.ehel).x

-----------------------------------------------------------------------------
(* The end of User-Agents *)

\* ua_destroy(); the calls are gone with it (module UaCalls).
ua_destroy(x, u) ==
    mem_deref(bevent_ua_emit([x EXCEPT !.ual = SelectSeq(@, LAMBDA v : v # u)],
                             "SHUTDOWN", u, TRUE), u)

\* ua_stop_all(FALSE): counts the User-Agents to which references are left at
\* the time they are destroyed.  History: missed, that none is left after all.
ua_stop_all(x) ==
    LET r == FoldLeft(LAMBDA a, u : LET y == ua_destroy(a.x, u)
                                    IN [x |-> y, ext_ref |-> a.ext_ref \/ y.nref[u] # 0],
                      [x |-> x, ext_ref |-> FALSE], x.ual)
    IN IF r.ext_ref THEN [r.x EXCEPT !.delayed_close = TRUE, !.missed = \A u \in UA : r.x.nref[u] = 0]
       ELSE sip_close(r.x)

\* The end of main(): ua_close(), then the modules are unloaded.
ua_close(x) == FoldLeft(mem_deref, [x EXCEPT !.sip = "closed", !.exited = TRUE], x.ual)

mwi_module_close(x) ==
    FoldSet(LAMBDA u, y : IF y.mwi[u] = None THEN y ELSE mwi_destructor(y, u),
            bevent_unregister(x, "mwi"), UA)

presence_module_close(x) ==
    subscriber_close(notifier_close(publisher_close(bevent_unregister(x, "presence"))))

module_app_unload(x) == presence_module_close(mwi_module_close(x))

-----------------------------------------------------------------------------
(* Steps *)

presence_init == <<"publisher", "presence">>

Init ==
    \E ual \in SetToSeqs(UA), contact \in BOOLEAN :
        s = [ual |-> ual, ehel |-> <<"mwi">> \o presence_init, contacth |-> TRUE, subh |-> TRUE,
             nref    |-> [u \in UA |-> IF u \in PubUa THEN 2 ELSE 1],
             status  |-> [u \in UA |-> "unknown"],
             mwi     |-> [u \in UA |-> None],
             pub     |-> [u \in UA |-> IF u \in PubUa THEN publisher_alloc ELSE NoPublisher],
             watcher |-> [u \in UA |-> None],
             pres    |-> IF contact THEN presence_alloc ELSE NoPresence,
             mwitmr |-> TRUE, trans |-> FALSE, sip |-> "open", delayed_close |-> FALSE,
             quit |-> FALSE, exited |-> FALSE, spins |-> FALSE, freed |-> FALSE,
             deleted |-> FALSE, late |-> FALSE, missed |-> FALSE]

\* A User-Agent is gone that something still points to; nothing can be said
\* of the program from there on.
Dangling(x) == x.freed \/ \E u \in UA : Holders(x, u) # {} /\ x.nref[u] = 0

\* Once uadel took the reference of another (deleted), neither.  Bound: in the
\* millisecond before mwi's first timer only REGISTER is answered.
Running == ~s.exited /\ ~s.spins /\ ~s.deleted /\ ~Dangling(s)

Becomes(x) == Running /\ ~s.mwitmr /\ s' = x

\* reg.c: a REGISTER is answered; a destroyed User-Agent is still registered
\* while there are references to it.
RegisterOk(u) ==
    \E ok \in BOOLEAN :
        /\ Running /\ s.nref[u] > 0 /\ s.pub[u].reqs < MaxReqs
        /\ LET x == bevent_ua_emit(s, "REGISTER_OK", u, ok)
           IN s' = [x EXCEPT !.late = @ \/ (~Contains(s.ual, u) /\ x.mwi # s.mwi)]

\* ua_unregister() and ua_stop_register().
ua_unregister(u) == Contains(s.ual, u) /\ Becomes(bevent_ua_emit(s, "UNREGISTERING", u, TRUE))

\* The timer of mwi's module_init subscribes for every element of the list,
\* and appends one to the list each time.
mwi_tmr_handler ==
    /\ s.mwitmr /\ Running
    /\ s' = [s EXCEPT !.mwitmr = FALSE, !.spins = \E u \in UA : s.mwi[u] # None]

\* close_handler(): the server, or the loss of it, ended the subscription.
mwi_close_handler(u) == s.mwi[u] = "sub" /\ Becomes(mwi_destructor(s, u))

mwi_deref_handler(u) == s.mwi[u] = "shut" /\ Becomes(mwi_destructor(s, u))

\* publisher.c: tmr_handler().
publisher_tmr_handler(u) ==
    /\ s.pub[u].on /\ s.pub[u].tmr /\ s.pub[u].reqs < MaxReqs
    /\ \E ok \in BOOLEAN : Becomes(publish([s EXCEPT !.pub[u].tmr = ~ok], u, ok))

response_handler(u, r) ==
    /\ s.pub[u].on /\ s.pub[u].reqs > 0
    /\ LET x == [s EXCEPT !.pub[u].reqs = @ - 1]
       IN CASE r = "etag"   -> Becomes([x EXCEPT !.pub[u].etag = TRUE, !.pub[u].refresh = TRUE,
                                                 !.pub[u].tmr = TRUE])
            [] r = "412"    -> \E ok \in BOOLEAN :
                                 Becomes(publish([x EXCEPT !.pub[u].etag = FALSE, !.pub[u].refresh = FALSE,
                                                           !.pub[u].failed = @ \/ ~ok], u, ok))
            [] r = "failed" -> Becomes([x EXCEPT !.pub[u].failed = TRUE])

status_update(x, u, st, ok) ==
    IF x.status[u] = st THEN x
    ELSE notifier_update_status(publisher_update_status([x EXCEPT !.status[u] = st], u, ok), u)

cmd_pres(st) ==
    /\ \A u \in UA : s.pub[u].on => s.pub[u].reqs < MaxReqs
    /\ \E ok \in BOOLEAN : Becomes(FoldLeft(LAMBDA x, u : status_update(x, u, st, ok), s, s.ual))

\* notifier_add(): a SUBSCRIBE for u; uag.c's sub_handler looks for u in the
\* list.  One watcher of each of WatchedUa.
notifier_add(u) ==
    /\ u \in WatchedUa /\ s.subh /\ Contains(s.ual, u) /\ s.watcher[u] = None
    /\ Becomes(notifier_update_status(mem_ref([s EXCEPT !.watcher[u] = "unknown"], u), u))

sipnot_close_handler(u) == s.watcher[u] # None /\ Becomes(notifier_destructor(s, u))

\* subscriber.c: tmr_handler(), close_handler() and deref_handler().
presence_tmr_handler ==
    s.pres.on /\ s.pres.tmr = "retry" /\ \E ok \in BOOLEAN : Becomes(subscribe(s, ok))

presence_close_handler_Quiet == s.pres.on /\ s.pres.sub /\ Becomes([s EXCEPT !.pres.sub = FALSE])
presence_close_handler ==
    s.pres.on /\ s.pres.sub /\ Becomes([s EXCEPT !.pres.sub = FALSE, !.pres.tmr = "retry"])

presence_deref_handler == s.pres.on /\ s.pres.tmr = "deref" /\ Becomes(presence_destructor(s))

\* contact_handler(): a contact comes or goes.
contact_handler ==
    /\ s.contacth
    /\ \/ ~s.pres.on /\ Becomes([s EXCEPT !.pres = presence_alloc])
       \/ s.pres.on /\ Becomes(presence_destructor(s))

\* menu: cmd_ua_delete() and cmd_ua_delete_all() release a User-Agent whoever
\* holds references to it.
cmd_ua_delete(u) ==
    /\ Contains(s.ual, u)
    /\ Becomes([mem_deref(s, u) EXCEPT !.deleted = @ \/ Holders(s, u) # {}])

\* main.c: signal_handler(), or the command to quit.
Quit ==
    ~s.quit /\ \E pending \in BOOLEAN : Becomes(ua_stop_all([s EXCEPT !.quit = TRUE, !.trans = pending]))

SipTransactionsEnd == s.trans /\ Becomes([s EXCEPT !.trans = FALSE])

\* exit_handler() and ua_exit_handler() stop the loop; the end of main().
exit_handler == s.sip = "closing" /\ ~s.trans /\ Becomes(module_app_unload(ua_close(s)))

Answers == {"etag", "412", "failed"}

Next ==
    \/ \E u \in UA : \/ RegisterOk(u) \/ ua_unregister(u)
                     \/ mwi_close_handler(u) \/ mwi_deref_handler(u)
                     \/ publisher_tmr_handler(u) \/ \E r \in Answers : response_handler(u, r)
                     \/ notifier_add(u) \/ sipnot_close_handler(u)
                     \/ cmd_ua_delete(u)
    \/ \E st \in {"open", "closed"} : cmd_pres(st)
    \/ mwi_tmr_handler \/ presence_tmr_handler \/ presence_close_handler
    \/ presence_deref_handler \/ contact_handler
    \/ Quit \/ SipTransactionsEnd \/ exit_handler

Spec == Init /\ [][Next]_s

\* Timers expire, transactions end by an answer or by their own timers, and
\* the exit handler is called.
FairSpec ==
    /\ Spec
    /\ \A u \in UA : WF_s(mwi_deref_handler(u))
    /\ WF_s(presence_deref_handler) /\ WF_s(SipTransactionsEnd) /\ WF_s(exit_handler)

-----------------------------------------------------------------------------
(* Properties *)

\* The fields of the state have the values of the structs they stand for.
TypeOK ==
    /\ Range(s.ual) \subseteq UA /\ Range(s.ehel) \subseteq {"publisher", "presence", "mwi"}
    /\ s.nref \in [UA -> 0..5] /\ s.status \in [UA -> Status]
    /\ s.mwi \in [UA -> {None, "sub", "shut"}]
    /\ s.pub \in [UA -> [on : BOOLEAN, tmr : BOOLEAN, etag : BOOLEAN, refresh : BOOLEAN,
                         reqs : 0..MaxReqs, failed : BOOLEAN]]
    /\ s.watcher \in [UA -> {None} \cup Status]
    /\ s.pres \in [on : BOOLEAN, sub : BOOLEAN, tmr : {None, "retry", "deref"}, ua : {None} \cup UA]
    /\ s.sip \in {"open", "closing", "closed"}

\* References are exact: a User-Agent has one for the list and one for each
\* object of the modules that points to it, so it lives as long as these do
\* and no longer, through every order of events, timers, closed
\* subscriptions and shutdown.  The exception of the code: the commands
\* uadel and uadelall take a reference that is not theirs (static_menu.c).
Referenced ==
    \/ s.deleted
    \/ \A u \in UA : s.nref[u] = Cardinality(Holders(s, u)) + (IF Contains(s.ual, u) THEN 1 ELSE 0)

\* An event is never passed on to a handler that was released while the
\* event was on its way (bevent_emit_base reads the next element before it
\* calls a handler; the handler of presence removes that of the publisher).
EmissionSafe == s.freed => s.deleted

\* The subscriber to a contact is never forgotten: it has a subscription or
\* the timer that leads to the next one, or to its end at the shutdown.
SubscriberKept == s.pres.on => (s.pres.sub <=> s.pres.tmr = None)

\* The publisher is kept alive: unless a PUBLISH was refused or lost
\* (response_handler gives up on it), the next one is timed or on its way; and
\* one without a body, a refresh, always names the publication it refreshes.
PublisherKept ==
    \A u \in UA : s.pub[u].on =>
        /\ s.pub[u].failed \/ s.pub[u].tmr \/ s.pub[u].reqs > 0
        /\ s.pub[u].refresh => s.pub[u].etag

\* A watcher knows our status, whatever happened since it subscribed.  The
\* exception of the code: publisher.c's event_handler makes "open" of
\* "unknown" and tells the server, but not the watchers.
WatcherTold ==
    \A u \in UA : s.watcher[u] # None =>
        s.watcher[u] = s.status[u] \/ (s.watcher[u] = "unknown" /\ s.status[u] = "open")

\* When main() has unloaded the modules, no User-Agent is left.
NothingLeftAtExit == s.exited => s.deleted \/ \A u \in UA : s.nref[u] = 0

\* baresip stops: once ua_stop_all() was called, the references of the
\* modules are given back, the SIP stack is closed and the main loop ends.
\* The exceptions of the code: the last reference went too early
\* for ua_stop_all() to see (missed); a REGISTER answered after the shutdown
\* makes mwi subscribe again (late); the timer of mwi's module_init met a
\* subscription (spins); and uadel (deleted).
QuitEnds ==
    s.quit ~> \/ s.exited \/ s.deleted \/ s.spins \/ s.late \/ s.missed

\* Nothing is released while it is in use, and nothing is left at the end, through
\* every order of events, timers, closed subscriptions and shutdown.
RefsExact == TypeOK /\ Referenced /\ EmissionSafe /\ NothingLeftAtExit

\* Nobody who subscribed, publishes or watches is forgotten: there is always a
\* subscription, a request or a timer that goes on, and watchers are up to date.
NobodyForgotten == SubscriberKept /\ PublisherKept /\ WatcherTold
=============================================================================
