----------------------------- MODULE ObjectCode -----------------------------
(***************************************************************************)
(* The vocabulary in which the objects of baresip's modules are written    *)
(* down: drivers, codecs, filters, sessions.                               *)
(*                                                                         *)
(* Such an object, "st", has resources (buffers, device handles, strings,  *)
(* sub-objects), flags (`run' and friends) and contexts of its own:        *)
(* threads it creates, callbacks a library issues from a thread of its     *)
(* own, timers and handlers the main loop calls.  Each C function becomes  *)
(* a sequence of the instructions below; what is left of it is the order   *)
(* in which it takes, touches and gives back what the contexts share.      *)
(* Module ObjectLife runs the sequences.                                   *)
(*                                                                         *)
(* "goto out" on an error is the default reaction to an instruction that   *)
(* can fail: the allocating function then releases the object it was       *)
(* making (mem_deref), a thread leaves its function, any other function    *)
(* returns.                                                                *)
(***************************************************************************)
LOCAL INSTANCE Integers
LOCAL INSTANCE Sequences

\* A resource is obtained and kept in the object, or the call fails.
Get(r) == [op |-> "get", r |-> r, undo |-> {}, lost |-> FALSE]

\* The same for a call whose failure is dealt with by a Maybe before it.
Take(r) == [op |-> "take", r |-> r]

\* As Get, but the error path is a plain `return': nothing is released.
GetOrReturn(r) == [op |-> "get", r |-> r, undo |-> {}, lost |-> TRUE]

\* A call that can fail and leaves nothing behind.
Try == [op |-> "try", undo |-> {}, lost |-> FALSE]

\* A pointer that may be NULL is released; Close is for one that must not be.
Put(r) == [op |-> "put", r |-> r]

Close(r) == [op |-> "close", r |-> r]

\* Assignments of TRUE and FALSE to flags of the object.
Set(F) == [op |-> "set", f |-> F]

Clear(F) == [op |-> "clear", f |-> F]

\* Of the flags in F, the values of one variable, those in G become TRUE.
Switch(F, G) == [op |-> "switch", off |-> F, f |-> G]

\* A thread is created; when that fails the flags in F are cleared again.
Spawn(t, F) == [op |-> "spawn", t |-> t, undo |-> F, lost |-> FALSE]

\* The same where a Maybe before it deals with the failure.
Create(t) == [op |-> "create", t |-> t]

\* A library, or the main loop, is told to call t from now on.
Launch(t) == [op |-> "launch", t |-> t]

\* thrd_join: waits for a thread that has been created.
Join(t) == [op |-> "join", t |-> t]

\* Waits until the callback t, if it is running, has returned.
Await(t) == [op |-> "await", t |-> t]

\* The error path is taken.
Raise == [op |-> "raise", undo |-> {}, lost |-> FALSE]

\* A mutex of the object; LoopLock is for the one of a library's main loop.
Lock(m) == [op |-> "lock", m |-> m, own |-> {"st", m}]

Unlock(m) == [op |-> "unlock", m |-> m, own |-> {"st", m}]

LoopLock == [op |-> "lock", m |-> "loop", own |-> {}]

LoopUnlock == [op |-> "unlock", m |-> "loop", own |-> {}]

\* A critical section of m in which nothing but the resources R is touched.
Locked(m, R) == [op |-> "locked", m |-> m, own |-> {"st", m} \cup R]

\* The resources R of the object are read or written.
Use(R) == [op |-> "use", r |-> R]

\* The owner's frame handler is called (the audio or video pipeline).
Call == [op |-> "call"]

\* The owner's error handler is called; it may release the object.
Errh == [op |-> "errh"]

\* The same for any other handler of the owner in which it may do so.
Tell == [op |-> "tell"]

\* The next n instructions may be left out.
Maybe(n) == [op |-> "maybe", n |-> n]

\* The next n instructions are left out unless flag f is set (is clear).
IfSet(f, n) == [op |-> "if", f |-> f, want |-> TRUE, n |-> n, own |-> {"st"}]

IfClear(f, n) == [IfSet(f, n) EXCEPT !.want = FALSE]

\* The next n instructions are left out.
Skip(n) == [IfSet("", n) EXCEPT !.own = {}]

\* The next n instructions are left out unless r is NULL (is not NULL).
IfFree(r, n) == [op |-> "null", r |-> r, want |-> TRUE, n |-> n]

IfHeld(r, n) == [IfFree(r, n) EXCEPT !.want = FALSE]

Back(n) == [op |-> "back", n |-> n]

Perhaps(body) == <<Maybe(Len(body))>> \o body

\* An error path on which body is executed before the function returns.
Abort(body) == Perhaps(body \o <<Raise>>)

\* One of two alternatives is executed.
Either(a, b) == <<Maybe(Len(a) + 1)>> \o a \o <<Skip(Len(b))>> \o b

\* An allocation whose result is used without having been checked.
Unchecked(r) == <<Maybe(1), Take(r), Use({r})>>

When(f, body) == <<IfSet(f, Len(body))>> \o body

\* while (st->f) { body }
While(f, body) ==
    <<IfSet(f, Len(body) + 1)>> \o body \o <<Back(Len(body) + 1)>>

\* The caller of a callback or of a timer handler: it calls while t is set.
Serve(t, body) ==
    <<[IfSet(t, Len(body) + 1) EXCEPT !.own = {}]>> \o body
        \o <<Back(Len(body) + 1)>>

\* The same for callbacks issued under the library's own lock.
ServeLocked(t, body) ==
    <<[op |-> "lockif", t |-> t, n |-> Len(body) + 3]>> \o body
        \o <<LoopUnlock, Back(Len(body) + 2)>>

\* Steps of which each may fail and then continue at out, after loop.
Guarded(s, loop, out) ==
    [i \in 1..(2 * Len(s)) |->
        IF i % 2 = 1 THEN Maybe(2 * Len(s) - i + Len(loop)) ELSE s[i \div 2]]
    \o loop \o out

\* if (st->f) { st->f = false; thrd_join(t); }
Stop(f, t) == When(f, <<Clear({f}), Join(t)>>)

\* A library is told to stop calling t, and returns when it has stopped.
Halt(t) == <<Clear({t}), Await(t)>>

\* A handler of the owner is fetched under the mutex m and, if it is still
\* set, body is executed with it.
Fetch(m, h, body) ==
    <<Lock(m), IfSet(h, Len(body) + 2), Unlock(m)>> \o body
        \o <<Skip(1), Unlock(m)>>

\* mtx_lock(m); st->h = NULL; mtx_unlock(m)
Forget(m, h) == <<Lock(m), Clear({h}), Unlock(m)>>

\* The parts of an object with no contexts of its own, no operations besides
\* alloc, and nothing to do on an error before the object is released.
Plain(alloc, destructor) ==
    [alloc |-> alloc, fail |-> <<>>, ops |-> <<>>, destroy |-> destructor,
     thr |-> <<>>, loop |-> {}]

\* An object with operations.
Operated(alloc, destructor, ops) ==
    [Plain(alloc, destructor) EXCEPT !.ops = ops]

\* An object with the contexts thr.
Threaded(alloc, destructor, thr) ==
    [Plain(alloc, destructor) EXCEPT !.thr = thr]

\* An object with operations and with handlers called by the main loop.
Looped(alloc, destructor, ops, thr) ==
    [Plain(alloc, destructor)
        EXCEPT !.ops = ops, !.thr = thr, !.loop = DOMAIN thr]
=============================================================================
