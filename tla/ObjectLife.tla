----------------------------- MODULE ObjectLife -----------------------------
(***************************************************************************)
(* One object of one of baresip's modules, from its allocation by the main *)
(* thread to the end of its destructor, together with the threads,         *)
(* callbacks and handlers that work on it meanwhile.  The code of every    *)
(* kind of object is a table of instruction sequences (ObjectCode); this   *)
(* module interprets it, one instruction of one context at a time.         *)
(*                                                                         *)
(* mem_deref runs the destructor and then frees the object itself, which   *)
(* is the resource "st".                                                   *)
(***************************************************************************)
EXTENDS Naturals, Sequences, FiniteSets, FiniteSetsExt, SequencesExt

CONSTANTS
    Prog,      \* kind of object -> its instruction sequences
    KnownLeft, \* <<kind, resource>>: left behind by the code as it is
    KnownUse,  \* <<kind, resource>>: touched by it when not held
    KnownStuck \* <<kind, thread>>: joined though it may never end

VARIABLES
    d,      \* the kind of object under consideration
    prog,   \* its instruction sequences, Prog[d]
    phase,  \* what the main thread is doing with it
    pc,     \* context -> the instruction it stands at (0: never started)
    held,   \* the resources the object holds
    flags,  \* the flags that are TRUE
    lock    \* the mutexes that are locked: by whom, and how often

vars == <<d, prog, phase, pc, held, flags, lock>>

Main == "main"

Threads == DOMAIN prog.thr

Contexts == {Main} \cup Threads

Ops == DOMAIN prog.ops

Code(c) ==
    IF c # Main THEN prog.thr[c]
    ELSE CASE phase = "alloc" -> prog.alloc
           [] phase = "fail" -> prog.fail
           [] phase \in Ops -> prog.ops[phase]
           [] phase = "destroy" -> prog.destroy
           [] OTHER -> <<>>

At(c, op) == pc[c] \in 1..Len(Code(c)) /\ Code(c)[pc[c]].op = op

Instr(c) == Code(c)[pc[c]]

Ended(c) == pc[c] = Len(Code(c)) + 1

\* A context that is called again and again, by a library or by the main loop;
\* its first and its last instruction are the caller's.
IsCallback(c) == Code(c)[1].op = "if" /\ Code(c)[1].own = {}

Idle(c) ==
    pc[c] \in {0, 1} \/ Ended(c) \/ (At(c, "back") /\ pc[c] = Len(Code(c)))

\* Nobody has a reason to call it.
Rests(c) ==
    c # Main /\ pc[c] = 1 /\ IsCallback(c) /\ Code(c)[1].f \notin flags

Telling(c) == At(c, "errh") \/ At(c, "tell")

\* A handler of the main loop runs while the main thread does nothing else
\* with the object, or from within a handler of the owner; it also returns
\* from a call of the owner's handler in which the object was released.
LoopIdle(C) == \A o \in C : pc[o] \in {0, 1} \/ Ended(o) \/ Telling(o)

MayRun(c) ==
    c \in prog.loop =>
        phase \in {"live", "gone"} /\ LoopIdle(prog.loop \ {c})

Go(c, n) == pc' = [pc EXCEPT ![c] = @ + n]

Init ==
    /\ d \in DOMAIN Prog /\ prog = Prog[d]
    /\ phase = "alloc"
    /\ pc = [c \in {Main} \cup Threads |-> IF c = Main THEN 1 ELSE 0]
    /\ held = {} /\ flags = {}
    /\ lock = <<>>

-----------------------------------------------------------------------------
(* Instructions: context c executes i. *)

\* An error: what the context does about it depends on what it is running.
\* Nothing has been made yet when the object itself cannot be allocated.
Fails(c, i) ==
    /\ i.op \in {"get", "try", "spawn", "raise"}
    /\ flags' = flags \ i.undo
    /\ IF c # Main
         THEN /\ pc' = [pc EXCEPT ![c] =
                            Len(Code(c)) + IF IsCallback(c) THEN 0 ELSE 1]
              /\ phase' = phase
         ELSE /\ pc' = [pc EXCEPT ![c] = 1]
              /\ phase' = CASE phase \in Ops -> "live"
                            [] i.lost \/ "st" \notin held -> "gone"
                            [] OTHER -> "fail"
    /\ UNCHANGED <<d, prog, held, lock>>

Gets(c, i) ==
    /\ i.op \in {"get", "take"}
    /\ held' = held \cup {i.r}
    /\ Go(c, 1) /\ UNCHANGED <<d, prog, phase, flags, lock>>

Gives(c, i) ==
    /\ i.op \in {"put", "close"}
    /\ held' = held \ {i.r}
    /\ Go(c, 1) /\ UNCHANGED <<d, prog, phase, flags, lock>>

Assigns(c, i) ==
    /\ \/ i.op = "set" /\ flags' = flags \cup i.f
       \/ i.op = "clear" /\ flags' = flags \ i.f
       \/ i.op = "switch" /\ flags' = (flags \ i.off) \cup i.f
    /\ Go(c, 1) /\ UNCHANGED <<d, prog, phase, held, lock>>

\* A thread begins; a library that is calling already goes on doing so.
Starts(c, i) ==
    /\ \/ i.op \in {"spawn", "create"} /\ flags' = flags
       \/ i.op = "launch" /\ flags' = flags \cup {i.t}
    /\ pc' = [pc EXCEPT ![c] = @ + 1, ![i.t] = IF i.t \in flags THEN @ ELSE 1]
    /\ UNCHANGED <<d, prog, phase, held, lock>>

\* A context waits for another one to end, or for a library to be outside of
\* the callback (the first instruction of its context is the library's).  A
\* join of a thread that was never created does not wait; NoIdleJoin says that
\* it does not happen.
Waits(c, i) ==
    /\ \/ i.op = "join" /\ pc[i.t] \in {0, Len(prog.thr[i.t]) + 1}
       \/ i.op = "await" /\ pc[i.t] \in {0, 1, Len(prog.thr[i.t]) + 1}
    /\ Go(c, 1) /\ UNCHANGED <<d, prog, phase, held, flags, lock>>

\* The mutexes of the objects are plain ones; the one of PipeWire's loop may
\* be taken again by its owner.
IsFree(m) == m \notin DOMAIN lock

Acquire(c, m) ==
    lock' = [x \in DOMAIN lock \cup {m} |->
                IF x # m THEN lock[x]
                ELSE [own |-> c, n |-> IF IsFree(m) THEN 1 ELSE lock[m].n + 1]]

Release(m) ==
    lock' = IF lock[m].n > 1 THEN [lock EXCEPT ![m].n = @ - 1]
            ELSE [x \in DOMAIN lock \ {m} |-> lock[x]]

Locks(c, i) ==
    /\ \/ /\ i.op = "lock"
          /\ ~IsFree(i.m) => i.m = "loop" /\ lock["loop"].own = c
          /\ Acquire(c, i.m)
       \/ /\ i.op = "lockif" /\ i.t \in flags /\ IsFree("loop")
          /\ Acquire(c, "loop")
       \/ i.op = "unlock" /\ Release(i.m)
    /\ Go(c, 1) /\ UNCHANGED <<d, prog, phase, held, flags>>

Steps(c, i) ==
    /\ \/ i.op \in {"try", "use", "call", "errh", "tell", "maybe"}
       \/ i.op = "locked" /\ IsFree(i.m)
    /\ Go(c, 1) /\ UNCHANGED <<d, prog, phase, held, flags, lock>>

Jumps(c, i) ==
    /\ \/ i.op = "maybe" /\ Go(c, i.n + 1)
       \/ /\ i.op = "if" /\ ~Rests(c)
          /\ Go(c, IF (i.f \in flags) = i.want THEN 1 ELSE i.n + 1)
       \/ /\ i.op = "null"
          /\ Go(c, IF (i.r \notin held) = i.want THEN 1 ELSE i.n + 1)
       \/ i.op = "lockif" /\ i.t \notin flags /\ Go(c, i.n)
       \/ i.op = "back" /\ pc' = [pc EXCEPT ![c] = @ - i.n]
    /\ UNCHANGED <<d, prog, phase, held, flags, lock>>

Exec(c) ==
    /\ c \in Contexts /\ pc[c] \in 1..Len(Code(c)) /\ MayRun(c)
    /\ LET i == Instr(c)
       IN \/ Fails(c, i) \/ Gets(c, i) \/ Gives(c, i) \/ Assigns(c, i)
          \/ Starts(c, i) \/ Waits(c, i) \/ Locks(c, i) \/ Steps(c, i)
          \/ Jumps(c, i)

-----------------------------------------------------------------------------
(* The main thread *)

\* It reaches the end of what it is running.
Returns ==
    /\ Ended(Main) /\ phase \in {"alloc", "fail", "destroy"} \cup Ops
    /\ phase' = CASE phase \in {"alloc"} \cup Ops -> "live"
                  [] phase = "fail" -> "destroy"
                  [] phase = "destroy" -> "gone"
    /\ held' = IF phase = "destroy" THEN held \ {"st"} ELSE held
    /\ pc' = [pc EXCEPT ![Main] = 1]
    /\ UNCHANGED <<d, prog, flags, lock>>

\* An operation of the object is called.
Operate ==
    /\ phase = "live" /\ LoopIdle(prog.loop)
    /\ phase' \in Ops
    /\ UNCHANGED <<d, prog, pc, held, flags, lock>>

\* mem_deref of the object.
Deref ==
    /\ phase = "live" /\ LoopIdle(prog.loop)
    /\ phase' = "destroy"
    /\ UNCHANGED <<d, prog, pc, held, flags, lock>>

\* The main thread waits for a thread of which it is known not to end always.
Stuck == At(Main, "join") /\ <<d, Instr(Main).t>> \in KnownStuck

\* Nothing is left to do.
Over ==
    /\ \/ phase = "gone" /\ \A t \in Threads : pc[t] = 0 \/ Ended(t) \/ Rests(t)
       \/ Stuck
    /\ UNCHANGED vars

Next == (\E c \in Contexts : Exec(c)) \/ Returns \/ Operate \/ Deref \/ Over

Spec == Init /\ [][Next]_vars

\* The contexts that wait for a mutex while others go on.
Contending(x) ==
    {t \in DOMAIN Prog[x].thr \ Prog[x].loop :
        \E i \in DOMAIN Prog[x].thr[t] :
            Prog[x].thr[t][i].op \in {"lock", "locked", "lockif"}}

\* They, and the other ones, of every kind of object in some order.
Contenders == [x \in DOMAIN Prog |-> SetToSeq(Contending(x))]

Others ==
    [x \in DOMAIN Prog |-> SetToSeq(DOMAIN Prog[x].thr \ Contending(x))]

Longest(ranked) == Max({Len(ranked[x]) : x \in DOMAIN Prog})

Nth(ranked, n) == n <= Len(ranked[d]) /\ Exec(ranked[d][n])

\* The scheduler gives every thread its turn, a library goes on calling and
\* returning from its callbacks, device calls return, and a mutex that is
\* released again and again is obtained in the end (hence strong fairness).
Fairness ==
    /\ SF_vars(Exec(Main)) /\ WF_vars(Returns)
    /\ \A n \in 1..Longest(Contenders) : SF_vars(Nth(Contenders, n))
    /\ \A n \in 1..Longest(Others) : WF_vars(Nth(Others, n))

FairSpec == Spec /\ Fairness
-----------------------------------------------------------------------------
(* Properties *)

\* Contexts stand in their code, and unlock only what they have locked.
TypeOK ==
    /\ phase \in {"alloc", "fail", "live", "destroy", "gone"} \cup Ops
    /\ pc \in [Contexts -> Nat]
    /\ \A c \in Contexts : pc[c] <= Len(Code(c)) + 1
    /\ \A m \in DOMAIN lock : lock[m].own \in Contexts /\ lock[m].n > 0
    /\ \A c \in Contexts : At(c, "unlock") =>
           ~IsFree(Instr(c).m) /\ lock[Instr(c).m].own = c

\* What an instruction touches of the object.
Touches(i) ==
    CASE i.op = "use" -> i.r \cup {"st"}
      [] i.op = "close" -> {i.r, "st"}
      [] i.op \in {"lock", "unlock", "locked", "if"} -> i.own
      [] i.op \in {"call", "set", "clear", "switch", "null"} -> {"st"}
      [] OTHER -> {}

\* No thread, callback, timer handler or function of a object stands before
\* an access to a resource its object does not hold: neither one already
\* released (a destructor that does not wait for the thread, or gives back
\* before it has waited) nor one not there yet (a thread started too early).
NoStaleUse ==
    \A c \in Contexts :
        pc[c] \in 1..Len(Code(c)) =>
            \A r \in Touches(Instr(c)) :
                r \in held \/ <<d, r>> \in KnownUse

\* A destructor joins only a thread that was created: `run', or whatever flag
\* tells it that there is one, is never TRUE when creating it has failed.
NoIdleJoin ==
    \A c \in Contexts :
        At(c, "join") =>
            pc[Instr(c).t] # 0 \/ <<d, Instr(c).t>> \in KnownUse

\* Whatever failed on the way, when the object is gone every resource it ever
\* obtained has been given back, its mutexes are free, and no thread or callback
\* of it is running.
AllReleased ==
    phase = "gone" =>
        /\ \A r \in held : <<d, r>> \in KnownLeft
        /\ DOMAIN lock # {} => <<d, "lock">> \in KnownLeft
        /\ \A t \in Threads \ prog.loop :
               Idle(t) \/ <<d, t>> \in KnownLeft

\* No resource is obtained while the object still holds the one it obtained
\* before: the old one would be lost.
NothingOverwritten ==
    \A c \in Contexts : At(c, "get") \/ At(c, "take") =>
        Instr(c).r \notin held \/ <<d, Instr(c).r>> \in KnownLeft

\* What a context touches or joins is there, whatever failed on the way.
NothingMissing == TypeOK /\ NoStaleUse /\ NoIdleJoin

\* What was obtained is given back, and not lost to another before.
NothingLeft == AllReleased /\ NothingOverwritten

\* A destructor that was entered returns: it never waits for a thread that
\* does not end, or that waits for the destructor.
DestroyEnds == (phase = "destroy") ~> (phase = "gone" \/ Stuck)
=============================================================================
