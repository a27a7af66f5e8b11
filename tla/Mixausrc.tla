------------------------------ MODULE Mixausrc ------------------------------
(***************************************************************************)
(* The filter that mixes a second audio source into a stream               *)
(* (modules/mixausrc/mixausrc.c).  Three threads work on its state: the    *)
(* one that passes the frames of the stream, the one of the second source, *)
(* and the main thread with the commands, the source's error handler (end  *)
(* of file) and the destructor.                                            *)
(*                                                                         *)
(* A step ends where the code gives the others a chance that matters: at a *)
(* mutex, at the join of the source's thread, and between the copying of   *)
(* the mode and its use.  What mtx_mode protects is one step.  The samples *)
(* are left out; a fade takes NFade frames.                                *)
(***************************************************************************)
EXTENDS Naturals

CONSTANT NFade   \* n_fade, in frames

ASSUME NFadeAssumption == NFade \in Nat

VARIABLES
    mode,     \* idle, fadeout, mix or fadein
    next,     \* nextmode: also none; FM_IDLE before the first frame
    ifade,    \* i_fade
    named,    \* module and param are set
    source,   \* st->ausrc: none, or what was opened
    mixbuf,   \* the mixer buffer is allocated
    lock,     \* the owner of mtx_ausrc
    frames,   \* where the thread with the frames is
    reader,   \* where the source's thread is
    main      \* what the main thread is doing

mixvars == <<mode, next, ifade, named, source, mixbuf, lock, frames, reader, main>>

stream == <<next, ifade>>

mixstatus_init ==
    /\ mode = "idle" /\ next = "idle" /\ ifade = 0
    /\ named = FALSE /\ source = "none" /\ mixbuf = FALSE
    /\ lock = "none" /\ frames = "out" /\ reader = "out"
    /\ main = [at |-> "out", why |-> "none"]

-----------------------------------------------------------------------------
(* The thread with the frames *)

\* process(), up to the copying of the mode.
process ==
    /\ frames = "out" /\ main.why # "end"
    /\ LET m == IF next = "none" \/ (mode = "mix" /\ next = "fadeout")
                  THEN mode ELSE next
       IN mode' = m /\ frames' = IF m = "idle" THEN "out" ELSE m
    /\ next' = "none"
    /\ UNCHANGED <<ifade, named, source, mixbuf, lock, reader, main>>

fadeframe(m, to) ==
    /\ frames = m /\ frames' = "out"
    /\ \/ ifade + 1 < NFade /\ ifade' = ifade + 1 /\ mode' = mode
       \/ ifade' = 0 /\ mode' = to
    /\ UNCHANGED <<next, named, source, mixbuf, lock, reader, main>>

fadeout == fadeframe("fadeout", "mix")

fadein == fadeframe("fadein", "idle")

\* FM_MIX: the source is there, or is to be started under mtx_ausrc.
mix ==
    /\ frames = "mix"
    /\ IF source = "none"
         THEN lock = "none" /\ lock' = "frames" /\ frames' = "start"
         ELSE lock' = lock /\ frames' = "mixing"
    /\ UNCHANGED <<mode, named, source, mixbuf, reader, main, stream>>

\* Without a name ausrc_alloc opens the first source there is.
start_ausrc ==
    /\ frames = "start" /\ frames' = "out" /\ lock' = "none"
    /\ \/ /\ source' = (IF named THEN "asked" ELSE "default")
          /\ named' = FALSE /\ mode' = mode
       \/ /\ source' = source /\ named' = named /\ mode' = "fadein"
    /\ UNCHANGED <<mixbuf, reader, main, stream>>

init_mixbuf ==
    /\ frames = "mixing" /\ frames' = "mixed"
    /\ mixbuf' = TRUE
    /\ UNCHANGED <<mode, named, source, lock, reader, main, stream>>

mixframe ==
    /\ frames = "mixed" /\ frames' = "out"
    /\ UNCHANGED <<mode, named, source, mixbuf, lock, reader, main, stream>>

-----------------------------------------------------------------------------
(* The source's thread *)

calls ==
    /\ source # "none" /\ reader = "out" /\ main.at # "join"
    /\ reader' = "called"
    /\ UNCHANGED <<mode, named, source, mixbuf, lock, frames, main, stream>>

read_lock ==
    /\ reader = "called" /\ lock = "none"
    /\ reader' = "in" /\ lock' = "reader"
    /\ UNCHANGED <<mode, named, source, mixbuf, frames, main, stream>>

\* The frame is resampled and put into the buffer, or an error ends the mixing.
ausrc_read_handler ==
    /\ reader = "in" /\ reader' = "out" /\ lock' = "none"
    /\ mode' \in {mode, "fadein"}
    /\ UNCHANGED <<named, source, mixbuf, frames, main, stream>>

-----------------------------------------------------------------------------
(* The main thread *)

\* start_process, as far as stop_ausrc; refused unless everything is quiet.
\* Out of memory leaves the source as it is.
start_process_NoStop ==
    /\ main.at = "out" /\ mode = "idle" /\ next = "none"
    /\ named' = TRUE /\ ifade' = 0
    /\ main' = [at |-> "free", why |-> "start"]
    /\ UNCHANGED <<mode, next, source, mixbuf, lock, frames, reader>>

start_process ==
    /\ main.at = "out" /\ mode = "idle" /\ next = "none"
    /\ \/ /\ named' = TRUE /\ ifade' = 0
          /\ main' = [at |-> "join", why |-> "start"]
       \/ /\ named' = FALSE
          /\ UNCHANGED <<ifade, main>>
    /\ UNCHANGED <<mode, next, source, mixbuf, lock, frames, reader>>

enc_mix_stop ==
    /\ main.at = "out"
    /\ mode' = "fadein"
    /\ UNCHANGED <<named, source, mixbuf, lock, frames, reader, main, stream>>

\* The source has come to its end, or has failed.
ausrc_error_handler_NoSwitch ==
    /\ main.at = "out" /\ source # "none"
    /\ main' = [at |-> "join", why |-> "error"]
    /\ UNCHANGED <<mode, named, source, mixbuf, lock, frames, reader,
                   stream>>

ausrc_error_handler ==
    /\ main.at = "out" /\ source # "none"
    /\ mode' = "fadein"
    /\ main' = [at |-> "join", why |-> "error"]
    /\ UNCHANGED <<named, source, mixbuf, lock, frames, reader, stream>>

\* The owner has stopped passing frames.
enc_destructor ==
    /\ main.at = "out" /\ frames = "out"
    /\ main' = [at |-> "join", why |-> "end"]
    /\ UNCHANGED <<mode, named, source, mixbuf, lock, frames, reader,
                   stream>>

\* stop_ausrc: the source is released and its thread joined, then, under
\* mtx_ausrc, the buffers are.
join ==
    /\ main.at = "join" /\ reader = "out"
    /\ source' = "none"
    /\ main' = [main EXCEPT !.at = "free"]
    /\ UNCHANGED <<mode, named, mixbuf, lock, frames, reader, stream>>

free ==
    /\ main.at = "free" /\ lock = "none"
    /\ mixbuf' = FALSE
    /\ next' = IF main.why = "start" THEN "fadeout" ELSE next
    /\ main' = IF main.why = "end" THEN [main EXCEPT !.at = "gone"]
                ELSE [at |-> "out", why |-> "none"]
    /\ UNCHANGED <<mode, ifade, named, source, lock, frames, reader>>

Over == main.at = "gone" /\ UNCHANGED mixvars

Frames == process \/ fadeout \/ fadein \/ mix \/ start_ausrc \/ init_mixbuf
              \/ mixframe

Source == read_lock \/ ausrc_read_handler

MixNext ==
    \/ Frames \/ calls \/ Source \/ join \/ free
    \/ start_process \/ enc_mix_stop \/ ausrc_error_handler \/ enc_destructor
    \/ Over

MixSpec == mixstatus_init /\ [][MixNext]_mixvars

\* Frames keep coming (the stream has a source of its own), a handler that was
\* called returns, the main thread goes on; mtx_ausrc, released again and
\* again, is obtained in the end.
MixFairSpec ==
    MixSpec /\ SF_mixvars(Frames) /\ WF_mixvars(Source) /\ WF_mixvars(join) /\ SF_mixvars(free)
-----------------------------------------------------------------------------
(* Properties *)

\* The fields have the values of the enums they stand for, and a fade that is
\* over leaves its counter at 0.
MixTypeOK ==
    /\ mode \in {"idle", "fadeout", "mix", "fadein"}
    /\ next \in {"idle", "fadeout", "none"}
    /\ ifade \in Nat /\ (ifade = 0 \/ ifade < NFade)
    /\ source \in {"none", "asked", "default"}
    /\ lock \in {"none", "frames", "reader"}
    /\ frames \in {"out", "fadeout", "fadein", "mix", "start", "mixing", "mixed"}
    /\ reader \in {"out", "called", "in"}

\* "The audio source is played (from beginning)" (cmdv): when a start begins to
\* fade the stream out, no source of an earlier start, or of an error that
\* raced with a frame, is left open, and the fade starts at its beginning.
FreshSource == MixTypeOK /\ (mode = "fadeout" => source = "none")

\* The destructor returns: it does not hold the mutex for which the source's
\* read handler may be waiting while it waits for the source's thread.
DestroyEnds == (main.why = "end") ~> (main.at = "gone")

\* "When the alternative source gets an EOS (e.g. audio file) then the damping
\* of the stream is turned off" (mixausrc.c:21): after the error handler the
\* stream gets back to its full volume, whatever the other threads were doing,
\* and the destructor, which waits for them, returns.
EosEndsDamping ==
    /\ (main.why = "error") ~> (mode = "idle" \/ main.why = "end")
    /\ DestroyEnds
=============================================================================
