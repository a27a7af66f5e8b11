--------------------------- MODULE MixausrcProofs ---------------------------
(***************************************************************************)
(* Proof that the mixing filter always plays a source from its beginning,  *)
(* for fades of every length.                                              *)
(***************************************************************************)
EXTENDS Mixausrc, TLAPS

\* What the threads know of each other: a stream at full volume has no frame
\* under way, and from the command of a start to the first frame of its fade the
\* thread with the frames can do nothing but finish an earlier fade.
Quiet == mode \in {"idle", "fadein"} /\ frames \in {"out", "fadein"}

IInv ==
    /\ MixTypeOK
    /\ main \in [at : {"out", "join", "free", "gone"},
                 why : {"none", "start", "error", "end"}]
    /\ mode = "idle" => frames = "out"
    /\ main.why = "start" => Quiet /\ next = "none"
    /\ main.why = "start" /\ main.at = "free" => source = "none"
    /\ next = "fadeout" => Quiet /\ source = "none"
    /\ mode = "fadeout" => frames \in {"out", "fadeout"} /\ source = "none"
    /\ frames = "fadeout" => mode \in {"fadeout", "fadein"} /\ source = "none"

\* The filter starts with the invariant (encode_update()).
LEMMA InitInv == mixstatus_init => IInv
  BY NFadeAssumption DEF mixstatus_init, IInv, MixTypeOK, Quiet

\* A fade keeps the invariant: FM_FADEOUT ends in FM_MIX, FM_FADEIN in FM_IDLE.
LEMMA FadeInv ==
  ASSUME IInv, fadeout \/ fadein
  PROVE  IInv'
  BY NFadeAssumption DEF IInv, MixTypeOK, Quiet, fadeout, fadein, fadeframe

\* The other steps of the thread with the frames keep it: a source is opened
\* in FM_MIX only, and no start is under way then.
LEMMA FramesInv ==
  ASSUME IInv, process \/ mix \/ start_ausrc \/ init_mixbuf \/ mixframe
  PROVE  IInv'
<1>1. CASE process
  BY <1>1 DEF IInv, MixTypeOK, Quiet, process
<1>2. CASE mix
  BY <1>2 DEF IInv, MixTypeOK, Quiet, mix, stream
<1>3. CASE start_ausrc
  BY <1>3 DEF IInv, MixTypeOK, Quiet, start_ausrc, stream
<1>4. CASE init_mixbuf \/ mixframe
  BY <1>4 DEF IInv, MixTypeOK, Quiet, init_mixbuf, mixframe, stream
<1>5. QED
  BY <1>1, <1>2, <1>3, <1>4

\* The source's thread keeps it: the most it does is to end the mixing.
LEMMA SourceInv ==
  ASSUME IInv, calls \/ read_lock \/ ausrc_read_handler
  PROVE  IInv'
<1>1. CASE calls \/ read_lock
  BY <1>1 DEF IInv, MixTypeOK, Quiet, calls, read_lock, stream
<1>2. CASE ausrc_read_handler
  BY <1>2 DEF IInv, MixTypeOK, Quiet, ausrc_read_handler, stream
<1>3. QED
  BY <1>1, <1>2

\* The main thread keeps it: a start waits for the source's thread before it
\* lets the fade begin (stop_ausrc()).
LEMMA MainInv ==
  ASSUME IInv,
         start_process \/ enc_mix_stop \/ ausrc_error_handler
           \/ enc_destructor \/ join \/ free
  PROVE  IInv'
<1>1. CASE start_process
  BY <1>1 DEF IInv, MixTypeOK, Quiet, start_process
<1>2. CASE enc_mix_stop
  BY <1>2 DEF IInv, MixTypeOK, Quiet, enc_mix_stop, stream
<1>3. CASE ausrc_error_handler \/ enc_destructor
  BY <1>3 DEF IInv, MixTypeOK, Quiet, ausrc_error_handler, enc_destructor, stream
<1>4. CASE join
  BY <1>4 DEF IInv, MixTypeOK, Quiet, join, stream
<1>5. CASE free
  BY <1>5 DEF IInv, MixTypeOK, Quiet, free
<1>6. QED
  BY <1>1, <1>2, <1>3, <1>4, <1>5

\* A source is always played from its beginning: whatever the three threads do,
\* no source is open when a start begins to fade the stream out.
THEOREM AlwaysFresh == MixSpec => []FreshSource
<1>1. IInv /\ [MixNext]_mixvars => IInv'
  <2>1. SUFFICES ASSUME IInv, [MixNext]_mixvars PROVE IInv'
    OBVIOUS
  <2>2. CASE UNCHANGED mixvars
    BY <2>1, <2>2 DEF IInv, MixTypeOK, Quiet, mixvars
  <2>3. CASE Frames
    BY <2>1, <2>3, FadeInv, FramesInv DEF Frames
  <2>4. CASE calls \/ Source
    BY <2>1, <2>4, SourceInv DEF Source
  <2>5. CASE start_process \/ enc_mix_stop \/ ausrc_error_handler
               \/ enc_destructor \/ join \/ free
    BY <2>1, <2>5, MainInv
  <2>6. QED
    BY <2>1, <2>2, <2>3, <2>4, <2>5 DEF MixNext, Over
<1>2. IInv => FreshSource
  BY DEF IInv, FreshSource
<1>3. QED
  BY InitInv, <1>1, <1>2, PTL DEF MixSpec
=============================================================================
