------------------------------ MODULE CallLife ------------------------------
(***************************************************************************)
(* What the call layer (src/call.c, src/ua.c) promises the application     *)
(* about one call: it is told of the call, perhaps that it is established, *)
(* and exactly once that it is closed, at which moment the object is gone. *)
(* A call that could not be set up at all is dropped without CLOSED: the   *)
(* error is the result of the function that was to create it.              *)
(***************************************************************************)
VARIABLES phase,   \* none, setup, up (ESTABLISHED was emitted), gone
          over     \* CLOSED was emitted

Init == phase = "none" /\ over = FALSE

Open == phase = "none" /\ phase' = "setup" /\ over' = FALSE

Establish == phase = "setup" /\ phase' = "up" /\ over' = FALSE

Close == /\ phase \in {"none", "setup", "up"}
         /\ phase' = "gone" /\ over' = TRUE

Drop == phase = "none" /\ phase' = "gone" /\ over' = FALSE

Next == Open \/ Establish \/ Close \/ Drop

Spec == Init /\ [][Next]_<<phase, over>>
=============================================================================
