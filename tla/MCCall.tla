------------------------------- MODULE MCCall -------------------------------
(***************************************************************************)
(* The call with two history variables: they mark the two orders of        *)
(* messages in which call.c breaks a rule it keeps in every other one.     *)
(***************************************************************************)
EXTENDS Call

VARIABLES
  muted,    \* a 1xx without SDP stopped the media an earlier one had brought
  unheard   \* answered before media-NAT was ready: not announced yet

MCInit == Init /\ muted = FALSE /\ unheard = FALSE

\* sipsess_progr_handler() stops the streams, and the session has no second
\* answer to start them with; call_answer() does not ask whether the call was
\* announced, and mnat_handler() announces no call that was answered.
MCNext ==
  /\ Next
  /\ muted' = (\/ muted /\ ~call'.media
               \/ /\ call.sess = "inviting" /\ call.negotiated
                  /\ call.media /\ ~call'.media)
  /\ unheard' = (unheard \/ (~call.answered /\ call'.answered /\ call.mnat_wait))

MCSpec == MCInit /\ [][MCNext]_<<call, muted, unheard>> /\ Fairness

-----------------------------------------------------------------------------
\* Every order of provisional and final responses, of offers and answers and of
\* the media-NAT report leaves an established call with its streams started:
\* each ends in update_streams() or update_media().  The one exception is a 1xx
\* without SDP after a reliable one that brought the answer.
MediaWhenEstablished ==
  Alive /\ call.estab > 0 => call.media \/ muted

\* The application hears of a call before it hears that it is established, unless
\* it answered a call that media-NAT had not let it hear of yet.
AnnouncedFirst ==
  call.estab > 0 => call.announced = 1 \/ unheard
=============================================================================
