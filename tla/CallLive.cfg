\* Reliable provisional responses and media-NAT; no library function fails.
SPECIFICATION MCSpec
CONSTANTS
  LocalTimeout = TRUE
  Mnat = TRUE
  Rel100 = TRUE
  Early = TRUE
  Refer = TRUE
  RtpTimeout = TRUE
  Faults = FALSE
  DenyAutoAnswer = FALSE
  RequireRel100 = FALSE
INVARIANTS
  AnnouncedFirst
  
PROPERTIES
  QueuedAnswerSent
\* A call that is freed takes no further step.
CHECK_DEADLOCK FALSE
