\* Every option on, every library function may fail.
SPECIFICATION Spec
CONSTANTS
  LocalTimeout = TRUE
  Mnat = TRUE
  Rel100 = TRUE
  Early = TRUE
  Refer = TRUE
  RtpTimeout = TRUE
  Faults = TRUE
  DenyAutoAnswer = TRUE
  RequireRel100 = TRUE
INVARIANTS
  LocalTimeoutBeforeEstab
  NoAnswerBeforePrack
  EstablishedHasSession

  
\* A call that is freed takes no further step.
CHECK_DEADLOCK FALSE
