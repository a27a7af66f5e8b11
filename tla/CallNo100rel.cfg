\* The peer does not support the 100rel that is required.
SPECIFICATION Spec
CONSTANTS
  LocalTimeout = TRUE
  Mnat = FALSE
  Rel100 = FALSE
  Early = FALSE
  Refer = FALSE
  RtpTimeout = FALSE
  Faults = FALSE
  DenyAutoAnswer = FALSE
  RequireRel100 = TRUE
INVARIANTS
  RefusedNotOffered
\* A call that is freed takes no further step.
CHECK_DEADLOCK FALSE
