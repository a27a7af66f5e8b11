\* One user agent, two calls, a redial, transfers, automatic answers, deletion.
SPECIFICATION Spec
CONSTANTS
  NUa = 1
  NCalls = 2
  LineMax = 3
  MaxCalls = 2
  HoldOtherCalls = TRUE
  AnswerModeAuto = TRUE
  Asks = {"long"}
  RedialAttempts = 1
  Xfer = TRUE
  Faults = FALSE
  Delete = TRUE
INVARIANTS
  NoStaleCall
  RedialBounded
