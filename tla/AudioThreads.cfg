\* Two works and one packet between the threads; threads and sockets may fail.
SPECIFICATION SpecThreads
CONSTANTS
  NFade = 2
  Streams <- MCStreams
  JbufMax = 1
  MaxWorks = 1
  Faults = TRUE
INVARIANTS
  FreshSource
  Callbacks
  DecoderFollows
PROPERTIES
  EosEndsDamping
  ReceiverServes
\* A receiver that is freed takes no further step.
CHECK_DEADLOCK FALSE
