CONSTANTS
    UA = {u1, u2}
    MwiUa = {u1, u2}
    PubUa = {u1}
    WatchedUa = {u1, u2}
    OutboundUa = {u2}
SPECIFICATION FairSpec
INVARIANTS
  RefsExact
  
PROPERTIES
  QuitEnds
CHECK_DEADLOCK FALSE
