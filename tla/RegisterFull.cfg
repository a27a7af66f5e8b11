SPECIFICATION FairSpec
CONSTANTS Accounts <- MCAccounts
 Later <- MCLater
 Families <- MCFam
 Changes = 1
 Interval = TRUE
 Netlink = FALSE
 Fuel = 20
 MaxUa = 3
INVARIANTS
  LoopEnds
  MovesOn
  RoamRetries
PROPERTIES
  Recovers
CHECK_DEADLOCK FALSE
