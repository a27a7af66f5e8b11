SPECIFICATION FairSpec
CONSTANTS
    MaxKey = 2
    MaxExchanges = 3
INVARIANTS
  
  KeysAgree
  

  
CHECK_DEADLOCK FALSE
