CONSTANTS
    Prog <- MCProg
    KnownLeft <- MCKnownLeft
    KnownUse <- MCKnownUse
    KnownStuck <- MCKnownStuck
SPECIFICATION FairSpec
INVARIANTS
  
  NothingLeft

  
