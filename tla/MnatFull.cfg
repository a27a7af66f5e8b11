CONSTANTS
  NMedia = 2
  MaxMoved = 2
SPECIFICATION FairSpec
INVARIANTS
  EstabHandler
  
  
PROPERTIES
  Reports
