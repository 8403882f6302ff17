SPECIFICATION FairSpec
CONSTANTS
  Chunk = 2
  Window = 4
INVARIANTS
  OutputComplete
  
PROPERTIES
  Ends
CHECK_DEADLOCK FALSE
