\* A binary loaded into a region whose plugin makes master accesses.
CONSTANTS
  Setups <- LoadThroughNested
  MaxRequest = 2
SPECIFICATION FairSpec
PROPERTY AccessCompletes
CHECK_DEADLOCK FALSE
