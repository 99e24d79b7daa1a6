\* Pipelined accesses of two callers, at two speeds, with a bus error.
CONSTANTS
  High = 6
  Low = 5
  Transfers <- MCTransfers
  Nested <- MCNested
  MaxCalls = 2
  MaxErrors = 1
SPECIFICATION FairSpec
INVARIANTS TypeOK ResponsesInOrder AutoIncrement OutstandingBounded
  NoSilentError
PROPERTY TransferCompletes
CHECK_DEADLOCK FALSE
