\* The threads of the command, with every plugin and load address that works.
CONSTANTS
  Setups <- OtherSetups
  MaxRequest = 4
SPECIFICATION FairSpec
INVARIANTS TypeOK RequestConserved HandlerServesPending ResponseToOwner
  FirstInterruptGraceful CrashOnlyInCleanup
PROPERTIES CpuRequestAnswered AccessCompletes ShutdownCompletes JoinReturns
  LossEnds
CHECK_DEADLOCK FALSE
