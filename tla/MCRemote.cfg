\* All targets; accesses may be given up at any point.
CONSTANTS
  MaxDiv = 2
  Divs = {0, 3}
  Polls = 2
  Timeout = 1
  NumAP = 4
  Targets <- MCTargets
SPECIFICATION FairSpec
INVARIANTS TypeOK BridgeOnlyWhenUp DrivesChosenAP Configured
PROPERTIES OpenReturns
CHECK_DEADLOCK FALSE
