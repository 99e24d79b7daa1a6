\* A debug port whose only AP is not a MEM-AP.
CONSTANTS
  MaxDiv = 2
  Divs = {0}
  Polls = 2
  Timeout = 1
  NumAP = 4
  Targets <- NoMemAP
SPECIFICATION Spec
INVARIANTS SuccessChecked
CHECK_DEADLOCK FALSE
