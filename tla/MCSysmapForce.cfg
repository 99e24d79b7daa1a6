\* A map with one alias on a device that the command has used before.
CONSTANTS
  LineSets <- AliasSets
  Library <- MCLibrary
  MaxLines <- Ones
SPECIFICATION Spec
INVARIANT MapInForce
CHECK_DEADLOCK FALSE
