\* Maps of up to three lines, started twice, killed anywhere, power-cycled or not.
CONSTANTS
  LineSets <- AllSets
  Library <- MCLibrary
  MaxLines <- ThreeThenTwo
SPECIFICATION Spec
INVARIANTS TypeOK AliasesOfMap RemapsOfMap EnabledIsServed
CHECK_DEADLOCK FALSE
