\* All accesses of all widths, to two regions that overlap and to gaps.
CONSTANTS
  Space = 16
  Plugins <- MCPlugins
  Bytes = {0, 1}
  Contents <- MCContents
SPECIFICATION Spec
INVARIANTS TypeOK
PROPERTIES ImplementsByteMem
