\* Two plugins use lines of the same register.
CONSTANTS
  Threads = {t1, t2}
  Words = 2
  Width = 2
SPECIFICATION Spec
INVARIANT LevelStays
CHECK_DEADLOCK FALSE
