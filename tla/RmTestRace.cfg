\* What line 27 of rmtest.c asserts, with the program's four readers.
CONSTANTS
  READERS = 4
  HALF = 1
SPECIFICATION Spec
INVARIANT NobodyAborts
CHECK_DEADLOCK FALSE
