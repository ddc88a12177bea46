\* Nine units of heap and four at a time: the heap grows twice, also with a
\* region of the program's own in between, and then brk() refuses.
CONSTANTS
  MaxAddr = 11
  NALLOC = 4
  MaxUnits = 5
  NIL = NIL
SPECIFICATION Spec
\* the program ends when the assertion of sbrk fails
CHECK_DEADLOCK FALSE
INVARIANTS ListOK Partition
PROPERTIES NullMeansNoFit CallsReturn
