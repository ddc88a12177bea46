\* Two queues over a pool of three cells: the pool runs empty, and cells move
\* between both queues and the pool in every order.
CONSTANTS
  LIST_NUM = 3
  Lists = {l1, l2}
  FreeList = fl
  Vals = {a, b}
  NULL = null
  MaxClock = 9
SPECIFICATION Spec
INVARIANTS TypeOK RingsOK RingsComplete
PROPERTY ImplementsKQueue
\* the kernel stops when an assertion fails
CHECK_DEADLOCK FALSE
