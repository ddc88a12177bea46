\* Three producers and two consumers around a buffer of two: both sides wait,
\* for the buffer and for mutex, several at a time.  forkfork wants five slots at
\* once: with three or four, each of its forks fails in some order.
CONSTANTS
  BUF_SIZE = 2
  PRODUCER_NUM = 3
  COMSUMER_NUM = 2
  READERS = 4
  HALF = 1
  Cells <- MCCells
  Start <- MCStart
  Dest <- MCDest
  WAIT_SLOTS = 7
  WAIT_N = 9
  ROUNDS = 3
  FORK_SLOTS = {3, 4, 5}
  FORK_N = 2
  LOOPS = 3
  Progs = {"producer", "rmtest", "readtest", "dfstest", "waittest", "forkfork"}
SPECIFICATION TestsSpec
INVARIANTS
  Producer_Buffer Rm_OldFileLives Read_NobodyAborts Dfs_ShowsEveryWay
  Forks_Accounted
PROPERTIES Producer_NobodyStarves TestsEnd
\* The tests end; when a fork of producer.c fails, its producers fill the buffer
\* and wait.
CHECK_DEADLOCK FALSE
