\* Three blocks over two slots, so that blocks 0 and 2 evict each other; ranges
\* inside a sector, across the sector border, a whole block, and one too long.
CONSTANTS
  BCACHE_NUM = 2
  BLK_NUM = 3
  SECTORS = 2
  SECTSIZE = 2
  UINT = 8
  Ranges <- MCRanges
  Data = {0, 1}
  Zero = 0
  None = none
SPECIFICATION Spec
INVARIANTS TypeOK Coherent
PROPERTIES DiskWrites ImplementsBlockStore
\* the kernel stops when an assertion fails
CHECK_DEADLOCK FALSE
