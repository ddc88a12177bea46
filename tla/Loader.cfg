\* Sectors of three words, so that headers straddle them; the machine stops when
\* load_elf is done.
CONSTANTS
  Names = {"loaduser", "sh"}
  NoName = ""
  Byte = {0, 1, 2, 3, 4, 5}
  SECTSIZE = 3
  MAX_FILE = 2
  FileData <- MCFileData
  DevNames <- MCDevNames
  MAX_DEV = 2
  MaxLen = 0
  NULL = NULL
  MAGIC = 3
  PT_LOAD = 1
  Stack = {1, 3}
SPECIFICATION LoaderSpec
CHECK_DEADLOCK FALSE
INVARIANTS OnlyElfFiles SeesItsSegments
