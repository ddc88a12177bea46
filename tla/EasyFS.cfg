\* Sectors of two bytes and files of up to five: reads that start inside a
\* sector and cross two boundaries, files that end on one, and an image whose
\* inode sector is full.  The machine may stop (a full image, a panic).
CONSTANTS
  Names = {"loaduser", "sh"}
  NoName = ""
  Byte = {0, 1, 2, 3}
  SECTSIZE = 2
  MAX_FILE = 3
  FileData <- MCFileData
  DevNames <- MCDevNames
  MAX_DEV = 2
  MaxLen = 4
  MaxData = 5
  NULL = NULL
SPECIFICATION FSSpec
CHECK_DEADLOCK FALSE
INVARIANTS Packed ReadsFile LookupFinds
