\* A buffer of two characters and inputs of four: every loop meets the end of the
\* buffer, of the input and of its own storage.  A loop that runs past the
\* buffer after a failed read is followed for one character only.
CONSTANTS
  BUF_SIZE = 2
  NumBuf = 2
  Plain = "a"
  MaxOver = 1
  MaxInput = 4
  Sizes = {1, 2, 3}
  Inputs <- MCInputs
SPECIFICATION Spec
CHECK_DEADLOCK FALSE
INVARIANTS ChunksDoNotMatter
PROPERTIES CallsEnd
