\* A buffer of three slots and five key presses, so that a line can wrap, fill
\* the buffer and run over it.
CONSTANTS
  BUFFER_SIZE = 3
  Printable = {"a", "b", "s"}
  Special = {"s"}
  Keys <- MCKeys
  Counts = {0, 1, 3}
  MaxKeys = 5
SPECIFICATION Spec
INVARIANTS ScreenIsInput
PROPERTIES ReadsWhatWasTyped ReadReturns
