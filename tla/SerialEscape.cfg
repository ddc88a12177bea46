\* Two key presses, one of them a special key.
CONSTANTS
  BUFFER_SIZE = 3
  Printable = {"a", "b", "s"}
  Special = {"s"}
  Keys <- MCKeys
  Counts = {0, 1, 3}
  MaxKeys = 2
SPECIFICATION Spec
INVARIANT SpecialKeysIgnored
