\* A vector of two bytes, two bytes of extra space, at most five readable.
SPECIFICATION Spec
CONSTANTS
  kInitialSize = 2
  ExtraSize = 2
  Strings <- MCStrings
  Numbers <- MCNumbers
  Widths = {1, 2}
  MaxReadable = 5
INVARIANTS AssertsHold MemoryBounded
PROPERTY ImplementsByteQueue
