SPECIFICATION MemSpec
CONSTANTS
  W = 2
  MemSize = 22
  MaxLen = 11
  Fns <- MCCopies
  Memories <- MCDistinct
INVARIANTS
  CopyCorrect
  StaysInside
  CompareSound
PROPERTY
  Returns
CHECK_DEADLOCK FALSE
