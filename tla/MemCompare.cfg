SPECIFICATION MemSpec
CONSTANTS
  W = 2
  MemSize = 8
  MaxLen = 4
  Fns <- MCCompare
  Memories <- MCBinary
INVARIANT CompareCorrect
CHECK_DEADLOCK FALSE
