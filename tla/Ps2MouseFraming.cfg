SPECIFICATION Spec
CONSTANTS
  Retries = 2
  MaxMoves = 2
INVARIANT PacketsAligned
CHECK_DEADLOCK FALSE
