SPECIFICATION FairSpec
CONSTANTS
  Retries = 2
  MaxMoves = 2
INVARIANTS
  SuccessMeansReporting
  ConfigKept
  QuietStartKeepsPackets
PROPERTY
  PortDrains
CHECK_DEADLOCK FALSE
