SPECIFICATION HeapSpec
CONSTANTS
  PageSize = 2
  PhysFrames = 32
  MemoryMaps <- MCMemoryMaps
  ReservedEnds <- MCReservedEnds
  HeapSize = 6
  NewTables <- MCNewTables
  InUse <- MCInUse
INVARIANTS
  Accounting
  OwnedFramesSafe
  NoneOnlyWhenExhausted
  BitmapPlaced
  OneOwner
  HeapBacked
  PanicHasCause
