SPECIFICATION ConsoleFairSpec
CONSTANTS
  BufferWidth = 2
  BufferHeight = 2
  Cols = 2
  Rows = 2
  TabWidth = 1
  MaxCalls = 3
  MaxIrqs = 1
  Messages <- MCMessages
  IrqMessage <- MCIrqMessage
INVARIANTS ConsoleTypeOK VgaShowsText ConsoleShowsText
PROPERTY CallsReturn
