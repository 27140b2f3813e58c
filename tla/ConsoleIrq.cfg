SPECIFICATION ConsoleFairSpec
CONSTANTS
  BufferWidth = 2
  BufferHeight = 2
  Cols = 2
  Rows = 2
  TabWidth = 1
  MaxCalls = 1
  MaxIrqs = 1
  Messages <- MCMessages
  IrqMessage <- MCIrqMessage
PROPERTY HandlerEnds
