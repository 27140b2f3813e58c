SPECIFICATION KernelSpec
CONSTANTS
  NLegacy = 4
  Kbd = 1
  Mouse = 3
  Devices <- MCDevices
  ApicId = 1
  Madts <- MCMadts
  Firmwares <- MCFirmwares
  MaxPolls = 2
  Word = 256
  NSlots = 2
  NFuncs = 2
  NBars = 4
  MaxCaps = 3
  Ratio = 3
  Gap = 2
  HpetWidth = 16
  TimeWord = 65536
  MinTicks = 6
  Second = 600
  Interval = 10
  DefaultPeriod = 1000
  FourGiB = 8
INVARIANTS
  UnmaskedIsComplete
  KeyboardHandled
  MouseHandled
  OverridesKeepSource
  ConfigRestored
  FunctionsListed
  CalibrationSound
PROPERTIES
  RoutingSpec
  
CHECK_DEADLOCK FALSE
