SPECIFICATION ManagerSpec
CONSTANTS
  Infos <- MCInfos
  Vectors <- MCVectors
  Pages <- MCPages
  BootPages <- MCBootPages
  Box <- MCBox
  MaxDevices = 3
  MaxDrivers = 3
INVARIANTS
  NoDanglingPointer
  HandlersHaveOwner
  MappingsFollowDrivers
