SPECIFICATION FairSpec
CONSTANTS
  kbd = kbd
  mouse = mouse
  NoTask = NoTask
  Tasks <- MCTasks
  Finite <- MCFinite
  Eager <- MCEager
  Items = {1, 2}
  QueueCap = 3
  StreamCap = 2
  MaxIrqs = 5
INVARIANTS
  TypeOK
  NoLostWakeup
  NoStaleWaker
  Attended
PROPERTY
  ChannelSpec
