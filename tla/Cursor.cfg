SPECIFICATION CursorSpec
CONSTANTS
  Width = 3
  Height = 3
  W = 2
  H = 2
  Arrow = {0, 1, 2}
  MaxDelta = 1
  Deltas <- MCDeltas
  IntMin <- MCIntMin
  Start = 1
  IntMax = 3
  MaxPrints = 1
INVARIANTS
  CursorTypeOK
  DamageIsLocal
  ArrowShown
PROPERTIES
  MovesAreTransparent
