CONSTANTS
  ShiftLast = 2
  VectorLast = 3
  CountMod = 4
  W = 3
  Tap = 0
  Feedback = {0, 2}
  Seed <- Seed1
  ChainLen <- Len221
  Response <- SmallCore
  NoError = NoError
SPECIFICATION ClearedSpec
INVARIANT FaultFreePasses
