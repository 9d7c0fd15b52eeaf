CONSTANTS
  ShiftLast = 2
  VectorLast = 3
  CountMod = 4
  W = 3
  Tap = 0
  Feedback = {0, 2}
  Seed <- Seed1
  ChainLen <- Len221
  Response <- SmallCore
  NoError = NoError
  ResetWaitCycles = 2
  SourceW = 20
  SourceTap = 2
  LoadLength = 153
  Loads = 10000
SPECIFICATION LbistSpec
INVARIANTS SignatureIsReference VerdictIsRight PatternsFlow InStep FullPeriod
PROPERTIES MemoryFrozenWhileScanning ResultIsRight VerdictReached
CHECK_DEADLOCK FALSE
