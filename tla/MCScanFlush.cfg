CONSTANTS
  ShiftLast = 5
  VectorLast = 4
  CountMod = 8
  Len = 6
SPECIFICATION FlushFairSpec
INVARIANTS SessionStartsClean ControllerInv
INVARIANTS OnlyKnownAbsorbed CaptureFindsPattern ResponseUnloaded FlushInv
PROPERTY ImplementsFairSession
