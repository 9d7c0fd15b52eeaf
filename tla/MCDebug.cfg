\* Four commands of the debugger; two stores before and after the fill.
SPECIFICATION DebugSpec
CONSTANTS
  TapState = {0, 1}
  TestLogicReset = 1
  Rise <- Bypass
  Drives <- Same
  TICK_DELAY = 1
  Sendable <- AllCommands
  MaxSent = 4
  Harts <- TwoHarts
  FlaggedHart = 992
  Flags = {1, 2}
  repeat_factor = 2
INVARIANTS SessionTransparent
PROPERTIES ActsAsTap CommandsServed HandshakeOrdered HartResumes
