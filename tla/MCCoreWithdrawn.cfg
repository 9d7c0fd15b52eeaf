CONSTANTS
    N = 4
    Boot = 0
    TrapVector = 1
    IrqVector = 2
    DebugVector = 3
    JumpDistance = 2
    Classes <- Maskable
    IrqWithdrawn = TRUE
SPECIFICATION Spec
INVARIANT InOrder
