CONSTANTS
    N = 4
    Boot = 0
    TrapVector = 1
    IrqVector = 2
    DebugVector = 3
    JumpDistance = 2
    Classes <- AllClasses
    IrqWithdrawn = FALSE
SPECIFICATION Spec
INVARIANTS InOrder SleepsDrained StepsOne
PROPERTY ImplementsHart
