\* Three lines of four words, jumps at any time to the middle of a line and to
\* its last halfword, up to two loops at once.
SPECIFICATION Spec
CONSTANTS
    Lines = 3
    NLoops = 2
    Programs <- MCPrograms
    LoopConfigs <- MCLoops
    Targets <- MCTargets
INVARIANTS InstructionsInOrder InstructionsWhole LoopsCounted WaitersHaveAsked
