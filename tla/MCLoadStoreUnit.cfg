\* The core as built, or (stalls) the unit with an EX stage that may be held.
SPECIFICATION FairSpec
CONSTANTS
    Words <- TwoWords
    Access <- AllAccesses
    InitialMem <- DistinctMem
    MaxAccesses = 3
    MaxStalled = 2
INVARIANTS GrantedOnce StoresWriteBytes LoadsReturnBytes CoreInv
PROPERTY AccessesDrain
