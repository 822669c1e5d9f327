SPECIFICATION FairSpec
CONSTANTS
    NWINDOWS = 3
    StackSlots = 4
    Word = {0, 1}
    Quiet = {8}
    Debug = TRUE
INVARIANTS TypeOK SpChain Inv
PROPERTIES ImplementsCallFrames RetryCompletes
CHECK_DEADLOCK FALSE
