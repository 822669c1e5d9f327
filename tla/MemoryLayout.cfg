SPECIFICATION Spec
CONSTANTS
    Size = 65536
    LowAddress = 64
    Page = 32
    ArgCommit = 32
    StackCommit = 512
    BrkCommit = 32
    MmapCommit = 64
    MaxArgs = 3
    Image <- SmallImages
    Arguments <- CommandLines
    Environment <- Lists
    NameLength = 3
    OsLength = 3
    ExecLength = 4
    PlatformLength = 3
    Ask <- Asks
INVARIANTS RegionsAreApart NothingIsOverwritten StartupIsWalkable SpIsAligned BreakIsInTheHeap
PROPERTIES BrkReturnsTheBreak
CHECK_DEADLOCK FALSE
