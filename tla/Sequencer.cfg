CONSTANTS
    MaxAddress = 5
    Handler = 2
    Installed = FALSE
SPECIFICATION Spec
INVARIANT TypeOK
PROPERTY ImplementsDelayedTransfer
CHECK_DEADLOCK FALSE
