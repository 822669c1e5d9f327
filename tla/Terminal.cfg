CONSTANTS
    CR = CR
    LF = LF
    EOF = EOF
    Other = {a}
    ByteFF = ff
    SignedChar = TRUE
    ICRNL = FALSE
    MaxInput = 0
    Flag = {"echo"}
    Char = {0, 1}
    HostModes <- MCHostModes
SPECIFICATION ModesSpec
INVARIANTS CopyIsInStep TerminalIsRestored
PROPERTY ReadsBackWhatItSet
CHECK_DEADLOCK FALSE
