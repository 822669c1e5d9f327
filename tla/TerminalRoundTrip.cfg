CONSTANTS
    CR = CR
    LF = LF
    EOF = EOF
    Other = {a}
    ByteFF = ff
    SignedChar = TRUE
    ICRNL = FALSE
    MaxInput = 0
    Flag = {"echo"}
    Char = {0, 1}
    HostModes <- MCHostModes
SPECIFICATION ModesSpec
PROPERTIES
    UnchangedSettingsStay
CHECK_DEADLOCK FALSE
