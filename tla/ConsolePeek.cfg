SPECIFICATION Spec
CONSTANTS
    CR = CR
    LF = LF
    EOF = EOF
    Other = {a, b}
    ByteFF = ff
    SignedChar = TRUE
    ICRNL = TRUE
    MaxInput = 4
PROPERTIES ReturnsThatByte
CHECK_DEADLOCK FALSE
