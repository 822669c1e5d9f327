SPECIFICATION FairSpec
CONSTANTS
    CR = CR
    LF = LF
    EOF = EOF
    Other = {a, b, ff}
    ByteFF = ff
    SignedChar = TRUE
    ICRNL = FALSE
    MaxInput = 4
INVARIANTS EveryByteIsSomewhere DeliversTheText
PROPERTIES ReadyMeansByte ReadsToTheEnd
CHECK_DEADLOCK FALSE
