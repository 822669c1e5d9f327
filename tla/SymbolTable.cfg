SPECIFICATION Spec
CONSTANTS
    Size = 16
    Count = 4
    Value = {1, 2, 4, 7}
    Bytes = {0, 2}
    ElfBase = 2
    Past = 6
    End = 8
INVARIANTS SymbolsAreSorted LookupIsSound SymbolsAreFound
CHECK_DEADLOCK FALSE
