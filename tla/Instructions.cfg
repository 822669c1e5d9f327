CONSTANTS
    Width = 4
    Half = 8
    Largest = 6
    IntLimit = 2
    Radix = 2
    Bytes = 8
    Values = {11}
SPECIFICATION MCSpec
INVARIANTS
    SumsAreExact
    DifferencesAreExact
    QuotientsAreExact
    ConditionsCompare
    DoubleWordsAreExact
    PartialProductIsExact
    ArithmeticIsIEEE
    FloatConditionsCompare
    ConversionTruncates
    MemoryIsBigEndian
CHECK_DEADLOCK FALSE
