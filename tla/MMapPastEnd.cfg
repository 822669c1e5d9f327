SPECIFICATION Spec
CONSTANTS
    Base = 2
    Length = 5
    Content = {0}
    MaxLen = 3
    MaxEntries = 3
    PastEnd = {0, 9}
VIEW ListView
INVARIANTS Validate
CHECK_DEADLOCK FALSE
