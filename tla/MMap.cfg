SPECIFICATION Spec
CONSTANTS
    Base = 2
    Length = 5
    Content = {0, 1}
    MaxLen = 3
    MaxEntries = 3
    PastEnd = {0, 7}
VIEW ListView
INVARIANTS Validate SearchIsExact
PROPERTIES ImplementsAddressSpace
CHECK_DEADLOCK FALSE
