\* Copies of a whole special unit and of overlapping ranges against memmove.
CONSTANTS
    NUnits = 3
    UnitSize = 8
    WordBytes = 4
    Granularity = 2
    MaxCalls = 2
    Calls <- CallsCopy
SPECIFICATION Spec
PROPERTY CopyIsMemmove
