\* shadow_prev_dword from the middle of the table skips the upper dwords of lower units.
CONSTANTS
    NUnits = 3
    UnitSize = 8
    WordBytes = 4
    Granularity = 2
    MaxCalls = 3
    Calls <- CallsCore
SPECIFICATION Spec
INVARIANT PrevDwordFindsHighest
