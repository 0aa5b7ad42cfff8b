CONSTANTS
    NUnits = 3
    UnitSize = 8
    WordBytes = 4
    Granularity = 2
    MaxCalls = 4
    Calls <- CallsCore
SPECIFICATION Spec
INVARIANT TypeOK
INVARIANT CheckRangeFindsFirstMismatch
INVARIANT CheckRangeBackwardFindsLast
INVARIANT NextDwordFindsLowest
PROPERTY WritesExact
PROPERTY NoNeedlessPromotion
