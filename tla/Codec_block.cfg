CONSTANTS
    NUints = 2
    SetIdx <- SetIdxMC
    Ranges <- RangesMC
    MaxWrites = 4
INIT Init
NEXT Next
INVARIANT ReadersAgreeWithView
INVARIANT TablesMatchTheirRules
