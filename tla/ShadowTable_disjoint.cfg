\* Race-free threads on disjoint uints, one querying shadow_get_special: the table implements ShadowMemory.
CONSTANTS
    t1 = t1
    t2 = t2
    NoThread = NoThread
    Threads = {t1, t2}
    NUnits = 2
    UnitSize = 8
    WordBytes = 4
    Granularity = 2
    MaxBlocks = 3
    MaxOps = 3
    Work <- WorkDisjoint
SPECIFICATION Spec
INVARIANT TypeOK GetSpecialConsistent
PROPERTY ImplementsShadowMemory
