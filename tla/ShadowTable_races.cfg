\* Racing writers in one unit: a whole-unit set_range against set_byte
\* promotions (stale fill), and neighbouring bytes of one uint (lost update).
CONSTANTS
    t1 = t1
    t2 = t2
    NoThread = NoThread
    Threads = {t1, t2}
    NUnits = 1
    UnitSize = 8
    WordBytes = 4
    Granularity = 2
    MaxBlocks = 2
    MaxOps = 3
    Work <- WorkRacy
SPECIFICATION Spec
PROPERTY ImplementsShadowMemory
