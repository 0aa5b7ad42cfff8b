\* Racing writers in one unit: promotion happens once, every block is freed at exit, and every call returns.
CONSTANTS
    t1 = t1
    t2 = t2
    NoThread = NoThread
    Threads = {t1, t2}
    NUnits = 1
    UnitSize = 8
    WordBytes = 4
    Granularity = 2
    MaxBlocks = 2
    MaxOps = 3
    Work <- WorkRacy
SPECIFICATION FairSpec
INVARIANT ExitFreesEveryBlock
PROPERTY OperationsReturn
