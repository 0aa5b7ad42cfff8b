\* Thread inits one after another; every write and read of the register shadow.
CONSTANTS
    t1 = t1
    t2 = t2
    NoThread = NoThread
    Threads = {t1, t2}
    Regs <- RegsLow
    ByteNums = {0, 1, 3}
    DwordVals <- DwordVals3
    FlagVals = {0, 3}
    InheapVals = {1}
    MaxWrites = 2
    InitOverlap = FALSE
    Platform = "linux"
SPECIFICATION Spec
INVARIANT RegisterReadsAsWritten
