\* Two threads that start at once, and a write to byte 1 of eax read back
\* through AH: each alone makes a register read differ from what was written.
CONSTANTS
    t1 = t1
    t2 = t2
    NoThread = NoThread
    Threads = {t1, t2}
    Regs <- RegsHigh
    ByteNums = {0, 1, 3}
    DwordVals <- DwordVals3
    FlagVals = {0, 3}
    InheapVals = {1}
    MaxWrites = 2
    InitOverlap = TRUE
    Platform = "linux"
SPECIFICATION Spec
INVARIANT RegisterReadsAsWritten
