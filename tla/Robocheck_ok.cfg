CONSTANTS
    MsgLens <- MsgLensMC
    DlErrLens = {60}
    ArgLists <- ArgListsMC
    MaxCalls = 3
SPECIFICATION Spec
INVARIANT TypeOK
INVARIANT NoLeak
