\* Two module handles opened on any of five ELF files, before and after
\* drsym_obj_init, through init_pre, init_post and exit.
CONSTANTS
    m1 = m1
    m2 = m2
    ModIds = {m1, m2}
    Files <- FilesMC
    AddrMod = 256
SPECIFICATION Spec
INVARIANT SymbolLookupMatchesFile
INVARIANT NoBitsSectionsAbsent
