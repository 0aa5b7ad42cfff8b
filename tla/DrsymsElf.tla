------------------------------ MODULE DrsymsElf ------------------------------
(***************************************************************************)
(* The ELF back end of drsyms, dynamorio/ext/drsyms/drsyms_elf.c: the      *)
(* per-module elf_info_t that drsym_obj_mod_init_pre and _post fill from   *)
(* a mapped ELF file, and the symbol queries over it.                      *)
(*                                                                         *)
(* An ELF file is a record: whether elf_memory and elf_getshdrstrndx       *)
(* succeed, its section headers in order (index 0 is the null section),   *)
(* its program headers (NoPhdr when elf_getphdr fails) and the entries of  *)
(* its .symtab.  Addresses are ptr_uint_t and size_t, scaled to AddrMod.   *)
(* Queries change no state; they are operators, checked for every          *)
(* argument in every reachable state.                                      *)
(***************************************************************************)
EXTENDS Integers, Sequences, FiniteSetsExt, Bitwise

CONSTANTS
    ModIds,     \* handles of the modules drsyms may have open at once
    Files,      \* the mapped ELF files, by name: a function to records
    AddrMod     \* 2^w: ptr_uint_t and size_t arithmetic is modulo AddrMod

NoPhdr == "NoPhdr"
SHT_NOBITS == 8                            \* sh_type of a section without data

\* TEST(mask, var) of DynamoRIO's globals: some bit of mask is set in var.
TEST(mask, var) == (var & mask) # 0
NULL == 0                                  \* a section index 0 is NULL

\* drsym_debug_kind_t flags
DRSYM_SYMBOLS == "SYMBOLS"
DRSYM_ELF_SYMTAB == "ELF_SYMTAB"
DRSYM_LINE_NUMS == "LINE_NUMS"
DRSYM_DWARF_LINE == "DWARF_LINE"

\* drsym_error_t results
DRSYM_SUCCESS == "SUCCESS"
DRSYM_ERROR == "ERROR"
DRSYM_ERROR_INVALID_PARAMETER == "INVALID_PARAMETER"
DRSYM_ERROR_SYMBOL_NOT_FOUND == "SYMBOL_NOT_FOUND"

VARIABLES
    inited,     \* drsym_obj_init has called elf_version(EV_CURRENT)
    mods        \* handle -> elf_info_t, with phase "free", "pre" or "post"

vars == <<inited, mods>>

FreeMod == [phase |-> "free", file |-> CHOOSE f \in DOMAIN Files : TRUE,
            elf |-> FALSE, syms |-> FALSE, strtab_idx |-> 0, num_syms |-> 0,
            load_base |-> 0, debug_kind |-> {}]

-----------------------------------------------------------------------------
(* find_elf_section_by_name: the index of the first section with a header *)
(* and the name, NULL if there is none or if that section is SHT_NOBITS.   *)
(* elf_getshdrstrndx fails on a NULL Elf.                                  *)
RECURSIVE ScanSections(_, _, _)
ScanSections(secs, name, i) ==
    IF i >= Len(secs) THEN NULL
    ELSE LET sh == secs[i + 1] IN
         IF ~sh.hdr \/ sh.name # name THEN ScanSections(secs, name, i + 1)
         ELSE IF TEST(SHT_NOBITS, sh.type) THEN NULL ELSE i

\* Variant: a section without data is returned like any other.
find_elf_section_by_name_nobits(elf, f, name) ==
    IF ~elf \/ ~f.shstrndx THEN NULL
    ELSE LET secs == f.sections
             RECURSIVE Scan(_)
             Scan(i) == IF i >= Len(secs) THEN NULL
                        ELSE IF secs[i + 1].hdr /\ secs[i + 1].name = name THEN i
                        ELSE Scan(i + 1)
         IN Scan(0)

find_elf_section_by_name(elf, f, name) ==
    IF ~elf \/ ~f.shstrndx THEN NULL ELSE ScanSections(f.sections, name, 0)

(* find_load_base: the minimum p_vaddr of the PT_LOAD headers, 0 if there  *)
(* is none or no program header table.                                     *)
RECURSIVE LoadScan(_, _, _, _)
LoadScan(ph, i, found, base) ==
    IF i > Len(ph) THEN base
    ELSE IF ph[i].type # "LOAD" THEN LoadScan(ph, i + 1, found, base)
    ELSE IF ~found THEN LoadScan(ph, i + 1, TRUE, ph[i].vaddr)
    ELSE LoadScan(ph, i + 1, TRUE, IF base <= ph[i].vaddr THEN base ELSE ph[i].vaddr)

\* Variant: load_base starts at 0 and is always min'd.
find_load_base_nofound(elf, f) ==
    IF ~elf \/ f.phdrs = NoPhdr THEN 0
    ELSE LoadScan(f.phdrs, 1, TRUE, 0)

find_load_base(elf, f) ==
    IF ~elf \/ f.phdrs = NoPhdr THEN 0
    ELSE LoadScan(f.phdrs, 1, FALSE, 0)

SectionAt(f, idx) == f.sections[idx + 1]

-----------------------------------------------------------------------------
(* Operations.                                                             *)

drsym_obj_init ==
    /\ inited' = TRUE
    /\ UNCHANGED mods

(* drsym_obj_mod_init_pre(map_base, file_size): a zeroed elf_info_t, the   *)
(* Elf of elf_memory (NULL before elf_version), .symtab and .strtab, and   *)
(* .debug_line.  The symbol count is sh_size / sh_entsize of .symtab.      *)
drsym_obj_mod_init_pre(h, fn) ==
    LET f == Files[fn]
        elf == inited /\ f.elf
        symtab == find_elf_section_by_name(elf, f, ".symtab")
        strtab == find_elf_section_by_name(elf, f, ".strtab")
        haveSyms == symtab # NULL /\ strtab # NULL
        kind == (IF symtab # NULL THEN {DRSYM_SYMBOLS, DRSYM_ELF_SYMTAB} ELSE {})
                \cup (IF find_elf_section_by_name(elf, f, ".debug_line") # NULL
                      THEN {DRSYM_LINE_NUMS, DRSYM_DWARF_LINE} ELSE {})
    IN
    /\ mods[h].phase = "free"
    /\ mods' = [mods EXCEPT ![h] =
                  [phase |-> "pre", file |-> fn, elf |-> elf, syms |-> haveSyms,
                   strtab_idx |-> IF haveSyms THEN strtab ELSE 0,
                   num_syms |-> IF haveSyms
                                THEN SectionAt(f, symtab).size \div SectionAt(f, symtab).entsize
                                ELSE 0,
                   load_base |-> 0, debug_kind |-> kind]]
    /\ UNCHANGED inited

drsym_obj_mod_init_post(h) ==
    /\ mods[h].phase = "pre"
    /\ mods' = [mods EXCEPT ![h].phase = "post",
                  ![h].load_base = find_load_base(mods[h].elf, Files[mods[h].file])]
    /\ UNCHANGED inited

\* drsym_obj_mod_exit: elf_end and dr_global_free.
drsym_obj_mod_exit(h) ==
    /\ mods[h].phase # "free"
    /\ mods' = [mods EXCEPT ![h] = FreeMod]
    /\ UNCHANGED inited

-----------------------------------------------------------------------------
(* Queries on an open module mod.                                          *)

SymOf(mod, idx) == Files[mod.file].syms[idx + 1]

drsym_obj_info_avail(mod) == mod.debug_kind

drsym_obj_num_symbols(mod) == mod.num_syms

drsym_obj_load_base(mod) == mod.load_base

\* The section index of .gnu_debuglink's data (map_base + sh_offset), or
\* NULL: elf_getshdr(NULL) returns NULL.
drsym_obj_debuglink_section(mod) ==
    find_elf_section_by_name(mod.elf, Files[mod.file], ".gnu_debuglink")

drsym_obj_symbol_name(mod, idx) ==
    IF idx >= mod.num_syms \/ ~mod.syms THEN NULL ELSE SymOf(mod, idx).name

drsym_obj_symbol_offs(mod, idx) ==
    IF idx >= mod.num_syms \/ ~mod.syms
    THEN [status |-> DRSYM_ERROR_INVALID_PARAMETER]
    ELSE [status |-> DRSYM_SUCCESS,
          start |-> (SymOf(mod, idx).value - mod.load_base) % AddrMod,
          end |-> (SymOf(mod, idx).value + SymOf(mod, idx).size - mod.load_base) % AddrMod]

\* The loop of drsym_obj_addrsearch_symtab from symbol i.
RECURSIVE SearchFrom(_, _, _)
SearchFrom(mod, modoffs, i) ==
    IF i >= mod.num_syms THEN [status |-> DRSYM_ERROR_SYMBOL_NOT_FOUND]
    ELSE LET lo == (SymOf(mod, i).value - mod.load_base) % AddrMod
             hi == (lo + SymOf(mod, i).size) % AddrMod
         IN IF lo <= modoffs /\ modoffs < hi
            THEN [status |-> DRSYM_SUCCESS, idx |-> i]
            ELSE SearchFrom(mod, modoffs, i + 1)

drsym_obj_addrsearch_symtab(mod, modoffs) ==
    IF ~mod.syms THEN [status |-> DRSYM_ERROR] ELSE SearchFrom(mod, modoffs, 0)

-----------------------------------------------------------------------------
Init ==
    /\ inited = FALSE
    /\ mods = [h \in ModIds |-> FreeMod]

Next ==
    \/ drsym_obj_init
    \/ \E h \in ModIds, fn \in DOMAIN Files : drsym_obj_mod_init_pre(h, fn)
    \/ \E h \in ModIds : drsym_obj_mod_init_post(h)
    \/ \E h \in ModIds : drsym_obj_mod_exit(h)

Spec == Init /\ [][Next]_vars

-----------------------------------------------------------------------------
(* Properties.                                                             *)

\* Reference definitions over the file itself.
LoadBaseRef(f) ==
    IF f.phdrs = NoPhdr THEN 0
    ELSE LET L == {f.phdrs[i].vaddr : i \in {i \in 1 .. Len(f.phdrs) : f.phdrs[i].type = "LOAD"}}
         IN IF L = {} THEN 0 ELSE Min(L)

Contains(sym, addr) == sym.value <= addr /\ addr < sym.value + sym.size

NoBits(f, name) ==
    \E i \in 1 .. Len(f.sections) :
        f.sections[i].hdr /\ f.sections[i].name = name /\ f.sections[i].type = SHT_NOBITS

(* Once drsym_obj_mod_init_post has run, a module offset resolves to the   *)
(* symbol the file places there: drsym_obj_addrsearch_symtab returns the   *)
(* first symbol whose [st_value, st_value + st_size) holds the load        *)
(* address (the lowest PT_LOAD p_vaddr plus the offset), or                *)
(* SYMBOL_NOT_FOUND; symbol_offs of that symbol brackets the offset and     *)
(* symbol_name is its name.  This ties find_load_base, the search loop and *)
(* symbol_offs' size_t arithmetic to the file; drsym_obj_load_base        *)
(* reports that lowest p_vaddr.                                            *)
SymbolLookupMatchesFile ==
    \A h \in ModIds :
        LET mod == mods[h]
            f == Files[mod.file]
        IN  (mod.phase = "post" /\ mod.syms) =>
            /\ drsym_obj_load_base(mod) = LoadBaseRef(f)
            /\ \A m \in 0 .. AddrMod - 1 :
                LET C == {i \in 0 .. mod.num_syms - 1 : Contains(f.syms[i + 1], LoadBaseRef(f) + m)}
                    r == drsym_obj_addrsearch_symtab(mod, m)
                IN  IF C = {} THEN r.status = DRSYM_ERROR_SYMBOL_NOT_FOUND
                    ELSE /\ r.status = DRSYM_SUCCESS
                         /\ r.idx = Min(C)
                         /\ drsym_obj_symbol_offs(mod, r.idx).start <= m
                         /\ m < drsym_obj_symbol_offs(mod, r.idx).end
                         /\ drsym_obj_symbol_name(mod, r.idx) = f.syms[r.idx + 1].name

(* A section that has a header but no data (SHT_NOBITS, as in the          *)
(* debuglink files of i#642) is treated as absent: with a NOBITS .symtab   *)
(* or .strtab no symbol is counted, named or found and, for .symtab, no    *)
(* symbols are reported available; a NOBITS .gnu_debuglink yields no path. *)
NoBitsSectionsAbsent ==
    \A h \in ModIds :
        LET mod == mods[h]
            f == Files[mod.file]
        IN  mod.phase # "free" =>
            /\ (NoBits(f, ".symtab") \/ NoBits(f, ".strtab")) =>
                  /\ drsym_obj_num_symbols(mod) = 0
                  /\ \A i \in 0 .. Len(f.syms) : drsym_obj_symbol_name(mod, i) = NULL
                  /\ \A m \in 0 .. AddrMod - 1 :
                        drsym_obj_addrsearch_symtab(mod, m).status # DRSYM_SUCCESS
            /\ NoBits(f, ".symtab") => DRSYM_SYMBOLS \notin drsym_obj_info_avail(mod)
            /\ NoBits(f, ".gnu_debuglink") => drsym_obj_debuglink_section(mod) = NULL
=============================================================================
