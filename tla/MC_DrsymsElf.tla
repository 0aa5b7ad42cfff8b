---------------------------- MODULE MC_DrsymsElf ----------------------------
(***************************************************************************)
(* ELF files for TLC, with addresses scaled to 8 bits and Elf_Sym entries  *)
(* of 16 bytes.                                                            *)
(***************************************************************************)
EXTENDS DrsymsElf

CONSTANTS m1, m2

\* sh_type values of the ELF specification.
SHT_NULL == 0
SHT_PROGBITS == 1
SHT_SYMTAB == 2
SHT_STRTAB == 3

Sec(n, t, sz, es) == [name |-> n, type |-> t, hdr |-> TRUE, size |-> sz, entsize |-> es]
NoHdr(n) == [name |-> n, type |-> SHT_PROGBITS, hdr |-> FALSE, size |-> 0, entsize |-> 0]
Sym(n, v, sz) == [name |-> n, value |-> v, size |-> sz]
Load(v) == [type |-> "LOAD", vaddr |-> v]
Dyn(v) == [type |-> "DYNAMIC", vaddr |-> v]
Null == Sec("", SHT_NULL, 0, 0)

(* exe: a header elf_getshdr cannot read, two PT_LOAD segments of which    *)
(* the first is not the lowest, overlapping symbols (the first wins) and  *)
(* an undefined symbol of value 0 below the load base.                     *)
(* stub: a debuglink file whose .symtab and .debug_line have no data.      *)
(* nostr: a symbol table whose string table has no data, and no PT_LOAD.   *)
(* bad: elf_memory fails.  noshstr: elf_getshdrstrndx fails.               *)
FilesMC ==
    [exe |-> [elf |-> TRUE, shstrndx |-> TRUE,
              sections |-> <<Null, NoHdr(".symtab"), Sec(".text", SHT_PROGBITS, 64, 0),
                             Sec(".symtab", SHT_SYMTAB, 64, 16), Sec(".strtab", SHT_STRTAB, 32, 0),
                             Sec(".debug_line", SHT_PROGBITS, 16, 0)>>,
              phdrs |-> <<Load(64), Dyn(16), Load(32)>>,
              syms |-> <<Sym("a", 32, 16), Sym("b", 40, 8), Sym("c", 80, 32), Sym("und", 0, 0)>>],
     stub |-> [elf |-> TRUE, shstrndx |-> TRUE,
               sections |-> <<Null, Sec(".symtab", SHT_NOBITS, 64, 16), Sec(".strtab", SHT_STRTAB, 32, 0),
                              Sec(".debug_line", SHT_NOBITS, 16, 0), Sec(".gnu_debuglink", SHT_PROGBITS, 16, 0)>>,
               phdrs |-> NoPhdr,
               syms |-> <<Sym("a", 32, 16), Sym("b", 40, 8), Sym("c", 80, 32), Sym("und", 0, 0)>>],
     nostr |-> [elf |-> TRUE, shstrndx |-> TRUE,
                sections |-> <<Null, Sec(".symtab", SHT_SYMTAB, 32, 16), Sec(".strtab", SHT_NOBITS, 32, 0),
                               Sec(".gnu_debuglink", SHT_NOBITS, 16, 0)>>,
                phdrs |-> <<Dyn(8)>>,
                syms |-> <<Sym("x", 4, 4), Sym("y", 12, 20)>>],
     bad |-> [elf |-> FALSE, shstrndx |-> FALSE, sections |-> <<>>, phdrs |-> NoPhdr, syms |-> <<>>],
     noshstr |-> [elf |-> TRUE, shstrndx |-> FALSE,
                  sections |-> <<Null, Sec(".symtab", SHT_SYMTAB, 32, 16)>>,
                  phdrs |-> <<Load(16)>>, syms |-> <<Sym("x", 16, 4), Sym("y", 20, 4)>>]]
=============================================================================
