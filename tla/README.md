# TLA+ models of the Dr. Memory shadow memory (drmemory/shadow.c), the drsyms ELF reader and the robocheck library

This directory holds TLA+ specifications of the shadow memory component in
`src/drmemory-read-only/drmemory/shadow.c` and of the robocheck wrapper
library in `src/src/` (`rbc_utils.c`, `librobocheck.c`), and of the ELF back
end of DynamoRIO's symbol library,
`src/drmemory-read-only/dynamorio/ext/drsyms/drsyms_elf.c`. It also holds the TLC
configurations that check them. `PROJECT.json` lists the components, runs,
mutants, the map from definitions to source lines, findings and hazards.

## The system

`shadow.c` keeps two bits of state for every application byte:
defined (0), unaddressable (1), bitlevel (2) or undefined (3).

- **Shadow table.** `shadow_table[]` has one slot per 64 KB `ALLOC_UNIT`.
  - A slot points either at one of four read-only *special* blocks or at a
    *private* block allocated for that unit.
  - A special block means the whole unit has one value.
  - A slot only ever goes from special to private. It never reverts
    (PR 580017), and a private block is never freed.
  - That promotion is the only step taken under `shadow_lock`.
- **Writers.**
  - `shadow_set_byte` reads the slot. If the slot is special, it reads
    `blockval`, returns if the write is a no-op, and otherwise takes the
    lock. Under the lock it re-checks the slot, allocates a block, fills it
    with `blockval`, installs it and unlocks. It then sets the byte's two
    bits with a load and store of the `uint` that shadows 16 application
    bytes (`bitmapx2_set`).
  - `shadow_set_range` walks its range and takes one of three paths:
    - it swaps a whole special unit to another special block under the lock
      (`shadow_set_special`, which refuses a slot that went private);
    - it memsets runs of a private block;
    - otherwise it falls back to `shadow_set_byte`.
  - `shadow_copy_range` copies special onto special units by a swap, and
    everything else byte by byte.
  - `shadow_replace_special` forces a unit private.
- **Queries.** Four functions read the table:
  - `shadow_check_range` is a forward scan. It skips special units and
    uniform uints and reports the first mismatch and its extent.
  - `shadow_check_range_backward` scans backward one byte at a time.
  - `shadow_next_dword` and `shadow_prev_dword` are directed searches for an
    aligned dword with a given value.
- **Encodings.** A private block is a `uint[]`. The `uint` at
  `BITMAPx2_IDX(i)` holds byte `i`'s two bits at `BITMAPx2_SHIFT(i)`.
  - `bitmapx2_get/set` read and write one pair with `set_2bits_inline`.
  - `shadow_set_range` memsets the same block as a byte array. Each byte of
    the array holds four application bytes.
  - Readers decode whole bytes through eight 256-entry lookup tables
    (`shadow_dword_is_addressable`, `shadow_byte_defined[offs]`, ...), and
    whole uints through `dqword_to_val`.
- **Register shadow.** Each thread has a `shadow_registers_t` in TLS. It
  holds one shadow byte per 32-bit GPR (two bits per register byte), an
  eflags byte and the `in_heap_routine` counter.
  - `shadow_registers_thread_init` fills it. All registers are defined for
    the first thread. Later threads get undefined registers, except `esp`
    (and `eax` on Linux).
  - The init tests and clears a static `first_thread` without a lock.
  - After init, only the owning thread reads or writes its shadow.

- **Robocheck.** A small sequential library that tools link with.
  - `log_message(message, f_ptr)` builds a line in the static 1024-byte
    `LoggerBuff` (`create_log_message`: timestamp, `[robocheck]` tag,
    message) and prints it to `f_ptr`, else to the static `FileLogger`,
    else returns -1.
  - `init_robocheck` sets `FileLogger` to stdout. `close_robocheck` fcloses
    it if it is a standard stream.
  - `make_comm_string` joins its arguments, separated by spaces, into a
    malloc'd buffer. It grows the buffer by `MAX_BUFF_SIZE` with `realloc`
    when an argument does not fit.
  - `load_module` dlopens a tool, looks up its entry point, runs it and
    dlcloses it.

- **drsyms ELF back end.** Dr. Memory resolves addresses to symbols
  through drsyms. `drsyms_elf.c` keeps one `elf_info_t` per module.
  - `drsym_obj_init` calls `elf_version`.
  - `drsym_obj_mod_init_pre` opens the mapped file with `elf_memory`. It
    finds `.symtab`, `.strtab` and `.debug_line` by name, treating a section
    without data (`SHT_NOBITS`, i#642) as absent. It sets the symbol count
    and the available debug kinds.
  - `drsym_obj_mod_init_post` sets the load base to the lowest `PT_LOAD`
    address.
  - The queries map a module offset to the first symbol containing it
    (`addrsearch_symtab`), a symbol to its offsets and its name, and a
    module to its `.gnu_debuglink` section.
  - `drsym_obj_mod_exit` frees the module.

Application threads call the shadow writers concurrently. Nothing but the promotion
is synchronized. Spec section 5 says races between writers of the *same*
bytes mirror races in the application.

## Modules

| module | models |
|---|---|
| `ShadowLayout` | Constants and address arithmetic (`TABLE_IDX`, `ADDR_OF_BASE`, alignment), the four values, blocks as `[kind, ref]` records, `block_is_special`, `val_to_special`, and `SetEnd` (set_range's clamped memset end). |
| `ShadowMemory` | The abstract specification: a map from bytes to values. A write operation of a thread may take effect in several steps. Each step sets some bytes it still owes to its value; no other byte changes. |
| `ShadowTable` | The concurrent core: the table, the private blocks, `shadow_lock`, and per-thread `shadow_set_byte` / `shadow_set_range` / `shadow_set_special` / `shadow_get_special`, split at each shared read, lock operation and store, and `shadow_table_exit`. It is shown to implement `ShadowMemory` by a refinement mapping. |
| `MC_ShadowTable` | The workloads for TLC. |
| `RangeOps` | All writers and queries, one call at a time. Each C loop is a RECURSIVE operator over `st = [table, heap, nalloc]`, with the code's branches in its order. A step applies one whole call. The queries are checked in every reachable state, for every argument, against reference definitions. |
| `MC_RangeOps` | The call sets for TLC. |
| `TwoBits` | `set_2bits_inline` in `Bitwise` arithmetic on 16-bit uints, shared by the two modules below. |
| `Codec` | One private block as packed uints with a ghost `view` of the value of each application byte. `Init` is the promotion fill. `SetByte` is `bitmapx2_set`. `SetRangeMemset` is `shadow_set_range`'s memset into the byte array, at the code's byte offset. Also holds `dqword_to_val`, `val_to_dword/dqword` and the eight lookup tables. |
| `MC_Codec` | Block, offsets and ranges for TLC. |
| `RegisterShadow` | Per-thread `shadow_registers_t` bytes, the static `first_thread`, each thread's TLS field, and one action per function. The init is split at the unlocked test of `first_thread`. Ghosts `greg`, `gflags` and `ginheap` hold what each register byte should read. |
| `Robocheck` | The robocheck library, with strings as their lengths. State: `FileLogger`, the closed streams, `strlen(LoggerBuff)` and the end of the last log call's writes, the last `make_comm_string` result, the live heap blocks and the results callers hold, and the dlopen handles. One action per API call, including a caller's `rbc_free_mem` of a result. A block counts as live from `malloc` until `free`; a `realloc` that succeeds leaves the count as it was. `create_log_message` is an operator computing the new length and write end, with the code's `size_t` arithmetic. `make_comm_string`'s loop is a RECURSIVE operator that returns the set of outcomes, one for each realloc that may fail. Library failures (gettimeofday, localtime, malloc, realloc, dlopen, dlsym) and whether uninitialized bytes hold a NUL are existential choices. |
| `MC_Robocheck` | Message and argument lengths for TLC. |
| `DrsymsElf` | `elf_info_t` per module handle (`phase` free, pre or post) and whether `elf_version` was called. One action per lifecycle call. The ELF file is a record: whether `elf_memory` and `elf_getshdrstrndx` succeed, the section headers in order (with `sh_type` as its number, tested with the code's `TEST(SHT_NOBITS, ...)` bit test), the program headers and the symbol entries. The section scan, the `PT_LOAD` scan and the symbol search are RECURSIVE operators. The queries are operators, checked for every argument against reference definitions over the file. |
| `MC_DrsymsElf` | Five ELF files for TLC. |
| `MC_RegisterShadow` | The registers for TLC, as records `[ptr, size, byte]`: EAX, AX, AL, AH, ESP. |

### How ShadowTable corresponds to the code

- **State.**
  - `table` is `shadow_table[]`.
  - `heap[i]` holds private block `i`, one value per offset.
  - `nalloc` counts `global_alloc` calls.
  - `lock` is the holder of `shadow_lock`.
- **Per-thread locals.**
  - `pc[t]` is the program point.
  - `rpc[t]` is set_range's `pc`, or set_byte's `addr`.
  - `blk[t]` is the local `block`.
  - `bval[t]` is `blockval`.
  - `wbuf[t]` is the `uint` loaded by `bitmapx2_set`.
- **Actions.**
  - Each action is one step the code can be interrupted around:
    - a read of a slot (`SetByteReadSpecial/Private`);
    - the `blockval` read (`SetByteGetVal`);
    - the separate no-op re-read (`SetByteNop`, `SetByteNotNop`);
    - lock and unlock;
    - the re-check with promotion or race (`SetBytePromote`, `SetByteRaced`);
    - the swap or refusal in `shadow_set_special`;
    - a memset run;
    - the `uint` load and store.
  - A memset is one step. Memsets are per-byte stores into a block that no
    longer changes its identity.
- **Application threads.** `Work[t]` is the set of calls thread `t` may make.
  `MaxOps` bounds the number of calls per thread.
- **Refinement mapping.**
  - `Mem` is what `shadow_get_byte` answers.
  - `Todo[t]` is the part of the call's range not yet passed by `rpc[t]`.

## Runs

| run | cfg | expect | what it shows |
|---|---|---|---|
| `table_disjoint` | `ShadowTable_disjoint.cfg` | pass | Two threads write disjoint uints of two shared units. Both race to promote unit 0, and one does whole-unit swaps of unit 1. Thread 1 also reads a unit with `shadow_get_special`. The implementation refines `ShadowMemory` (`ImplementsShadowMemory`). A `get_special` that finds a special block returns that block's value, even though the slot may be promoted between the table read and the value read (`GetSpecialConsistent`). |
| `table_racy` | `ShadowTable_racy.cfg` | pass | Threads race whole-unit `set_range` against `set_byte` in one unit. `shadow_table_exit` frees every allocated block exactly once, so neither a double allocation nor a `shadow_set_special` that replaces a promoted slot leaves an orphan (`ExitFreesEveryBlock`). Under weak fairness every call returns, including through `set_range`'s refuse-and-retry loop (`OperationsReturn`). This run fires the refuse and raced branches. |
| `table_races` | `ShadowTable_races.cfg` | violation | `ImplementsShadowMemory` fails for writers racing in one unit. TLC reports a `set_byte` store that writes back a `uint` loaded before a neighbour's memset (a lost update). Two other cases violate it alone. With `Work <- WorkStaleFill`, a `set_range` swap between `set_byte`'s `blockval` read and its re-check makes the promotion fill stale; in that trace the `ASSERT` at line 462 fails too. With `Work <- WorkSharedWord`, two race-free threads writing different bytes of one `uint` lose an update through `bitmapx2_set`. |
| `ops_core` | `RangeOps_core.cfg` | pass | For up to 4 calls from seven calls that reach every branch:<br>• The writers set exactly their range (`WritesExact`).<br>• A unit is promoted only if it ends up mixed (`NoNeedlessPromotion`).<br>• `check_range` reports the first mismatch, and `bad_end` ends the run of its value within the range (`CheckRangeFindsFirstMismatch`). A `bad_end` past `start+size` after a final skip (line 691) is not judged: the function comment states no bound for it.<br>• `check_range_backward` finds the last mismatch (`CheckRangeBackwardFindsLast`).<br>• `next_dword` finds the lowest match (`NextDwordFindsLowest`). |
| `ops_copy` | `RangeOps_copy.cfg` | violation | `CopyIsMemmove` fails. A special-onto-special unit copy installs the destination's value. A forward overlapping copy reads overwritten bytes. TLC reports one of the two; each alone, with the call set `CallsCopyUnit` or `CallsCopyOverlap`, also violates it. |
| `ops_prevdword` | `RangeOps_prevdword.cfg` | violation | `shadow_prev_dword` misses higher dwords of lower units (`PrevDwordFindsHighest`). |
| `regs_ops` | `RegisterShadow_ops.cfg` | pass | Two threads, with inits that do not overlap, make up to 2 writes each: bytes, dwords, eflags and in-heap. Once a thread's TLS field is published, EAX, AX, AL and ESP read back the bits of their own bytes through `get_shadow_register` and `get_thread_shadow_register`, and `is_shadow_register_defined` agrees with them (`RegisterReadsAsWritten`). |
| `regs_bugs` | `RegisterShadow_bugs.cfg` | violation | `RegisterReadsAsWritten` fails. Overlapping inits both see `first_thread` set, so the second thread's never-written registers read as defined. AH reads the shadow bits of AL. TLC reports the init race (4 states); with `Regs <- RegsLow` the init race alone violates it, and with `InitOverlap = FALSE` the AH read alone does. |
| `rbc_ok` | `Robocheck_ok.cfg` | pass | Up to 3 calls of every API function, with every library failure. Every live heap block is a result a caller holds: `make_comm_string` frees or returns every block it allocates, including when a realloc fails midway, and `rbc_free_mem` releases it (`NoLeak`). |
| `rbc_bounds` | `Robocheck_bounds.cfg` | violation | `BuffersInBounds` fails three ways. A 2000-byte message makes `create_log_message` write up to `LoggerBuff[1999]`. Two 1000-byte messages with a failed timestamp push it past the end. A 1100-byte argument is copied past `make_comm_string`'s block, whose result is never NUL-terminated. TLC reports the first in one step; each of the others alone, with the other inputs removed, also violates it. |
| `drsyms_ok` | `DrsymsElf_ok.cfg` | pass | Two module handles are opened on five ELF files, before and after `drsym_obj_init`. After `init_post`, every module offset resolves to the first symbol the file places at the lowest `PT_LOAD` address plus the offset; `symbol_offs` brackets the offset and `symbol_name` names the symbol (`SymbolLookupMatchesFile`). A `.symtab`, `.strtab` or `.gnu_debuglink` without data is never read (`NoBitsSectionsAbsent`). |
| `codec_block` | `Codec_block.cfg` | pass | Up to 3 `bitmapx2_set` stores and byte-array memsets on a two-uint block. `bitmapx2_get`, `bitmapx2_byte` with the tables, the byte array at `BLOCK_AS_BYTE_ARRAY_IDX`, and `dqword_to_val` all decode the last writes (`ReadersAgreeWithView`). All eight tables agree with their comments for every byte (`TablesMatchTheirRules`). |

Every property of a passing run has a mutant in `PROJECT.json`. A mutant is
a plausible bug in a mapped definition: a dropped re-check, a missing
advance, an unclamped memset end, an off-by-one loop bound, a full-unit
increment, a block filled with the wrong value, the new value instead of
`blockval` in a promotion fill, a TLS field published before the init's stores, a memset offset missing its uint,
table rows in the wrong order, `FileLogger` closed without the
`is_internal_stream` test, the old block kept when realloc fails, a load
base started at 0, or a `SHT_NOBITS` section returned like any other. TLC finds each one.

## Bounds

- **Scaled sizes.**
  - `UnitSize = 8` stands for `ALLOC_UNIT`.
  - `WordBytes = 4` stands for `BITMAPx2_UNIT`, the 16 bytes per `uint`.
  - `Granularity = 2` stands for `SHADOW_GRANULARITY`, the 4 application
    bytes per shadow byte.
  - With these sizes a unit holds two uints and a uint holds two shadow
    bytes. Each distinction the code makes is therefore present: unit
    aligned or not, uint aligned or not, granularity aligned or not, one run
    crossing into the next unit.
- **ShadowTable.**
  - Two threads are enough for every race here: each hazard involves one
    writer against one other.
  - There are 1 or 2 units.
  - `MaxBlocks` is one more than the number of units, so a racing
    double allocation is representable.
  - `MaxOps` is 2–3.
- **RangeOps.**
  - There are 3 units, so copies and searches cross units.
  - `MaxCalls` is 4.
  - The query invariants quantify over every start, end and value.
- **Codec.**
  - A `uint` is scaled to 16 bits: 8 application bytes, 2 array bytes.
  - The shadow byte keeps its real 8 bits and `SHADOW_GRANULARITY` stays 4,
    so the tables are the code's own, entry for entry. A 0/1 table is
    written as its sixteen source rows. Each row is a binary literal whose
    digits are the row's entries in source order.
  - A block of two uints gives a run that starts in either uint, crosses
    between them, and ends on, before or past a granularity boundary.
  - `TablesMatchTheirRules` covers all 256 bytes. It does not depend on the
    reachable states.
- **RegisterShadow.**
  - 32-bit `uint` arithmetic is done modulo 2^16. The code stores the
    result in a byte, and `&`, `|`, `~` and `<<` never move a bit down.
  - Two threads and up to 2 writes per thread.
  - The registers are EAX, AX, AL and ESP, plus AH for the violation run.
  - There are 2 dword values, one of them mixed.

- **Robocheck.**
  - Lengths keep their real values (`MAX_BUFF_SIZE` 512, `LoggerBuff` 1024,
    timestamp 22, tag 11), so every boundary is the code's own.
  - The messages are 40, 1000 and 2000 bytes: short, filling most of the
    buffer, and longer than it. The argument lists hold NULL and empty
    arguments, one that forces a realloc, two that end two bytes short of
    `max_len`, one longer than `2 * MAX_BUFF_SIZE`, and `argc = 0`.
  - Three calls reach a log after init and close, two failed timestamps in
    a row, and a realloc failure after a log.

- **drsyms.**
  - `ptr_uint_t` and `size_t` are scaled to 8 bits (`AddrMod = 256`). Every
    module offset from 0 to 255 is checked.
  - The files cover each branch of the code:
    - `exe`: a section header libelf cannot read; two `PT_LOAD` headers,
      the first not the lowest; overlapping symbols; an undefined symbol
      (value 0) below the load base.
    - `stub`: a debuglink file whose `.symtab` and `.debug_line` are
      `SHT_NOBITS`.
    - `nostr`: a symbol table whose `.strtab` is `SHT_NOBITS`, and no
      `PT_LOAD`.
    - `bad`: a file `elf_memory` rejects.
    - `noshstr`: a file with no section name table.
  - Two handles let one module be open while another is created or freed.

## Fairness

`FairSpec` (used by `table_racy`) assumes weak fairness of each thread's steps.

- The OS keeps scheduling runnable threads.
- `shadow_lock` is held only for a bounded number of steps: no path blocks
  while it is held.
- Nothing is assumed about the order in which threads run.

Once every thread has made its `MaxOps` calls and is idle, `shadow_table_exit`
frees the private blocks (`freed` counts the frees of each block).
`Finished` then stutters. It is the only state in which the model may stop.

## Findings

These are detailed in `PROJECT.json`:

- the stale promotion fill (line 462);
- lost updates through the shared `uint` (line 111);
- `shadow_copy_range` installing the destination's special value (line 596);
- `shadow_copy_range` not being a memmove for a forward overlap (line 605);
- `shadow_prev_dword` skipping the upper dwords of lower units (line 803);
- the unsynchronized `first_thread` (line 1439);
- AH/BH/CH/DH reading the shadow of AL/BL/CL/DL (line 1524);
- `create_log_message` overflowing `LoggerBuff` for long messages
  (`rbc_utils.c:56`);
- the swapped `memset` arguments that leave `LoggerBuff` uncleared, so
  failed timestamps accumulate until it overflows (`rbc_utils.c:27`);
- `make_comm_string` overflowing its block for an argument longer than
  `MAX_BUFF_SIZE` and never terminating its result (`rbc_utils.c:160`).

The code also has a defect that no run states as a property. A failed
`dlsym` in `load_module` jumps past `dlclose` and leaks the handle
(`librobocheck.c:27`). The model takes this path.

`rbc_utils.c` uses a `MAX` macro and includes `../lib/rbc_utils.h`. Neither
is in the repository; the model reads `MAX` as the maximum.

## Not modelled, and the plan

- **Bytemap configuration.** `bytemap_4to1_*` (`MAP_4B_TO_1B`) is a
  build-time alternative whose settings are in headers outside the
  repository.
- **Cross-thread reads of register shadow.** `get_thread_shadow_register`
  and `is_shadow_register_defined` are modelled (a thread whose TLS field
  is not yet published reads as a NULL dereference), but their callers,
  which would read another thread's shadow, are not in the repository.
- **Value 4.** `shadow_set_byte` and `shadow_set_range` accept `val <= 4`,
  but `val_to_dword` has four entries. No caller in the repository passes 4.
- **Concurrent `shadow_copy_range` and `shadow_replace_special`.**
  - These are planned as actions of `ShadowTable`.
  - Today they are only in the sequential `RangeOps`.
- **Non-atomic memset.** A memset racing a neighbour's `uint` store is not
  split into steps. The lost update it would show is already shown by
  `table_races`.
- **Left out deliberately.** These are code generation and I/O, with no
  state to check:
  - `shadow_gen_translation_addr`, `opnd_create_shadow_*` and
    `shadow_translation_addr`;
  - the table displacement encoding (PR 553724);
  - redzones;
  - logging and statistics;
  - the output text of the robocheck logger (only lengths are modelled);
  - `rbc_api.c`, a second copy of `log_message` (with an extra newline),
    `make_comm_string` and the memory wrappers, for a build with an extern
    `FileLogger`: its behaviour is the one modelled from `rbc_utils.c`;
  - the calling order of `init_robocheck`, `close_robocheck` and logging,
    set by tools outside the repository: the model lets any order happen,
    but states no property about writes to a closed stream;
  - in drsyms, `drsym_obj_dwarf_init` (it only hands the ELF handle to
    libdwarf), `drsym_obj_same_file` (two `stat` calls) and
    `drsym_obj_debug_path` (a constant string);
  - malformed ELF files. The model's files have readable section names and
    well-formed symbol tables. A NULL section name (`strcmp` on NULL at
    line 128) or `sh_entsize` 0 (a division by zero at line 210) crashes,
    and the model does not represent crashes;
  - the call order of `drsym_obj_init`, `mod_init_pre`, `mod_init_post` and
    the queries, which `drsyms_unix.c` (not in the repository) sets: the
    model allows any order, and `SymbolLookupMatchesFile` is stated after
    `init_post`;
  - the test programs.
