----------------------------- MODULE ShadowLayout -----------------------------
(***************************************************************************)
(* Layout shared by the models of drmemory/shadow.c: the shadow values,    *)
(* the split of the address space into table units, the alignment macros *)
(* and the slot encoding (special block of a value, or private block).    *)
(*                                                                         *)
(* Sizes are scaled down: UnitSize stands for ALLOC_UNIT (64K), WordBytes  *)
(* for BITMAPx2_UNIT (16 application bytes per uint of a block) and        *)
(* Granularity for SHADOW_GRANULARITY (4 application bytes per shadow      *)
(* byte, the "dword" of shadow_next_dword).                                *)
(***************************************************************************)
EXTENDS Integers

CONSTANTS
    NUnits,       \* TABLE_ENTRIES
    UnitSize,     \* ALLOC_UNIT: application bytes per table slot
    WordBytes,    \* BITMAPx2_UNIT: application bytes shadowed by one uint
    Granularity   \* SHADOW_GRANULARITY: application bytes per shadow byte

ASSUME /\ Granularity > 0 /\ WordBytes % Granularity = 0
       /\ UnitSize % WordBytes = 0 /\ NUnits > 0

\* Shadow values, in the order of shadow_name[] (0 DEFINED, 1 UNADDRESSABLE,
\* 2 BITLEVEL, 3 UNDEFINED).
SHADOW_DEFINED == 0
SHADOW_UNADDRESSABLE == 1
SHADOW_DEFINED_BITLEVEL == 2
SHADOW_UNDEFINED == 3
Vals == {SHADOW_DEFINED, SHADOW_UNADDRESSABLE, SHADOW_DEFINED_BITLEVEL,
         SHADOW_UNDEFINED}

Units == 0 .. NUnits - 1
AddrEnd == NUnits * UnitSize
Addr == 0 .. AddrEnd - 1
Offsets == 0 .. UnitSize - 1

TABLE_IDX(a) == a \div UnitSize
ADDR_OF_BASE(u) == u * UnitSize
Offset(a) == a % UnitSize
ALIGNED(x, n) == x % n = 0
ALIGN_BACKWARD(x, n) == x - (x % n)
ALIGN_FORWARD(x, n) == ALIGN_BACKWARD(x + n - 1, n)

\* Offsets sharing the uint of offset o (BITMAPx2_IDX).
WordOf(o) == {x \in Offsets : x \div WordBytes = o \div WordBytes}

\* A slot or block pointer: one of the four special blocks, or a private one.
Special(v) == [kind |-> "special", ref |-> v]
Private(i) == [kind |-> "private", ref |-> i]

block_is_special(b) == b.kind = "special"

\* Variant: val_to_special without its SHADOW_DEFINED case (returns NULL).
val_to_special_nodefined(v) ==
    IF v = SHADOW_DEFINED THEN [kind |-> "null", ref |-> 0] ELSE Special(v)

val_to_special(v) == Special(v)

\* Variant: the memset run not clamped to the end of the range.
SetEnd_unclamped(p, e) == ALIGN_BACKWARD(ALIGN_FORWARD(p + 1, UnitSize), Granularity)

\* End of the memset run of shadow_set_range from p in a range ending at e.
SetEnd(p, e) ==
    LET blockEnd == ALIGN_FORWARD(p + 1, UnitSize)
    IN  ALIGN_BACKWARD(IF blockEnd < e THEN blockEnd ELSE e, Granularity)
=============================================================================
