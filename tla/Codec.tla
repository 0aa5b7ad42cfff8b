-------------------------------- MODULE Codec --------------------------------
(***************************************************************************)
(* The packed encoding of a private shadow block in drmemory/shadow.c.    *)
(* A block is an array of uints; the uint at BITMAPx2_IDX(i) holds the    *)
(* two bits of application byte i at BITMAPx2_SHIFT(i), so each byte of   *)
(* the array (little endian) holds four application bytes, and            *)
(* shadow_set_range memsets that byte array directly.  The readers decode *)
(* the same bits through bitmapx2_get, bitmapx2_byte and the lookup        *)
(* tables, bitmapx2_dword and dqword_to_val.                               *)
(*                                                                         *)
(* A uint is scaled to 16 bits (8 application bytes, 2 array bytes); the  *)
(* shadow byte keeps its real 8 bits, so SHADOW_GRANULARITY stays 4 and    *)
(* the byte tables are the code's own.  The ghost view holds the value    *)
(* each application byte was last given.                                   *)
(***************************************************************************)
EXTENDS TwoBits, FiniteSets

CONSTANTS
    NUints,      \* uints in the block
    SetIdx,      \* offsets written by bitmapx2_set
    Ranges,      \* <<pc, end>> of the memset path of shadow_set_range
    MaxWrites    \* bound on the writes

SHADOW_DEFINED == 0
SHADOW_UNADDRESSABLE == 1
SHADOW_DEFINED_BITLEVEL == 2
SHADOW_UNDEFINED == 3
Vals == 0 .. 3

BITMAPx2_UNIT == 8          \* application bytes per uint (16 at 32 bits)
UintBytes == 2              \* sizeof(uint) (4 at 32 bits)
SHADOW_GRANULARITY == 4     \* application bytes per shadow byte
ALLOC_UNIT == NUints * BITMAPx2_UNIT
Offsets == 0 .. ALLOC_UNIT - 1
UINT_MAX == UMod - 1

\* val_to_dword and val_to_dqword, filled by shadow_table_init.
val_to_dword == [v \in Vals |-> v * \h55]
val_to_dqword == [v \in Vals |-> v * ((UMod - 1) \div 3)]

BITMAPx2_SHIFT(i) == (i % BITMAPx2_UNIT) * 2
BITMAPx2_IDX(i) == i \div BITMAPx2_UNIT
BLOCK_AS_BYTE_ARRAY_IDX(i) == BITMAPx2_IDX(i * UintBytes)

bitmapx2_get(bm, i) == shiftR(bm[BITMAPx2_IDX(i)], BITMAPx2_SHIFT(i)) & 3

bitmapx2_set(bm, i, val) ==
    [bm EXCEPT ![BITMAPx2_IDX(i)] = set_2bits_inline(@, val, BITMAPx2_SHIFT(i))]

bitmapx2_byte(bm, i) == shiftR(bm[BITMAPx2_IDX(i)], BITMAPx2_SHIFT(i)) & 255

bitmapx2_dword(bm, i) == bm[BITMAPx2_IDX(i)]

\* The block as a byte array: byte b lies in uint b \div UintBytes, least
\* significant byte first (x86).
ByteAt(bm, b) == (bm[b \div UintBytes] \div 256^(b % UintBytes)) % 256

StoreByte(bm, b, x) ==
    LET w == 256^(b % UintBytes) IN
    [bm EXCEPT ![b \div UintBytes] = @ - ByteAt(bm, b) * w + x * w]

\* memset(bytes + b, x, n).
RECURSIVE memset(_, _, _, _)
memset(bm, b, x, n) ==
    IF n = 0 THEN bm ELSE memset(StoreByte(bm, b, x), b + 1, x, n - 1)

\* Variant: the bitlevel dqword is not recognised.
dqword_to_val_nobitlevel(dqword) ==
    CASE dqword = val_to_dqword[SHADOW_UNADDRESSABLE] -> SHADOW_UNADDRESSABLE
      [] dqword = val_to_dqword[SHADOW_UNDEFINED] -> SHADOW_UNDEFINED
      [] dqword = val_to_dqword[SHADOW_DEFINED] -> SHADOW_DEFINED
      [] OTHER -> UINT_MAX

dqword_to_val(dqword) ==
    CASE dqword = val_to_dqword[SHADOW_UNADDRESSABLE] -> SHADOW_UNADDRESSABLE
      [] dqword = val_to_dqword[SHADOW_UNDEFINED] -> SHADOW_UNDEFINED
      [] dqword = val_to_dqword[SHADOW_DEFINED] -> SHADOW_DEFINED
      [] dqword = val_to_dqword[SHADOW_DEFINED_BITLEVEL] -> SHADOW_DEFINED_BITLEVEL
      [] OTHER -> UINT_MAX

-----------------------------------------------------------------------------
VARIABLES
    bm,       \* the block: bm[k] is its k-th uint
    view,     \* ghost: view[i], the value application byte i was last given
    nwrites   \* writes so far

vars == <<bm, view, nwrites>>

\* shadow_set_byte promoting a special unit: memset(block, dwordval,
\* sizeof(*block)) over whatever global_alloc returned.
Init ==
    \E v \in Vals, junk \in {0, UMod - 1} :
        /\ bm = memset([k \in 0 .. NUints - 1 |-> junk], 0, val_to_dword[v],
                       NUints * UintBytes)
        /\ view = [i \in Offsets |-> v]
        /\ nwrites = 0

\* The store at the end of shadow_set_byte on a private block.
SetByte(i, val) ==
    /\ nwrites < MaxWrites
    /\ bm' = bitmapx2_set(bm, i % ALLOC_UNIT, val)
    /\ view' = [view EXCEPT ![i] = val]
    /\ nwrites' = nwrites + 1

\* The end of the memset run of shadow_set_range starting at pc.
SetEnd(pc, end) ==
    LET block_end == (pc \div ALLOC_UNIT + 1) * ALLOC_UNIT
        set_end == IF block_end < end THEN block_end ELSE end
    IN  set_end - (set_end % SHADOW_GRANULARITY)

\* Variant: the byte offset into the array is taken from pc alone, without
\* the uint the run starts in.
SetRangeMemset_noarray(pc, end, val) ==
    /\ nwrites < MaxWrites
    /\ pc % SHADOW_GRANULARITY = 0
    /\ SetEnd(pc, end) > pc
    /\ bm' = memset(bm, (pc % BITMAPx2_UNIT) \div SHADOW_GRANULARITY,
                    val_to_dword[val], (SetEnd(pc, end) - pc) \div SHADOW_GRANULARITY)
    /\ view' = [i \in Offsets |-> IF pc <= i /\ i < SetEnd(pc, end) THEN val ELSE view[i]]
    /\ nwrites' = nwrites + 1

\* The memset path of shadow_set_range on a private block, from pc.
SetRangeMemset(pc, end, val) ==
    LET array_start == BITMAPx2_IDX(pc % ALLOC_UNIT) * UintBytes
        memset_start == array_start + (pc % BITMAPx2_UNIT) \div SHADOW_GRANULARITY
        set_end == SetEnd(pc, end)
    IN
    /\ nwrites < MaxWrites
    /\ pc % SHADOW_GRANULARITY = 0
    /\ set_end > pc
    /\ bm' = memset(bm, memset_start, val_to_dword[val],
                    (set_end - pc) \div SHADOW_GRANULARITY)
    /\ view' = [i \in Offsets |-> IF pc <= i /\ i < set_end THEN val ELSE view[i]]
    /\ nwrites' = nwrites + 1

Done ==
    /\ nwrites = MaxWrites
    /\ UNCHANGED vars

Next ==
    \/ \E i \in SetIdx, v \in Vals : SetByte(i, v)
    \/ \E r \in Ranges, v \in Vals : SetRangeMemset(r[1], r[2], v)
    \/ Done

Spec == Init /\ [][Next]_vars

-----------------------------------------------------------------------------
(* The lookup tables of shadow.c.  A table of 0s and 1s is given by its   *)
(* sixteen source rows, each written as a binary literal whose digits are *)
(* the row's entries in source order.                                     *)

\* Entry x of a 0/1 table given by its rows.
Bit01(rows, x) == (rows[(x \div 16) + 1] \div 2^(15 - (x % 16))) % 2
Table01(rows) == [x \in 0 .. 255 |-> Bit01(rows, x)]

shadow_dword_is_addressable == Table01(
    <<\b1011000010111011, \b0000000000000000, \b1011000010111011, \b1011000010111011,
       \b0000000000000000, \b0000000000000000, \b0000000000000000, \b0000000000000000,
       \b1011000010111011, \b0000000000000000, \b1011000010111011, \b1011000010111011,
       \b1011000010111011, \b0000000000000000, \b1011000010111011, \b1011000010111011>>)

shadow_dword_is_addr_not_bit == Table01(
    <<\b1001000000001001, \b0000000000000000, \b0000000000000000, \b1001000000001001,
       \b0000000000000000, \b0000000000000000, \b0000000000000000, \b0000000000000000,
       \b0000000000000000, \b0000000000000000, \b0000000000000000, \b0000000000000000,
       \b1001000000001001, \b0000000000000000, \b0000000000000000, \b1001000000001001>>)

shadow_byte_defined_rows == <<
    <<\b1000100010001000, \b1000100010001000, \b1000100010001000, \b1000100010001000,
       \b1000100010001000, \b1000100010001000, \b1000100010001000, \b1000100010001000,
       \b1000100010001000, \b1000100010001000, \b1000100010001000, \b1000100010001000,
       \b1000100010001000, \b1000100010001000, \b1000100010001000, \b1000100010001000>>,
    <<\b1111000000000000, \b1111000000000000, \b1111000000000000, \b1111000000000000,
       \b1111000000000000, \b1111000000000000, \b1111000000000000, \b1111000000000000,
       \b1111000000000000, \b1111000000000000, \b1111000000000000, \b1111000000000000,
       \b1111000000000000, \b1111000000000000, \b1111000000000000, \b1111000000000000>>,
    <<\b1111111111111111, \b0000000000000000, \b0000000000000000, \b0000000000000000,
       \b1111111111111111, \b0000000000000000, \b0000000000000000, \b0000000000000000,
       \b1111111111111111, \b0000000000000000, \b0000000000000000, \b0000000000000000,
       \b1111111111111111, \b0000000000000000, \b0000000000000000, \b0000000000000000>>,
    <<\b1111111111111111, \b1111111111111111, \b1111111111111111, \b1111111111111111,
       \b0000000000000000, \b0000000000000000, \b0000000000000000, \b0000000000000000,
       \b0000000000000000, \b0000000000000000, \b0000000000000000, \b0000000000000000,
       \b0000000000000000, \b0000000000000000, \b0000000000000000, \b0000000000000000>>>>

\* Variant: offs counted from the most significant pair.
shadow_byte_defined_msbfirst == [o \in 0 .. 3 |-> Table01(shadow_byte_defined_rows[4 - o])]

shadow_byte_defined == [o \in 0 .. 3 |-> Table01(shadow_byte_defined_rows[o + 1])]

shadow_word_defined_rows == <<
    <<\b1000000000000000, \b1000000000000000, \b1000000000000000, \b1000000000000000,
       \b1000000000000000, \b1000000000000000, \b1000000000000000, \b1000000000000000,
       \b1000000000000000, \b1000000000000000, \b1000000000000000, \b1000000000000000,
       \b1000000000000000, \b1000000000000000, \b1000000000000000, \b1000000000000000>>,
    <<\b0000000000000000, \b0000000000000000, \b0000000000000000, \b0000000000000000,
       \b0000000000000000, \b0000000000000000, \b0000000000000000, \b0000000000000000,
       \b0000000000000000, \b0000000000000000, \b0000000000000000, \b0000000000000000,
       \b0000000000000000, \b0000000000000000, \b0000000000000000, \b0000000000000000>>,
    <<\b1111111111111111, \b0000000000000000, \b0000000000000000, \b0000000000000000,
       \b0000000000000000, \b0000000000000000, \b0000000000000000, \b0000000000000000,
       \b0000000000000000, \b0000000000000000, \b0000000000000000, \b0000000000000000,
       \b0000000000000000, \b0000000000000000, \b0000000000000000, \b0000000000000000>>,
    <<\b0000000000000000, \b0000000000000000, \b0000000000000000, \b0000000000000000,
       \b0000000000000000, \b0000000000000000, \b0000000000000000, \b0000000000000000,
       \b0000000000000000, \b0000000000000000, \b0000000000000000, \b0000000000000000,
       \b0000000000000000, \b0000000000000000, \b0000000000000000, \b0000000000000000>>>>

shadow_word_defined == [o \in 0 .. 3 |-> Table01(shadow_word_defined_rows[o + 1])]

shadow_byte_addr_not_bit_rows == <<
    <<\b1001100110011001, \b1001100110011001, \b1001100110011001, \b1001100110011001,
       \b1001100110011001, \b1001100110011001, \b1001100110011001, \b1001100110011001,
       \b1001100110011001, \b1001100110011001, \b1001100110011001, \b1001100110011001,
       \b1001100110011001, \b1001100110011001, \b1001100110011001, \b1001100110011001>>,
    <<\b1111000000001111, \b1111000000001111, \b1111000000001111, \b1111000000001111,
       \b1111000000001111, \b1111000000001111, \b1111000000001111, \b1111000000001111,
       \b1111000000001111, \b1111000000001111, \b1111000000001111, \b1111000000001111,
       \b1111000000001111, \b1111000000001111, \b1111000000001111, \b1111000000001111>>,
    <<\b1111111111111111, \b0000000000000000, \b0000000000000000, \b1111111111111111,
       \b1111111111111111, \b0000000000000000, \b0000000000000000, \b1111111111111111,
       \b1111111111111111, \b0000000000000000, \b0000000000000000, \b1111111111111111,
       \b1111111111111111, \b0000000000000000, \b0000000000000000, \b1111111111111111>>,
    <<\b1111111111111111, \b1111111111111111, \b1111111111111111, \b1111111111111111,
       \b0000000000000000, \b0000000000000000, \b0000000000000000, \b0000000000000000,
       \b0000000000000000, \b0000000000000000, \b0000000000000000, \b0000000000000000,
       \b1111111111111111, \b1111111111111111, \b1111111111111111, \b1111111111111111>>>>

shadow_byte_addr_not_bit == [o \in 0 .. 3 |-> Table01(shadow_byte_addr_not_bit_rows[o + 1])]

shadow_word_addr_not_bit_rows == <<
    <<\b1001000000001001, \b1001000000001001, \b1001000000001001, \b1001000000001001,
       \b1001000000001001, \b1001000000001001, \b1001000000001001, \b1001000000001001,
       \b1001000000001001, \b1001000000001001, \b1001000000001001, \b1001000000001001,
       \b1001000000001001, \b1001000000001001, \b1001000000001001, \b1001000000001001>>,
    <<\b0000000000000000, \b0000000000000000, \b0000000000000000, \b0000000000000000,
       \b0000000000000000, \b0000000000000000, \b0000000000000000, \b0000000000000000,
       \b0000000000000000, \b0000000000000000, \b0000000000000000, \b0000000000000000,
       \b0000000000000000, \b0000000000000000, \b0000000000000000, \b0000000000000000>>,
    <<\b1111111111111111, \b0000000000000000, \b0000000000000000, \b1111111111111111,
       \b0000000000000000, \b0000000000000000, \b0000000000000000, \b0000000000000000,
       \b0000000000000000, \b0000000000000000, \b0000000000000000, \b0000000000000000,
       \b1111111111111111, \b0000000000000000, \b0000000000000000, \b1111111111111111>>,
    <<\b0000000000000000, \b0000000000000000, \b0000000000000000, \b0000000000000000,
       \b0000000000000000, \b0000000000000000, \b0000000000000000, \b0000000000000000,
       \b0000000000000000, \b0000000000000000, \b0000000000000000, \b0000000000000000,
       \b0000000000000000, \b0000000000000000, \b0000000000000000, \b0000000000000000>>>>

shadow_word_addr_not_bit == [o \in 0 .. 3 |-> Table01(shadow_word_addr_not_bit_rows[o + 1])]

shadow_2_to_dword == LET rows == <<
        <<0, \h55, \haa, \hff, \h55, 0, 0, 0, \haa, 0, 0, 0, \hff, 0, 0, 0>>,
        <<\h55, 0, 0, 0, 0, 0, 0, 0, 0, 0, 0, 0, 0, 0, 0, 0>>,
        <<\haa, 0, 0, 0, 0, 0, 0, 0, 0, 0, 0, 0, 0, 0, 0, 0>>,
        <<\hff, 0, 0, 0, 0, 0, 0, 0, 0, 0, 0, 0, 0, 0, 0, 0>>,
        <<\h55, 0, 0, 0, 0, 0, 0, 0, 0, 0, 0, 0, 0, 0, 0, 0>>,
        <<0, 0, 0, 0, 0, 0, 0, 0, 0, 0, 0, 0, 0, 0, 0, 0>>,
        <<0, 0, 0, 0, 0, 0, 0, 0, 0, 0, 0, 0, 0, 0, 0, 0>>,
        <<0, 0, 0, 0, 0, 0, 0, 0, 0, 0, 0, 0, 0, 0, 0, 0>>,
        <<\haa, 0, 0, 0, 0, 0, 0, 0, 0, 0, 0, 0, 0, 0, 0, 0>>,
        <<0, 0, 0, 0, 0, 0, 0, 0, 0, 0, 0, 0, 0, 0, 0, 0>>,
        <<0, 0, 0, 0, 0, 0, 0, 0, 0, 0, 0, 0, 0, 0, 0, 0>>,
        <<0, 0, 0, 0, 0, 0, 0, 0, 0, 0, 0, 0, 0, 0, 0, 0>>,
        <<\hff, 0, 0, 0, 0, 0, 0, 0, 0, 0, 0, 0, 0, 0, 0, 0>>,
        <<0, 0, 0, 0, 0, 0, 0, 0, 0, 0, 0, 0, 0, 0, 0, 0>>,
        <<0, 0, 0, 0, 0, 0, 0, 0, 0, 0, 0, 0, 0, 0, 0, 0>>,
        <<0, 0, 0, 0, 0, 0, 0, 0, 0, 0, 0, 0, 0, 0, 0, 0>>>>
    IN  [x \in 0 .. 255 |-> rows[(x \div 16) + 1][(x % 16) + 1]]

shadow_4_to_dword == LET rows == <<
        <<0, \h01, \h02, \h03, \h54, \h55, \h56, \h57, \ha8, \ha9, \haa, \hab, \hfc, \hfd, \hfe, \hff>>,
        <<\h01, \haa, \haa, \haa, \haa, \haa, \haa, \haa, \haa, \haa, \haa, \haa, \haa, \haa, \haa, \haa>>,
        <<\h02, \haa, \haa, \haa, \haa, \haa, \haa, \haa, \haa, \haa, \haa, \haa, \haa, \haa, \haa, \haa>>,
        <<\h03, \haa, \haa, \haa, \haa, \haa, \haa, \haa, \haa, \haa, \haa, \haa, \haa, \haa, \haa, \haa>>,
        <<\h54, \haa, \haa, \haa, \haa, \haa, \haa, \haa, \haa, \haa, \haa, \haa, \haa, \haa, \haa, \haa>>,
        <<\h55, \haa, \haa, \haa, \haa, \haa, \haa, \haa, \haa, \haa, \haa, \haa, \haa, \haa, \haa, \haa>>,
        <<\h56, \haa, \haa, \haa, \haa, \haa, \haa, \haa, \haa, \haa, \haa, \haa, \haa, \haa, \haa, \haa>>,
        <<\h57, \haa, \haa, \haa, \haa, \haa, \haa, \haa, \haa, \haa, \haa, \haa, \haa, \haa, \haa, \haa>>,
        <<\ha8, \haa, \haa, \haa, \haa, \haa, \haa, \haa, \haa, \haa, \haa, \haa, \haa, \haa, \haa, \haa>>,
        <<\ha9, \haa, \haa, \haa, \haa, \haa, \haa, \haa, \haa, \haa, \haa, \haa, \haa, \haa, \haa, \haa>>,
        <<\haa, \haa, \haa, \haa, \haa, \haa, \haa, \haa, \haa, \haa, \haa, \haa, \haa, \haa, \haa, \haa>>,
        <<\hab, \haa, \haa, \haa, \haa, \haa, \haa, \haa, \haa, \haa, \haa, \haa, \haa, \haa, \haa, \haa>>,
        <<\hfc, \haa, \haa, \haa, \haa, \haa, \haa, \haa, \haa, \haa, \haa, \haa, \haa, \haa, \haa, \haa>>,
        <<\hfd, \haa, \haa, \haa, \haa, \haa, \haa, \haa, \haa, \haa, \haa, \haa, \haa, \haa, \haa, \haa>>,
        <<\hfe, \haa, \haa, \haa, \haa, \haa, \haa, \haa, \haa, \haa, \haa, \haa, \haa, \haa, \haa, \haa>>,
        <<\hff, \haa, \haa, \haa, \haa, \haa, \haa, \haa, \haa, \haa, \haa, \haa, \haa, \haa, \haa, \haa>>>>
    IN  [x \in 0 .. 255 |-> rows[(x \div 16) + 1][(x % 16) + 1]]

-----------------------------------------------------------------------------
(* Properties.                                                             *)

\* The value every byte of uint k has, or UINT_MAX if they differ.
UniformOf(k) ==
    LET bytes == {view[i] : i \in k * BITMAPx2_UNIT .. (k + 1) * BITMAPx2_UNIT - 1}
    IN  IF Cardinality(bytes) = 1 THEN CHOOSE v \in bytes : TRUE ELSE UINT_MAX

(* After any mix of shadow_set_byte stores (set_2bits_inline on a uint)    *)
(* and shadow_set_range memsets (byte stores into the same array, at the  *)
(* offset array_start + (pc % BITMAPx2_UNIT) / SHADOW_GRANULARITY), every  *)
(* reader decodes the values last written: bitmapx2_get per byte;         *)
(* dqword_to_val of bitmapx2_dword, as shadow_check_range and             *)
(* shadow_next_dword use it, per uint; and the byte array at              *)
(* BLOCK_AS_BYTE_ARRAY_IDX, which shadow_next_dword reads, holds the byte  *)
(* bitmapx2_byte extracts.                                                 *)
ReadersAgreeWithView ==
    /\ \A i \in Offsets : bitmapx2_get(bm, i) = view[i]
    /\ \A k \in 0 .. NUints - 1 :
          dqword_to_val(bitmapx2_dword(bm, k * BITMAPx2_UNIT)) = UniformOf(k)
    /\ \A i \in Offsets : i % SHADOW_GRANULARITY = 0 =>
          ByteAt(bm, BLOCK_AS_BYTE_ARRAY_IDX(i)) = bitmapx2_byte(bm, i)

(* Every lookup table, indexed by a shadow byte of the block, answers what *)
(* its comment says of the four application bytes that byte shadows.      *)
(* shadow_byte_* and shadow_word_* select by offs the byte (or the two     *)
(* bytes from offs, offs being 0 or 2).  shadow_2_to_dword expands a byte  *)
(* with one non-zero pair to the dword of that value; shadow_4_to_dword    *)
(* expands a 4-bit sequence in either half, its higher pair propagating,  *)
(* and gives 0xaa when both halves are set.                                *)
TablesMatchTheirRules ==
    \A i \in Offsets : i % SHADOW_GRANULARITY = 0 =>
    LET b == bitmapx2_byte(bm, i)
        V(o) == view[i + o]
        AddrNotBit(o) == V(o) \in {SHADOW_DEFINED, SHADOW_UNDEFINED}
        lo == V(0) + 4 * V(1)
        hi == V(2) + 4 * V(3)
        Expand4(n) == n + 80 * (n \div 4)
    IN
    /\ shadow_dword_is_addressable[b] = 1 <=> \A o \in 0 .. 3 : V(o) /= SHADOW_UNADDRESSABLE
    /\ shadow_dword_is_addr_not_bit[b] = 1 <=> \A o \in 0 .. 3 : AddrNotBit(o)
    /\ \A o \in 0 .. 3 :
          /\ shadow_byte_defined[o][b] = 1 <=> V(o) = SHADOW_DEFINED
          /\ shadow_byte_addr_not_bit[o][b] = 1 <=> AddrNotBit(o)
    /\ \A o \in {0, 2} :
          /\ shadow_word_defined[o][b] = 1 <=> V(o) = SHADOW_DEFINED /\ V(o + 1) = SHADOW_DEFINED
          /\ shadow_word_addr_not_bit[o][b] = 1 <=> AddrNotBit(o) /\ AddrNotBit(o + 1)
    /\ \A k \in 0 .. 3 :
          (\A j \in (0 .. 3) \ {k} : V(j) = 0) => shadow_2_to_dword[b] = val_to_dword[V(k)]
    /\ shadow_4_to_dword[b] = IF lo /= 0 /\ hi /= 0 THEN \haa ELSE Expand4(lo + hi)
=============================================================================
