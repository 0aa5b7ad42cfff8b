------------------------------- MODULE TwoBits -------------------------------
(***************************************************************************)
(* set_2bits_inline of drmemory/shadow.c on uints.  Every caller modelled  *)
(* keeps at most the low 16 bits of the result (a register shadow byte, or *)
(* a uint of a block scaled to 16 bits), and &, |, ~ and << never move a   *)
(* bit to a lower position, so the 32-bit arithmetic is done modulo        *)
(* 2^UintBits with UintBits = 16, which TLC's integers hold (0xfffffffc   *)
(* and 0xffffffff are taken modulo it).                                    *)
(***************************************************************************)
EXTENDS Integers, Bitwise

UintBits == 16
UMod == 2^UintBits
Shl(x, s) == (x * 2^s) % UMod
NotU(x) == (UMod - 1) - x
ALL_ONES == UMod - 1       \* 0xffffffff
ALL_BUT_LOW2 == UMod - 4   \* 0xfffffffc

set_2bits_inline(orig, val, shift) ==
    LET cleared == orig & (Shl(ALL_BUT_LOW2 | val, shift) | NotU(Shl(ALL_ONES, shift)))
    IN  cleared | Shl(val, shift)
=============================================================================
