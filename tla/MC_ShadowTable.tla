---------------------------- MODULE MC_ShadowTable ----------------------------
(***************************************************************************)
(* Instances of ShadowTable for TLC: two threads, two units of 8 bytes,   *)
(* uints of 4 bytes and shadow bytes of 2 application bytes, so a unit has *)
(* two uints and each uint two shadow bytes, and every path of            *)
(* shadow_set_range (special swap, memset, byte fallback on an unaligned  *)
(* or special start) is reachable.                                         *)
(***************************************************************************)
EXTENDS ShadowTable, TLC

CONSTANTS t1, t2

D == SHADOW_DEFINED
U == SHADOW_UNDEFINED

SetByteOp(a, v) == [kind |-> "byte", start |-> a, end |-> a + 1, val |-> v]
SetRangeOp(s, e, v) == [kind |-> "range", start |-> s, end |-> e, val |-> v]
GetSpecialOp(a) == [kind |-> "special", start |-> a, end |-> a, val |-> D]

(* The application is race free and its threads' objects do not share a  *)
(* uint of shadow: t1 writes and queries bytes 0..3 (first uint of unit 0) *)
(* and all of unit 1, t2 writes bytes 4..7 (second uint of unit 0).  Both  *)
(* units start special, so both threads race to promote unit 0, and t1's  *)
(* shadow_get_special of byte 1 may straddle t2's promotion.               *)
WorkDisjoint ==
    t1 :> {SetByteOp(1, U), SetRangeOp(0, 3, D), SetRangeOp(8, 16, D),
           SetByteOp(9, U), GetSpecialOp(1)}
    @@ t2 :> {SetByteOp(5, D), SetRangeOp(4, 8, U), SetRangeOp(5, 8, D)}

(* Racing writers: both threads write anywhere in unit 0, including whole *)
(* unit ranges (an mmap or munmap on one thread while another writes in    *)
(* the same unit).                                                         *)
WorkRacy ==
    t1 :> {SetRangeOp(0, 8, D), SetByteOp(1, U), SetByteOp(6, U)}
    @@ t2 :> {SetRangeOp(0, 8, U), SetByteOp(6, D), SetByteOp(2, D)}

(* Race free at the application level, but t1's byte 1 and t2's byte 2    *)
(* share the first uint of unit 0 (two heap objects packed closer than     *)
(* BITMAPx2_UNIT application bytes).                                       *)
WorkSharedWord ==
    t1 :> {SetByteOp(1, U)}
    @@ t2 :> {SetByteOp(2, U), SetByteOp(2, D)}

(* The stale fill alone: t1 swaps the whole of unit 0 while t2, which     *)
(* writes one byte of another uint, promotes it.                           *)
WorkStaleFill ==
    t1 :> {SetRangeOp(0, 8, D)}
    @@ t2 :> {SetByteOp(6, U)}
=============================================================================
