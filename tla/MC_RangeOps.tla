------------------------------ MODULE MC_RangeOps ------------------------------
(***************************************************************************)
(* Instances of RangeOps for TLC: three units of 8 bytes, uints of 4 bytes *)
(* and shadow bytes of 2 application bytes.  The calls reach every branch  *)
(* of the writers: a whole special unit swapped, a memset run in a private *)
(* unit, bytes set one at a time from an odd start, a promotion, a write   *)
(* of a unit's own value, a copy of special onto special, a byte copy and  *)
(* a replace.                                                              *)
(***************************************************************************)
EXTENDS RangeOps

D == SHADOW_DEFINED
U == SHADOW_UNDEFINED

SetByteCall(a, v) == [kind |-> "set_byte", addr |-> a, val |-> v]
SetRangeCall(s, e, v) == [kind |-> "set_range", start |-> s, end |-> e, val |-> v]
CopyRangeCall(o, n, z) == [kind |-> "copy_range", old |-> o, new |-> n, size |-> z]
ReplaceCall(a) == [kind |-> "replace_special", addr |-> a]

CallsCore ==
    {SetRangeCall(8, 16, D), SetRangeCall(3, 13, U), SetByteCall(9, U),
     SetByteCall(17, D), SetByteCall(20, SHADOW_UNADDRESSABLE),
     CopyRangeCall(2, 14, 6), ReplaceCall(20)}

\* A realloc that moves a defined unit onto an unaddressable one.
CallsCopyUnit == {SetRangeCall(8, 16, D), CopyRangeCall(8, 16, 8)}

\* A realloc that moves an object up by two bytes over itself.
CallsCopyOverlap == {SetByteCall(1, U), CopyRangeCall(0, 2, 4)}

\* Both copies in one run.
CallsCopy == CallsCopyUnit \cup CallsCopyOverlap
=============================================================================
