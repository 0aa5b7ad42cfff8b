------------------------------- MODULE RangeOps -------------------------------
(***************************************************************************)
(* The range operations of drmemory/shadow.c, one caller at a time:        *)
(* shadow_set_byte, shadow_set_range, shadow_copy_range and                *)
(* shadow_replace_special change the table; shadow_check_range,            *)
(* shadow_check_range_backward, shadow_next_dword and shadow_prev_dword    *)
(* read it.  Each loop of the code is a RECURSIVE operator over the shadow *)
(* state st = [table, heap, nalloc], one call per iteration, with the same *)
(* branches in the same order as the code.  A step of the model is one     *)
(* whole call; the read-only operations are checked in every reachable     *)
(* state for every argument, against reference definitions.                *)
(***************************************************************************)
EXTENDS ShadowLayout, FiniteSetsExt

CONSTANTS
    Calls,      \* the calls the application may make
    MaxCalls    \* bound on the number of calls in a behaviour

NULL == -1          \* a NULL app_pc result
NotUniform == -1    \* dqword_to_val's UINT_MAX: the uint is not uniform

VARIABLES
    table,    \* shadow_table[]
    heap,     \* heap[i][o]: private block i, for i in 1..nalloc
    nalloc,   \* private blocks allocated so far
    last,     \* the last call made
    ncalls    \* calls made so far

vars == <<table, heap, nalloc, last, ncalls>>

St == [table |-> table, heap |-> heap, nalloc |-> nalloc]

\* bitmapx2_get on block b.
BlockByte(st, b, o) == IF block_is_special(b) THEN b.ref ELSE st.heap[b.ref][o]

shadow_get_byte(st, a) == BlockByte(st, st.table[TABLE_IDX(a)], Offset(a))

\* What shadow_get_byte answers for every byte.
View(st) == [a \in Addr |-> shadow_get_byte(st, a)]

-----------------------------------------------------------------------------
(* Writers.                                                                *)

\* Allocate a private block filled with val_to_dword[blockval] for unit u.
Promote(st, u, blockval) ==
    LET id == st.nalloc + 1 IN
    [table |-> [st.table EXCEPT ![u] = Private(id)],
     heap |-> [i \in 1 .. id |-> IF i = id THEN [o \in Offsets |-> blockval]
                                 ELSE st.heap[i]],
     nalloc |-> id]

\* bitmapx2_set in the (private) block of a.
WriteByte(st, a, v) ==
    [st EXCEPT !.heap[st.table[TABLE_IDX(a)].ref][Offset(a)] = v]

\* Variant: a promoted block filled with the new value, not the unit's.
shadow_set_byte_fillnew(st, a, v) ==
    LET u == TABLE_IDX(a)
        blockval == shadow_get_byte(st, a)
    IN  IF ~block_is_special(st.table[u]) THEN WriteByte(st, a, v)
        ELSE IF v = blockval THEN st
        ELSE WriteByte(Promote(st, u, v), a, v)

shadow_set_byte(st, a, v) ==
    LET u == TABLE_IDX(a)
        blockval == shadow_get_byte(st, a)
    IN  IF ~block_is_special(st.table[u]) THEN WriteByte(st, a, v)
        ELSE IF v = blockval THEN st
        ELSE WriteByte(Promote(st, u, blockval), a, v)

\* shadow_set_special: only a special slot is swapped.
shadow_set_special(st, a, v) ==
    IF block_is_special(st.table[TABLE_IDX(a)])
    THEN [st EXCEPT !.table[TABLE_IDX(a)] = val_to_special(v)]
    ELSE st

\* The memset of shadow_set_range over [p, e) in the block of p.
Memset(st, p, e, v) ==
    [st EXCEPT !.heap[st.table[TABLE_IDX(p)].ref] =
        [o \in Offsets |-> IF Offset(p) <= o /\ o < Offset(p) + (e - p) THEN v ELSE @[o]]]

\* Variant: the whole-unit test written as end - pc > ALLOC_UNIT.
RECURSIVE SetRangeFrom_gt(_, _, _, _, _)
SetRangeFrom_gt(st, pc, start, end, v) ==
    IF ~(pc < end /\ pc >= start) THEN st
    ELSE LET b == st.table[TABLE_IDX(pc)] IN
         IF block_is_special(b) /\ ALIGNED(pc, UnitSize) /\ end - pc > UnitSize
         THEN SetRangeFrom_gt(shadow_set_special(st, pc, v), pc + UnitSize, start, end, v)
         ELSE IF ~block_is_special(b) /\ ALIGNED(pc, Granularity) /\ SetEnd(pc, end) > pc
         THEN SetRangeFrom_gt(Memset(st, pc, SetEnd(pc, end), v), SetEnd(pc, end),
                              start, end, v)
         ELSE SetRangeFrom_gt(shadow_set_byte(st, pc, v), pc + 1, start, end, v)

\* One iteration of the shadow_set_range loop per call.
RECURSIVE SetRangeFrom(_, _, _, _, _)
SetRangeFrom(st, pc, start, end, v) ==
    IF ~(pc < end /\ pc >= start) THEN st
    ELSE LET b == st.table[TABLE_IDX(pc)] IN
         IF block_is_special(b) /\ ALIGNED(pc, UnitSize) /\ end - pc >= UnitSize
         THEN SetRangeFrom(shadow_set_special(st, pc, v), pc + UnitSize, start, end, v)
         ELSE IF ~block_is_special(b) /\ ALIGNED(pc, Granularity) /\ SetEnd(pc, end) > pc
         THEN SetRangeFrom(Memset(st, pc, SetEnd(pc, end), v), SetEnd(pc, end),
                           start, end, v)
         ELSE SetRangeFrom(shadow_set_byte(st, pc, v), pc + 1, start, end, v)

shadow_set_range(st, start, end, v) == SetRangeFrom(st, start, start, end, v)

\* One iteration of the shadow_copy_range loop per call.  When both units
\* are special the code calls shadow_get_special(pc, &val) and then
\* shadow_get_special(new_pc, &val): val ends up holding the destination's
\* value, and that is what shadow_set_special installs.
RECURSIVE CopyFrom(_, _, _, _, _)
CopyFrom(st, pc, old, new, size) ==
    IF ~(pc < old + size) THEN st
    ELSE LET npc == (pc - old) + new IN
         IF /\ ALIGNED(pc, UnitSize) /\ ALIGNED(npc, UnitSize)
            /\ old + size - pc >= UnitSize
            /\ block_is_special(st.table[TABLE_IDX(pc)])
            /\ block_is_special(st.table[TABLE_IDX(npc)])
         THEN CopyFrom(shadow_set_special(st, npc, shadow_get_byte(st, npc)),
                       pc + UnitSize, old, new, size)
         ELSE CopyFrom(shadow_set_byte(st, npc, shadow_get_byte(st, pc)),
                       pc + 1, old, new, size)

shadow_copy_range(st, old, new, size) == CopyFrom(st, old, old, new, size)

\* shadow_replace_special: write another value and the old one back, so a
\* special unit is replaced by a private block with the same contents.
shadow_replace_special(st, a) ==
    LET val == shadow_get_byte(st, a) IN
    shadow_set_byte(shadow_set_byte(st, a, IF val = SHADOW_DEFINED THEN SHADOW_UNDEFINED
                                           ELSE SHADOW_DEFINED), a, val)

-----------------------------------------------------------------------------
(* Readers.                                                                *)

\* dqword_to_val on the uint holding pc: its value if uniform.
dqword_to_val(st, pc) ==
    LET b == st.table[TABLE_IDX(pc)]
        ws == WordOf(Offset(pc))
        vs == {v \in Vals : \A o \in ws : BlockByte(st, b, o) = v}
    IN  IF vs = {} THEN NotUniform ELSE CHOOSE v \in vs : TRUE

\* Variant: a special unit skipped by a whole ALLOC_UNIT from any pc.
CheckStep_fullunit(st, pc) ==
    IF ~ALIGNED(pc, WordBytes) THEN <<shadow_get_byte(st, pc), 1>>
    ELSE IF block_is_special(st.table[TABLE_IDX(pc)])
    THEN <<shadow_get_byte(st, pc), UnitSize>>
    ELSE IF dqword_to_val(st, pc) = NotUniform THEN <<shadow_get_byte(st, pc), 1>>
    ELSE <<dqword_to_val(st, pc), WordBytes>>

\* The value and increment of one iteration of shadow_check_range at pc.
CheckStep(st, pc) ==
    IF ~ALIGNED(pc, WordBytes) THEN <<shadow_get_byte(st, pc), 1>>
    ELSE IF block_is_special(st.table[TABLE_IDX(pc)])
    THEN <<shadow_get_byte(st, pc), UnitSize - Offset(pc)>>
    ELSE IF dqword_to_val(st, pc) = NotUniform THEN <<shadow_get_byte(st, pc), 1>>
    ELSE <<dqword_to_val(st, pc), WordBytes>>

\* The shadow_check_range loop; acc holds its locals and out-parameters.
RECURSIVE CheckFrom(_, _, _, _, _)
CheckFrom(st, pc, end, expect, acc) ==
    IF ~(pc < end)
    THEN IF ~acc.res /\ acc.val = acc.bad_val THEN [acc EXCEPT !.bad_end = pc] ELSE acc
    ELSE LET val == CheckStep(st, pc)[1]
             incr == CheckStep(st, pc)[2]
         IN  IF ~acc.res
             THEN IF val /= acc.bad_val THEN [acc EXCEPT !.bad_end = pc, !.val = val]
                  ELSE CheckFrom(st, pc + incr, end, expect, [acc EXCEPT !.val = val])
             ELSE IF val /= expect
             THEN CheckFrom(st, pc + incr, end, expect,
                            [acc EXCEPT !.res = FALSE, !.bad_val = val, !.bad_start = pc,
                                        !.bad_state = val, !.val = val])
             ELSE CheckFrom(st, pc + incr, end, expect, [acc EXCEPT !.val = val])

shadow_check_range(st, start, size, expect) ==
    CheckFrom(st, start, start + size, expect,
              [res |-> TRUE, bad_val |-> 0, bad_start |-> NULL, bad_end |-> NULL,
               bad_state |-> NULL, val |-> NULL])

\* Variant: the loop test written pc >= start-size.
RECURSIVE BackFrom_ge(_, _, _, _)
BackFrom_ge(st, pc, stop, expect) ==
    IF ~(pc >= stop) THEN [res |-> TRUE, bad_addr |-> NULL]
    ELSE IF shadow_get_byte(st, pc) /= expect THEN [res |-> FALSE, bad_addr |-> pc]
    ELSE BackFrom_ge(st, pc - 1, stop, expect)

\* The shadow_check_range_backward loop.
RECURSIVE BackFrom(_, _, _, _)
BackFrom(st, pc, stop, expect) ==
    IF ~(pc > stop) THEN [res |-> TRUE, bad_addr |-> NULL]
    ELSE IF shadow_get_byte(st, pc) /= expect THEN [res |-> FALSE, bad_addr |-> pc]
    ELSE BackFrom(st, pc - 1, stop, expect)

shadow_check_range_backward(st, start, size, expect) ==
    BackFrom(st, start, start - size, expect)

\* Shadow byte k of block b (Granularity application bytes) equals the
\* expansion val_to_dword[v].
ShadowByteIs(st, b, k, v) ==
    \A o \in k * Granularity .. (k + 1) * Granularity - 1 : BlockByte(st, b, o) = v

\* Variant: incr = ALLOC_UNIT, not the distance to the next unit.
RECURSIVE NextFrom_fullunit(_, _, _, _)
NextFrom_fullunit(st, pc, end, expect) ==
    IF ~(pc < end) THEN NULL
    ELSE LET b == st.table[TABLE_IDX(pc)]
             sk == Offset(pc) \div Granularity
             hits == {k \in sk .. (UnitSize \div Granularity) - 1 :
                          ShadowByteIs(st, b, k, expect)}
         IN  IF block_is_special(b) /\ b.ref = expect THEN pc
             ELSE IF ~block_is_special(b) /\ hits /= {}
             THEN IF pc + (Min(hits) - sk) * Granularity < end
                  THEN pc + (Min(hits) - sk) * Granularity ELSE NULL
             ELSE IF pc + UnitSize >= AddrEnd THEN NULL
             ELSE NextFrom_fullunit(st, pc + UnitSize, end, expect)

\* The shadow_next_dword loop.
RECURSIVE NextFrom(_, _, _, _)
NextFrom(st, pc, end, expect) ==
    IF ~(pc < end) THEN NULL
    ELSE LET b == st.table[TABLE_IDX(pc)]
             sk == Offset(pc) \div Granularity
             hits == {k \in sk .. (UnitSize \div Granularity) - 1 :
                          ShadowByteIs(st, b, k, expect)}
             incr == UnitSize - Offset(pc)
         IN  IF block_is_special(b) /\ b.ref = expect THEN pc
             ELSE IF ~block_is_special(b) /\ hits /= {}
             THEN IF pc + (Min(hits) - sk) * Granularity < end
                  THEN pc + (Min(hits) - sk) * Granularity ELSE NULL
             ELSE IF pc + incr >= AddrEnd THEN NULL   \* POINTER_OVERFLOW_ON_ADD
             ELSE NextFrom(st, pc + incr, end, expect)

shadow_next_dword(st, start, end, expect) == NextFrom(st, start, end, expect)

\* The shadow_prev_dword loop.  incr takes pc back to the base of its own
\* unit, and from a base to the base of the unit below.
RECURSIVE PrevFrom(_, _, _, _)
PrevFrom(st, pc, end, expect) ==
    IF ~(pc > end) THEN NULL
    ELSE LET b == st.table[TABLE_IDX(pc)]
             sk == Offset(pc) \div Granularity
             hits == {k \in 0 .. sk : ShadowByteIs(st, b, k, expect)}
             incr == pc - ALIGN_BACKWARD(pc - 1, UnitSize)
         IN  IF block_is_special(b) /\ b.ref = expect THEN pc
             ELSE IF ~block_is_special(b) /\ hits /= {}
             THEN IF pc - (sk - Max(hits)) * Granularity > end
                  THEN pc - (sk - Max(hits)) * Granularity ELSE NULL
             ELSE PrevFrom(st, pc - incr, end, expect)

shadow_prev_dword(st, start, end, expect) == PrevFrom(st, start, end, expect)

-----------------------------------------------------------------------------
(* The application's calls, each applied whole.                            *)

Init ==
    /\ table = [u \in Units |-> val_to_special(SHADOW_UNADDRESSABLE)]
    /\ heap = <<>>
    /\ nalloc = 0
    /\ last = [kind |-> "init"]
    /\ ncalls = 0

Apply(st, c) ==
    CASE c.kind = "set_byte"        -> shadow_set_byte(st, c.addr, c.val)
      [] c.kind = "set_range"       -> shadow_set_range(st, c.start, c.end, c.val)
      [] c.kind = "copy_range"      -> shadow_copy_range(st, c.old, c.new, c.size)
      [] c.kind = "replace_special" -> shadow_replace_special(st, c.addr)

Call(c) ==
    /\ ncalls < MaxCalls
    /\ LET st == Apply(St, c) IN
         /\ table' = st.table
         /\ heap' = st.heap
         /\ nalloc' = st.nalloc
    /\ last' = c
    /\ ncalls' = ncalls + 1

Done ==
    /\ ncalls = MaxCalls
    /\ UNCHANGED vars

Next == (\E c \in Calls : Call(c)) \/ Done

Spec == Init /\ [][Next]_vars
-----------------------------------------------------------------------------
(* Reference definitions and properties.                                   *)

TypeOK ==
    /\ table \in [Units -> {Special(v) : v \in Vals} \cup {Private(i) : i \in 1 .. nalloc}]
    /\ heap \in [1 .. nalloc -> [Offsets -> Vals]]
    /\ nalloc \in 0 .. NUnits
    /\ last \in Calls \cup {[kind |-> "init"]}
    /\ ncalls \in 0 .. MaxCalls

\* Bytes of [lo, hi) whose shadow is not v.
Mismatches(st, lo, hi, v) == {a \in lo .. hi - 1 : shadow_get_byte(st, a) /= v}

\* Granularity-aligned addresses of [lo, hi) whose whole shadow byte is v.
DwordHits(st, lo, hi, v) ==
    {a \in lo .. hi - 1 : ALIGNED(a, Granularity)
                          /\ \A x \in a .. a + Granularity - 1 : shadow_get_byte(st, x) = v}

\* A unit whose bytes all have one value.
Uniform(st, u) ==
    \E v \in Vals : \A o \in Offsets : shadow_get_byte(st, ADDR_OF_BASE(u) + o) = v

\* The view a write call promises: its bytes take its value, nothing else moves.
Written(view, c) ==
    CASE c.kind = "set_byte" -> [view EXCEPT ![c.addr] = c.val]
      [] c.kind = "set_range" ->
            [a \in Addr |-> IF c.start <= a /\ a < c.end THEN c.val ELSE view[a]]
      [] OTHER -> view

(* shadow_set_byte, shadow_set_range and shadow_replace_special leave      *)
(* every byte of their range with the value written (shadow_replace_special *)
(* with the value it had) and every other byte as it was, whatever mix of  *)
(* special and private units, memset runs and single bytes earlier calls   *)
(* left; shadow_replace_special leaves its unit private.                   *)
WritesExact ==
    [][last'.kind \in {"set_byte", "set_range", "replace_special"} =>
         /\ View(St') = Written(View(St), last')
         /\ last'.kind = "replace_special" =>
                ~block_is_special(table'[TABLE_IDX(last'.addr)])]_vars

(* A set_byte or set_range allocates a private block for a unit only when  *)
(* the unit ends up holding more than one value: a range covering a whole *)
(* special unit swaps specials, and a write of the unit's own value is a  *)
(* no-op (spec: uniform-region no-alloc, promotion exactness).             *)
NoNeedlessPromotion ==
    [][last'.kind \in {"set_byte", "set_range"} =>
         \A u \in Units : block_is_special(table[u]) /\ ~block_is_special(table'[u])
                              => ~Uniform(St', u)]_vars

(* shadow_copy_range gives every destination byte the value its source    *)
(* byte had before the call, as memmove would, and changes nothing else   *)
(* (the comment: "The two ranges can overlap").                            *)
CopyIsMemmove ==
    [][last'.kind = "copy_range" =>
         LET c == last' IN
         View(St') = [a \in Addr |-> IF c.new <= a /\ a < c.new + c.size
                                     THEN View(St)[a - c.new + c.old]
                                     ELSE View(St)[a]]]_vars

(* shadow_check_range reports a match exactly when every byte of the range *)
(* has the expected value, and otherwise the first byte that differs, its  *)
(* value, and in bad_end the extent of the run of that value: every byte  *)
(* from bad_start up to bad_end (or the range end) holds it, and a bad_end *)
(* inside the range holds another value.  This holds although the loop    *)
(* skips whole special units and uniform uints, and records bad_end on a   *)
(* later iteration than bad_start, or after the loop.                      *)
CheckRangeFindsFirstMismatch ==
    \A start \in Addr, end \in 1 .. AddrEnd, expect \in Vals :
        start < end =>
        LET r == shadow_check_range(St, start, end - start, expect)
            bad == Mismatches(St, start, end, expect)
        IN  /\ r.res = (bad = {})
            /\ bad /= {} => /\ r.bad_start = Min(bad)
                            /\ r.bad_state = shadow_get_byte(St, Min(bad))
                            /\ \A x \in r.bad_start .. Min({r.bad_end, end}) - 1 :
                                  shadow_get_byte(St, x) = r.bad_state
                            /\ r.bad_end < end =>
                                  shadow_get_byte(St, r.bad_end) /= r.bad_state

(* shadow_check_range_backward finds the highest byte of (start-size,      *)
(* start] without the expected value, if any.                              *)
CheckRangeBackwardFindsLast ==
    \A start \in Addr, size \in 1 .. AddrEnd, expect \in Vals :
        size < start =>
        LET r == shadow_check_range_backward(St, start, size, expect)
            bad == Mismatches(St, start - size + 1, start + 1, expect)
        IN  /\ r.res = (bad = {})
            /\ bad /= {} => r.bad_addr = Max(bad)

(* shadow_next_dword returns the lowest aligned dword in [start, end)      *)
(* whose shadow is expect, or NULL, across special and private units.      *)
NextDwordFindsLowest ==
    \A start \in Addr, end \in 1 .. AddrEnd, expect \in Vals :
        ALIGNED(start, Granularity) /\ start < end =>
        LET hits == DwordHits(St, start, end, expect) IN
        shadow_next_dword(St, start, end, expect) = IF hits = {} THEN NULL ELSE Min(hits)

(* shadow_prev_dword returns the highest aligned dword in (end, start]     *)
(* whose shadow is expect, or NULL.                                        *)
PrevDwordFindsHighest ==
    \A start \in Addr, end \in 0 .. AddrEnd, expect \in Vals :
        ALIGNED(start, Granularity) /\ end < start =>
        LET hits == DwordHits(St, end + 1, start + 1, expect) IN
        shadow_prev_dword(St, start, end, expect) = IF hits = {} THEN NULL ELSE Max(hits)
=============================================================================
