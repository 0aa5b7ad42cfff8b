----------------------------- MODULE ShadowTable -----------------------------
(***************************************************************************)
(* The shadow table of drmemory/shadow.c and its writers, run by several   *)
(* application threads at once.                                            *)
(*                                                                         *)
(* shadow_table[] has one slot per ALLOC_UNIT of the address space.  A     *)
(* slot points at one of four read-only special blocks (the whole unit has *)
(* one value) or at a private block allocated for that unit.  A write of  *)
(* a value different from a special unit's value promotes the slot to a    *)
(* private block under shadow_lock (shadow_set_byte); shadow_set_range     *)
(* swaps a whole special unit to another special under the same lock       *)
(* (shadow_set_special), fills runs of a private block with memset, and    *)
(* falls back to shadow_set_byte.  A private block is a uint array: one    *)
(* uint shadows WordBytes application bytes, and shadow_set_byte updates a *)
(* byte's two bits by loading and storing the whole uint.                  *)
(*                                                                         *)
(* The shadow contents are kept per application byte; the pointer         *)
(* displacement stored in the table (PR 553724) and the redzones are left  *)
(* out.                                                                    *)
(***************************************************************************)
EXTENDS ShadowLayout, FiniteSets

CONSTANTS
    Threads,      \* application threads calling into the shadow table
    NoThread,     \* owner of shadow_lock when nobody holds it
    MaxBlocks,    \* bound on the private blocks global_alloc hands out
    MaxOps,       \* bound on the write operations each thread invokes
    Work          \* Work[t]: the operations thread t may invoke

ASSUME /\ MaxBlocks \in Nat /\ MaxOps \in Nat

BlockIds == 1 .. MaxBlocks
Blocks == {Special(v) : v \in Vals} \cup {Private(i) : i \in BlockIds}

\* An operation: shadow_set_byte(start, val) ("byte", end = start + 1),
\* shadow_set_range(start, end, val) ("range"), or the query
\* shadow_get_special(start, &val) ("special", end = start: it writes nothing).
Ops == [kind : {"byte", "range", "special"}, start : Addr,
        end : Addr \cup {AddrEnd}, val : Vals]
NoOp == [kind |-> "none", start |-> 0, end |-> 0, val |-> SHADOW_DEFINED]

ASSUME \A t \in Threads : Work[t] \subseteq Ops

VARIABLES
    table,    \* shadow_table[]: the block of every unit
    heap,     \* heap[i][o]: shadow value of offset o in private block i
    nalloc,   \* private blocks allocated so far (shadow_block_alloc)
    lock,     \* holder of shadow_lock
    pc,       \* pc[t]: where thread t is
    op,       \* op[t]: the operation thread t is running
    caller,   \* caller[t]: "range" when shadow_set_byte runs inside set_range
    rpc,      \* rpc[t]: the application address the operation is at
    blk,      \* blk[t]: the block pointer the thread holds (local `block`)
    bval,     \* bval[t]: the local `blockval` of shadow_set_byte
    wbuf,     \* wbuf[t]: the uint shadow_set_byte loaded, by offset
    nops,     \* nops[t]: operations thread t has invoked
    freed,    \* freed[i]: times shadow_table_exit freed private block i
    exited    \* shadow_table_exit has run

vars == <<table, heap, nalloc, lock, pc, op, caller, rpc, blk, bval, wbuf, nops,
          freed, exited>>

\* The shadow value of offset o in block b (bitmapx2_get).
BlockByte(b, o) == IF block_is_special(b) THEN b.ref ELSE heap[b.ref][o]

\* shadow_get_byte: the table slot, then the two bits in its block.
shadow_get_byte(a) == BlockByte(table[TABLE_IDX(a)], Offset(a))

Goto(t, l) == pc' = [pc EXCEPT ![t] = l]

\* Where shadow_set_byte returns to.
AfterByte(t) == IF caller[t] = "range" THEN "sr_loop" ELSE "ret"

-----------------------------------------------------------------------------
(* shadow_table_init: every slot on the special unaddressable block.       *)
Init ==
    /\ table = [u \in Units |-> val_to_special(SHADOW_UNADDRESSABLE)]
    /\ heap = [i \in BlockIds |-> [o \in Offsets |-> SHADOW_DEFINED]]
    /\ nalloc = 0
    /\ lock = NoThread
    /\ pc = [t \in Threads |-> "idle"]
    /\ op = [t \in Threads |-> NoOp]
    /\ caller = [t \in Threads |-> "top"]
    /\ rpc = [t \in Threads |-> 0]
    /\ blk = [t \in Threads |-> val_to_special(SHADOW_UNADDRESSABLE)]
    /\ bval = [t \in Threads |-> SHADOW_DEFINED]
    /\ wbuf = [t \in Threads |-> <<>>]
    /\ nops = [t \in Threads |-> 0]
    /\ freed = [i \in BlockIds |-> 0]
    /\ exited = FALSE

\* A thread calls shadow_set_byte, shadow_set_range or shadow_get_special.
Call(t, o) ==
    /\ pc[t] = "idle"
    /\ nops[t] < MaxOps
    /\ op' = [op EXCEPT ![t] = o]
    /\ rpc' = [rpc EXCEPT ![t] = o.start]
    /\ caller' = [caller EXCEPT ![t] = IF o.kind = "byte" THEN "top" ELSE "range"]
    /\ Goto(t, CASE o.kind = "byte" -> "sb_read"
                 [] o.kind = "range" -> "sr_loop"
                 [] o.kind = "special" -> "gs_table")
    /\ nops' = [nops EXCEPT ![t] = @ + 1]
    /\ UNCHANGED <<table, heap, nalloc, lock, blk, bval, wbuf>>

\* The operation has returned to its caller.
Return(t) ==
    /\ pc[t] = "ret"
    /\ Goto(t, "idle")
    /\ UNCHANGED <<table, heap, nalloc, lock, op, caller, rpc, blk, bval, wbuf, nops>>

-----------------------------------------------------------------------------
(* shadow_set_range: one iteration of its loop per step, reading the slot  *)
(* of rpc[t] afresh each time.                                             *)

\* The slot the loop reads is special and a whole unit of the range is left.
WholeSpecialUnit(t) ==
    LET p == rpc[t] IN
    /\ block_is_special(table[TABLE_IDX(p)])
    /\ ALIGNED(p, UnitSize)
    /\ op[t].end - p >= UnitSize

\* The slot is private, p is granularity-aligned and a memset run is left.
MemsetRun(t) ==
    LET p == rpc[t] IN
    /\ ~block_is_special(table[TABLE_IDX(p)])
    /\ ALIGNED(p, Granularity)
    /\ SetEnd(p, op[t].end) > p

SetRangeDone(t) ==
    /\ pc[t] = "sr_loop"
    /\ rpc[t] >= op[t].end
    /\ Goto(t, "ret")
    /\ UNCHANGED <<table, heap, nalloc, lock, op, caller, rpc, blk, bval, wbuf, nops>>

\* Whole special unit: call shadow_set_special.
SetRangeSpecial(t) ==
    /\ pc[t] = "sr_loop"
    /\ rpc[t] < op[t].end
    /\ WholeSpecialUnit(t)
    /\ Goto(t, "ss_lock")
    /\ UNCHANGED <<table, heap, nalloc, lock, op, caller, rpc, blk, bval, wbuf, nops>>

\* Private block: memset the shadow bytes of [p, set_end) to val_to_dword[val].
SetRangeMemset(t) ==
    LET p == rpc[t]
        b == table[TABLE_IDX(p)]
        e == SetEnd(p, op[t].end)
    IN
    /\ pc[t] = "sr_loop"
    /\ p < op[t].end
    /\ ~WholeSpecialUnit(t)
    /\ MemsetRun(t)
    /\ heap' = [heap EXCEPT ![b.ref] =
                  [o \in Offsets |-> IF Offset(p) <= o /\ o < Offset(p) + (e - p)
                                     THEN op[t].val ELSE @[o]]]
    /\ rpc' = [rpc EXCEPT ![t] = e]
    /\ blk' = [blk EXCEPT ![t] = b]
    /\ UNCHANGED <<table, nalloc, lock, pc, op, caller, bval, wbuf, nops>>

\* Otherwise: shadow_set_byte(pc, val), then pc++.
SetRangeByte(t) ==
    /\ pc[t] = "sr_loop"
    /\ rpc[t] < op[t].end
    /\ ~WholeSpecialUnit(t)
    /\ ~MemsetRun(t)
    /\ Goto(t, "sb_read")
    /\ UNCHANGED <<table, heap, nalloc, lock, op, caller, rpc, blk, bval, wbuf, nops>>

-----------------------------------------------------------------------------
(* shadow_set_special: under shadow_lock, swap a still-special slot to the *)
(* special block of val; a slot gone private is left alone.                *)

SetSpecialLock(t) ==
    /\ pc[t] = "ss_lock"
    /\ lock = NoThread
    /\ lock' = t
    /\ Goto(t, "ss_check")
    /\ UNCHANGED <<table, heap, nalloc, op, caller, rpc, blk, bval, wbuf, nops>>

\* Variant: the slot is not re-checked under the lock.
SetSpecialSwap_norecheck(t) ==
    LET u == TABLE_IDX(rpc[t]) IN
    /\ pc[t] = "ss_check"
    /\ table' = [table EXCEPT ![u] = val_to_special(op[t].val)]
    /\ rpc' = [rpc EXCEPT ![t] = @ + UnitSize]
    /\ Goto(t, "ss_unlock")
    /\ UNCHANGED <<heap, nalloc, lock, op, caller, blk, bval, wbuf, nops>>

\* Variant: set_range does not advance past the unit it made special.
SetSpecialSwap_noadvance(t) ==
    LET u == TABLE_IDX(rpc[t]) IN
    /\ pc[t] = "ss_check"
    /\ block_is_special(table[u])
    /\ table' = [table EXCEPT ![u] = val_to_special(op[t].val)]
    /\ Goto(t, "ss_unlock")
    /\ UNCHANGED <<heap, nalloc, lock, op, caller, rpc, blk, bval, wbuf, nops>>

\* Still special: swap, return true, and set_range advances by a unit.
SetSpecialSwap(t) ==
    LET u == TABLE_IDX(rpc[t]) IN
    /\ pc[t] = "ss_check"
    /\ block_is_special(table[u])
    /\ table' = [table EXCEPT ![u] = val_to_special(op[t].val)]
    /\ rpc' = [rpc EXCEPT ![t] = @ + UnitSize]
    /\ Goto(t, "ss_unlock")
    /\ UNCHANGED <<heap, nalloc, lock, op, caller, blk, bval, wbuf, nops>>

\* Promoted meanwhile: return false; set_range loops and re-reads the slot.
SetSpecialRefuse(t) ==
    /\ pc[t] = "ss_check"
    /\ ~block_is_special(table[TABLE_IDX(rpc[t])])
    /\ Goto(t, "ss_unlock")
    /\ UNCHANGED <<table, heap, nalloc, lock, op, caller, rpc, blk, bval, wbuf, nops>>

SetSpecialUnlock(t) ==
    /\ pc[t] = "ss_unlock"
    /\ lock' = NoThread
    /\ Goto(t, "sr_loop")
    /\ UNCHANGED <<table, heap, nalloc, op, caller, rpc, blk, bval, wbuf, nops>>

-----------------------------------------------------------------------------
(* shadow_set_byte(rpc[t], op[t].val).                                     *)

\* block = get_shadow_table(idx): special, go on to the promotion path.
SetByteReadSpecial(t) ==
    /\ pc[t] = "sb_read"
    /\ block_is_special(table[TABLE_IDX(rpc[t])])
    /\ Goto(t, "sb_get")
    /\ UNCHANGED <<table, heap, nalloc, lock, op, caller, rpc, blk, bval, wbuf, nops>>

\* block is private: it never changes again, write into it directly.
SetByteReadPrivate(t) ==
    LET b == table[TABLE_IDX(rpc[t])] IN
    /\ pc[t] = "sb_read"
    /\ ~block_is_special(b)
    /\ blk' = [blk EXCEPT ![t] = b]
    /\ Goto(t, "sb_load")
    /\ UNCHANGED <<table, heap, nalloc, lock, op, caller, rpc, bval, wbuf, nops>>

\* blockval = shadow_get_byte(addr), re-reading the slot.
SetByteGetVal(t) ==
    /\ pc[t] = "sb_get"
    /\ bval' = [bval EXCEPT ![t] = shadow_get_byte(rpc[t])]
    /\ Goto(t, "sb_nop")
    /\ UNCHANGED <<table, heap, nalloc, lock, op, caller, rpc, blk, wbuf, nops>>

\* if (val == shadow_get_byte(addr)) return: a third read of the slot; a
\* write of the value already there leaves the table alone.
SetByteNop(t) ==
    /\ pc[t] = "sb_nop"
    /\ shadow_get_byte(rpc[t]) = op[t].val
    /\ rpc' = [rpc EXCEPT ![t] = @ + 1]
    /\ Goto(t, AfterByte(t))
    /\ UNCHANGED <<table, heap, nalloc, lock, op, caller, blk, bval, wbuf, nops>>

SetByteNotNop(t) ==
    /\ pc[t] = "sb_nop"
    /\ shadow_get_byte(rpc[t]) /= op[t].val
    /\ Goto(t, "sb_lock")
    /\ UNCHANGED <<table, heap, nalloc, lock, op, caller, rpc, blk, bval, wbuf, nops>>

SetByteLock(t) ==
    /\ pc[t] = "sb_lock"
    /\ lock = NoThread
    /\ lock' = t
    /\ Goto(t, "sb_check")
    /\ UNCHANGED <<table, heap, nalloc, op, caller, rpc, blk, bval, wbuf, nops>>

\* Variant: the slot is not re-checked under the lock before allocating.
SetBytePromote_norecheck(t) ==
    LET u == TABLE_IDX(rpc[t])
        id == nalloc + 1
    IN
    /\ pc[t] = "sb_check"
    /\ nalloc < MaxBlocks
    /\ heap' = [heap EXCEPT ![id] = [o \in Offsets |-> bval[t]]]
    /\ table' = [table EXCEPT ![u] = Private(id)]
    /\ nalloc' = id
    /\ blk' = [blk EXCEPT ![t] = Private(id)]
    /\ Goto(t, "sb_unlock")
    /\ UNCHANGED <<lock, op, caller, rpc, bval, wbuf, nops>>

\* Variant: the new block is filled with val_to_dword[val], the value
\* being written, instead of the unit's blockval.
SetBytePromote_newval(t) ==
    LET u == TABLE_IDX(rpc[t])
        id == nalloc + 1
    IN
    /\ pc[t] = "sb_check"
    /\ block_is_special(table[u])
    /\ nalloc < MaxBlocks
    /\ heap' = [heap EXCEPT ![id] = [o \in Offsets |-> op[t].val]]
    /\ table' = [table EXCEPT ![u] = Private(id)]
    /\ nalloc' = id
    /\ blk' = [blk EXCEPT ![t] = Private(id)]
    /\ Goto(t, "sb_unlock")
    /\ UNCHANGED <<lock, op, caller, rpc, bval, wbuf, nops>>

\* Still special under the lock: allocate a block, fill it with
\* val_to_dword[blockval] and install it.
SetBytePromote(t) ==
    LET u == TABLE_IDX(rpc[t])
        id == nalloc + 1
    IN
    /\ pc[t] = "sb_check"
    /\ block_is_special(table[u])
    /\ nalloc < MaxBlocks
    /\ heap' = [heap EXCEPT ![id] = [o \in Offsets |-> bval[t]]]
    /\ table' = [table EXCEPT ![u] = Private(id)]
    /\ nalloc' = id
    /\ blk' = [blk EXCEPT ![t] = Private(id)]
    /\ Goto(t, "sb_unlock")
    /\ UNCHANGED <<lock, op, caller, rpc, bval, wbuf, nops>>

\* Another thread promoted the unit first: use its block.
SetByteRaced(t) ==
    LET b == table[TABLE_IDX(rpc[t])] IN
    /\ pc[t] = "sb_check"
    /\ ~block_is_special(b)
    /\ blk' = [blk EXCEPT ![t] = b]
    /\ Goto(t, "sb_unlock")
    /\ UNCHANGED <<table, heap, nalloc, lock, op, caller, rpc, bval, wbuf, nops>>

SetByteUnlock(t) ==
    /\ pc[t] = "sb_unlock"
    /\ lock' = NoThread
    /\ Goto(t, "sb_load")
    /\ UNCHANGED <<table, heap, nalloc, op, caller, rpc, blk, bval, wbuf, nops>>

\* bitmapx2_set: load bm[BITMAPx2_IDX(i)] ...
SetByteLoad(t) ==
    LET o == Offset(rpc[t]) IN
    /\ pc[t] = "sb_load"
    /\ wbuf' = [wbuf EXCEPT ![t] = [x \in WordOf(o) |-> heap[blk[t].ref][x]]]
    /\ Goto(t, "sb_store")
    /\ UNCHANGED <<table, heap, nalloc, lock, op, caller, rpc, blk, bval, nops>>

\* ... and store set_2bits_inline(loaded, val, shift) back.
SetByteStore(t) ==
    LET o == Offset(rpc[t]) IN
    /\ pc[t] = "sb_store"
    /\ heap' = [heap EXCEPT ![blk[t].ref] =
                  [x \in Offsets |-> IF x = o THEN op[t].val
                                     ELSE IF x \in DOMAIN wbuf[t] THEN wbuf[t][x]
                                     ELSE @[x]]]
    /\ rpc' = [rpc EXCEPT ![t] = @ + 1]
    /\ Goto(t, AfterByte(t))
    /\ UNCHANGED <<table, nalloc, lock, op, caller, blk, bval, wbuf, nops>>

-----------------------------------------------------------------------------
(* shadow_get_special(addr, &val): block = get_shadow_table(idx), then    *)
(* *val = shadow_get_byte(addr), which reads the slot again; the result   *)
(* is block_is_special(block) of the first read.                          *)

GetSpecialTable(t) ==
    /\ pc[t] = "gs_table"
    /\ blk' = [blk EXCEPT ![t] = table[TABLE_IDX(rpc[t])]]
    /\ Goto(t, "gs_val")
    /\ UNCHANGED <<table, heap, nalloc, lock, op, caller, rpc, bval, wbuf, nops>>

GetSpecialVal(t) ==
    /\ pc[t] = "gs_val"
    /\ bval' = [bval EXCEPT ![t] = shadow_get_byte(rpc[t])]
    /\ Goto(t, "ret")
    /\ UNCHANGED <<table, heap, nalloc, lock, op, caller, rpc, blk, wbuf, nops>>

-----------------------------------------------------------------------------
Step(t) ==
    \/ \E o \in Work[t] : Call(t, o)
    \/ Return(t)
    \/ SetRangeDone(t) \/ SetRangeSpecial(t) \/ SetRangeMemset(t) \/ SetRangeByte(t)
    \/ SetSpecialLock(t) \/ SetSpecialSwap(t) \/ SetSpecialRefuse(t)
    \/ SetSpecialUnlock(t)
    \/ SetByteReadSpecial(t) \/ SetByteReadPrivate(t) \/ SetByteGetVal(t)
    \/ SetByteNop(t) \/ SetByteNotNop(t) \/ SetByteLock(t) \/ SetBytePromote(t) \/ SetByteRaced(t)
    \/ SetByteUnlock(t) \/ SetByteLoad(t) \/ SetByteStore(t)
    \/ GetSpecialTable(t) \/ GetSpecialVal(t)

ThreadStep(t) == Step(t) /\ UNCHANGED <<freed, exited>>

(* shadow_table_exit, once every thread has run its operations: every     *)
(* slot whose block is not special has that block global_free'd (the four *)
(* specials are nonheap_free'd once each).                                 *)
shadow_table_exit ==
    /\ \A t \in Threads : pc[t] = "idle" /\ nops[t] = MaxOps
    /\ ~exited
    /\ freed' = [i \in BlockIds |->
                    freed[i] + Cardinality({u \in Units : table[u] = Private(i)})]
    /\ exited' = TRUE
    /\ UNCHANGED <<table, heap, nalloc, lock, pc, op, caller, rpc, blk, bval, wbuf, nops>>

\* The shadow table is gone: the run is over.
Finished ==
    /\ exited
    /\ UNCHANGED vars

Next == (\E t \in Threads : ThreadStep(t)) \/ shadow_table_exit \/ Finished

\* The OS keeps scheduling every runnable thread; shadow_lock is held for a
\* bounded number of steps.
Fairness == \A t \in Threads : WF_vars(ThreadStep(t))

Spec == Init /\ [][Next]_vars

FairSpec == Spec /\ Fairness

-----------------------------------------------------------------------------
(* Properties.                                                             *)

TypeOK ==
    /\ table \in [Units -> Blocks]
    /\ heap \in [BlockIds -> [Offsets -> Vals]]
    /\ nalloc \in 0 .. MaxBlocks
    /\ lock \in Threads \cup {NoThread}
    /\ pc \in [Threads -> {"idle", "ret", "sr_loop", "ss_lock", "ss_check",
                           "ss_unlock", "sb_read", "sb_get", "sb_nop", "sb_lock",
                           "sb_check", "sb_unlock", "sb_load", "sb_store",
                           "gs_table", "gs_val"}]
    /\ op \in [Threads -> Ops \cup {NoOp}]
    /\ caller \in [Threads -> {"top", "range"}]
    /\ rpc \in [Threads -> 0 .. AddrEnd]
    /\ blk \in [Threads -> Blocks]
    /\ bval \in [Threads -> Vals]
    /\ \A t \in Threads : DOMAIN wbuf[t] \subseteq Offsets
                          /\ \A x \in DOMAIN wbuf[t] : wbuf[t][x] \in Vals
    /\ nops \in [Threads -> 0 .. MaxOps]
    /\ freed \in [BlockIds -> Nat]
    /\ exited \in BOOLEAN

(* The shadow table implements ShadowMemory: the shadow value of every     *)
(* byte (what shadow_get_byte returns) only ever changes by a pending      *)
(* shadow_set_byte or shadow_set_range of some thread setting bytes of its *)
(* own range it has not yet passed to its own value.  A promotion that     *)
(* fills the new block with a stale blockval, a uint store that writes     *)
(* back a neighbour's old bits, or a memset past the range breaks it.      *)
Mem == [a \in Addr |-> shadow_get_byte(a)]
Busy == [t \in Threads |-> pc[t] /= "idle"]
Todo == [t \in Threads |->
            IF pc[t] = "idle" THEN {}
            ELSE {a \in op[t].start .. (op[t].end - 1) : a >= rpc[t]}]
Wval == [t \in Threads |-> op[t].val]

Abstract == INSTANCE ShadowMemory
    WITH mem <- Mem, busy <- Busy, todo <- Todo, wval <- Wval,
         InitVal <- SHADOW_UNADDRESSABLE

ImplementsShadowMemory == Abstract!Spec

(* shadow_table_exit frees every block shadow_set_byte allocated, exactly  *)
(* once: it frees what the table points at, so two threads racing to       *)
(* promote the same special unit must allocate one block between them and  *)
(* install it, or the other is leaked (and a write into it lost).          *)
ExitFreesEveryBlock ==
    exited => \A i \in BlockIds : freed[i] = IF i <= nalloc THEN 1 ELSE 0

(* When shadow_get_special reports the unit special, the value it returns  *)
(* is that special block's value, although its two reads of the slot may  *)
(* straddle another thread's promotion of the unit: the new private block  *)
(* starts as a copy of the special, and a race-free thread's own bytes are  *)
(* not written by the other.                                               *)
GetSpecialConsistent ==
    \A t \in Threads :
        (pc[t] = "ret" /\ op[t].kind = "special" /\ block_is_special(blk[t]))
            => bval[t] = blk[t].ref

(* Every shadow_set_byte and shadow_set_range a thread calls returns: the  *)
(* set_range loop makes progress even when shadow_set_special loses a race *)
(* and the lock is always released.                                        *)
OperationsReturn ==
    \A t \in Threads : (pc[t] /= "idle") ~> (pc[t] = "idle")
=============================================================================
