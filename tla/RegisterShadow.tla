---------------------------- MODULE RegisterShadow ----------------------------
(***************************************************************************)
(* The shadow of the general purpose registers in drmemory/shadow.c.       *)
(* Every thread has a shadow_registers_t in TLS: one byte per 32-bit GPR   *)
(* holding two shadow bits per register byte, an eflags byte and the       *)
(* in_heap_routine counter.  shadow_registers_thread_init fills it when a  *)
(* thread starts, testing and clearing the static first_thread with no     *)
(* lock; afterwards only the owning thread writes it.                      *)
(*                                                                         *)
(* The ghost variables greg, gflags and ginheap hold what the shadow of    *)
(* each register byte, the flags and the counter should be (spec 4.5):    *)
(* the first monitored thread starts all defined, later threads undefined  *)
(* except the stack pointer and, on Linux, eax.                            *)
(***************************************************************************)
EXTENDS TwoBits

CONSTANTS
    Threads,      \* application threads
    NoThread,     \* no thread yet
    Regs,         \* registers, records [ptr, size, byte]: the 32-bit register
                  \* (reg_to_pointer_sized), reg_get_size in bytes, and the
                  \* byte of the 32-bit register the register starts at
    ByteNums,     \* bytenum arguments of register_shadow_set_byte
    DwordVals,    \* val arguments of register_shadow_set_dword
    FlagVals,     \* val arguments of set_shadow_eflags
    InheapVals,   \* val arguments of set_shadow_inheap
    MaxWrites,    \* bound on the writes of each thread
    InitOverlap,  \* TRUE: thread init events of two threads may interleave
    Platform      \* "linux" or "windows"

SHADOW_DEFINED == 0
SHADOW_UNDEFINED == 3
SHADOW_WORD_DEFINED == 0       \* two defined pairs
SHADOW_DWORD_DEFINED == 0      \* four defined pairs
SHADOW_DWORD_UNDEFINED == 255  \* four undefined pairs
ShadowVals == {SHADOW_DEFINED, SHADOW_UNDEFINED}

\* The fields of shadow_registers_t (the padding is never read).
GPRs == {"eax", "ecx", "edx", "ebx", "esp", "ebp", "esi", "edi"}
Slots == GPRs \cup {"eflags", "in_heap_routine"}

\* Registers defined at a new thread's entry (PR 426162).
EntryDefined == IF Platform = "linux" THEN {"esp", "eax"} ELSE {"esp"}

VARIABLES
    first_thread,  \* the static first_thread of shadow_registers_thread_init
    phase,         \* phase[t]: "unborn", "init", "running" or "exited"
    ft,            \* ft[t]: the value of first_thread thread t tested
    sr,            \* sr[t][s]: byte s of thread t's shadow_registers_t
    tls,           \* tls[t]: the tls_idx_shadow field ("set" or "null")
    nwrites,       \* nwrites[t]: writes thread t has made
    specFirst,     \* ghost: the first thread to start its init
    greg,          \* ghost: greg[t][g][k], shadow of byte k of register g
    gflags,        \* ghost: shadow of thread t's flags
    ginheap        \* ghost: thread t's in_heap_routine count

vars == <<first_thread, phase, ft, sr, tls, nwrites, specFirst, greg, gflags, ginheap>>

-----------------------------------------------------------------------------
(* Reading the shadow registers.                                         *)

reg_shadow_offs(r) == r.ptr

get_shadow_register_common(t, r) ==
    LET val == sr[t][reg_shadow_offs(r)] IN
    CASE r.size = 1 -> val & 3
      [] r.size = 2 -> val & 15
      [] OTHER      -> val

\* get_shadow_register: the calling thread's own segment.
get_shadow_register(t, r) == get_shadow_register_common(t, r)

\* get_thread_shadow_register: another thread's shadow_registers_t, found
\* through its tls_idx_shadow field; NULL before its init and after its
\* exit, and get_shadow_register_common then dereferences NULL.
NullDeref == "NULL dereference"
get_thread_shadow_register(t, r) ==
    IF tls[t] = "set" THEN get_shadow_register_common(t, r) ELSE NullDeref

is_shadow_register_defined(val) ==
    val \in {SHADOW_DEFINED, SHADOW_WORD_DEFINED, SHADOW_DWORD_DEFINED}

get_shadow_eflags(t) == sr[t]["eflags"]

get_shadow_inheap(t) == sr[t]["in_heap_routine"]

-----------------------------------------------------------------------------
Init ==
    /\ first_thread = TRUE
    /\ phase = [t \in Threads |-> "unborn"]
    /\ ft = [t \in Threads |-> FALSE]
    /\ sr = [t \in Threads |-> [s \in Slots |-> 0]]
    /\ tls = [t \in Threads |-> "null"]
    /\ nwrites = [t \in Threads |-> 0]
    /\ specFirst = NoThread
    /\ greg = [t \in Threads |-> [g \in GPRs |-> [k \in 0 .. 3 |-> SHADOW_DEFINED]]]
    /\ gflags = [t \in Threads |-> SHADOW_DEFINED]
    /\ ginheap = [t \in Threads |-> 0]

\* The register shadow spec 4.5 gives a thread at its start.
SpecStart(isFirst) ==
    [g \in GPRs |-> [k \in 0 .. 3 |->
        IF isFirst \/ g \in EntryDefined THEN SHADOW_DEFINED ELSE SHADOW_UNDEFINED]]

\* Variant: drmgr_set_tls_field publishes sr before it is filled.
InitTest_publish(t) ==
    LET first == IF specFirst = NoThread THEN t ELSE specFirst IN
    /\ phase[t] = "unborn"
    /\ InitOverlap \/ \A u \in Threads : phase[u] /= "init"
    /\ ft' = [ft EXCEPT ![t] = first_thread]
    /\ phase' = [phase EXCEPT ![t] = "init"]
    /\ tls' = [tls EXCEPT ![t] = "set"]
    /\ specFirst' = first
    /\ greg' = [greg EXCEPT ![t] = SpecStart(first = t)]
    /\ gflags' = [gflags EXCEPT ![t] = IF first = t THEN SHADOW_DEFINED ELSE SHADOW_UNDEFINED]
    /\ ginheap' = [ginheap EXCEPT ![t] = 0]
    /\ UNCHANGED <<first_thread, sr, nwrites>>

\* shadow_registers_thread_init: if (first_thread) ...
InitTest(t) ==
    LET first == IF specFirst = NoThread THEN t ELSE specFirst IN
    /\ phase[t] = "unborn"
    /\ InitOverlap \/ \A u \in Threads : phase[u] /= "init"
    /\ ft' = [ft EXCEPT ![t] = first_thread]
    /\ phase' = [phase EXCEPT ![t] = "init"]
    /\ specFirst' = first
    /\ greg' = [greg EXCEPT ![t] = SpecStart(first = t)]
    /\ gflags' = [gflags EXCEPT ![t] = IF first = t THEN SHADOW_DEFINED ELSE SHADOW_UNDEFINED]
    /\ ginheap' = [ginheap EXCEPT ![t] = 0]
    /\ UNCHANGED <<first_thread, sr, tls, nwrites>>

\* ... first_thread = false; everything defined; drmgr_set_tls_field.
InitFirst(t) ==
    /\ phase[t] = "init"
    /\ ft[t]
    /\ first_thread' = FALSE
    /\ sr' = [sr EXCEPT ![t] = [[s \in Slots |-> SHADOW_DWORD_DEFINED]
                                   EXCEPT !["eflags"] = SHADOW_DEFINED,
                                          !["in_heap_routine"] = 0]]
    /\ tls' = [tls EXCEPT ![t] = "set"]
    /\ phase' = [phase EXCEPT ![t] = "running"]
    /\ UNCHANGED <<ft, nwrites, specFirst, greg, gflags, ginheap>>

\* ... else everything undefined but the entry registers.
InitLater(t) ==
    LET later == [[s \in Slots |-> SHADOW_DWORD_UNDEFINED]
                     EXCEPT !["eflags"] = SHADOW_UNDEFINED,
                            !["esp"] = SHADOW_DWORD_DEFINED]
        entry == IF Platform = "linux" THEN [later EXCEPT !["eax"] = SHADOW_DWORD_DEFINED]
                 ELSE later
    IN
    /\ phase[t] = "init"
    /\ ~ft[t]
    /\ sr' = [sr EXCEPT ![t] = [entry EXCEPT !["in_heap_routine"] = 0]]
    /\ tls' = [tls EXCEPT ![t] = "set"]
    /\ phase' = [phase EXCEPT ![t] = "running"]
    /\ UNCHANGED <<first_thread, ft, nwrites, specFirst, greg, gflags, ginheap>>

\* A write of the running thread t to its own shadow registers.
Writes(t) ==
    /\ phase[t] = "running"
    /\ nwrites[t] < MaxWrites
    /\ nwrites' = [nwrites EXCEPT ![t] = @ + 1]
    /\ UNCHANGED <<first_thread, phase, ft, tls, specFirst>>

register_shadow_set_byte(t, r, bytenum, val) ==
    /\ Writes(t)
    /\ sr' = [sr EXCEPT ![t][reg_shadow_offs(r)] = set_2bits_inline(@, val, bytenum * 2) % 256]
    /\ greg' = [greg EXCEPT ![t][r.ptr][bytenum] = val]
    /\ UNCHANGED <<gflags, ginheap>>

register_shadow_set_dword(t, r, val) ==
    /\ Writes(t)
    /\ sr' = [sr EXCEPT ![t][reg_shadow_offs(r)] = val % 256]
    /\ greg' = [greg EXCEPT ![t][r.ptr] = [k \in 0 .. 3 |-> (val \div 4^k) % 4]]
    /\ UNCHANGED <<gflags, ginheap>>

set_shadow_eflags(t, val) ==
    /\ Writes(t)
    /\ sr' = [sr EXCEPT ![t]["eflags"] = val % 256]
    /\ gflags' = [gflags EXCEPT ![t] = val]
    /\ UNCHANGED <<greg, ginheap>>

set_shadow_inheap(t, val) ==
    /\ Writes(t)
    /\ sr' = [sr EXCEPT ![t]["in_heap_routine"] = val % 256]
    /\ ginheap' = [ginheap EXCEPT ![t] = val]
    /\ UNCHANGED <<greg, gflags>>

\* shadow_registers_thread_exit.
ThreadExit(t) ==
    /\ phase[t] = "running"
    /\ phase' = [phase EXCEPT ![t] = "exited"]
    /\ tls' = [tls EXCEPT ![t] = "null"]
    /\ UNCHANGED <<first_thread, ft, sr, nwrites, specFirst, greg, gflags, ginheap>>

\* Every thread has exited.
Finished ==
    /\ \A t \in Threads : phase[t] = "exited"
    /\ UNCHANGED vars

Next ==
    \/ \E t \in Threads :
          \/ InitTest(t) \/ InitFirst(t) \/ InitLater(t) \/ ThreadExit(t)
          \/ \E r \in Regs, k \in ByteNums, v \in ShadowVals :
                register_shadow_set_byte(t, r, k, v)
          \/ \E r \in {x \in Regs : x.size = 4}, v \in DwordVals :
                register_shadow_set_dword(t, r, v)
          \/ \E v \in FlagVals : set_shadow_eflags(t, v)
          \/ \E v \in InheapVals : set_shadow_inheap(t, v)
    \/ Finished

Spec == Init /\ [][Next]_vars

-----------------------------------------------------------------------------
(* Properties.                                                             *)

\* The shadow value of n register bytes from byte lo, packed two bits each.
RECURSIVE Pack(_, _, _)
Pack(g, lo, n) == IF n = 0 THEN 0 ELSE g[lo] + 4 * Pack(g, lo + 1, n - 1)

(* Whatever sequence of register_shadow_set_byte, register_shadow_set_dword *)
(* and set_shadow_eflags / set_shadow_inheap calls a thread made since its *)
(* init, get_shadow_register returns the two-bit shadow of exactly the     *)
(* bytes of the register asked for (a sub-register reads its own bytes of  *)
(* the 32-bit slot), is_shadow_register_defined holds exactly when all of  *)
(* them are defined, and the flags and counter read back as last set.  The *)
(* same holds for get_thread_shadow_register from any other thread as soon *)
(* as shadow_registers_thread_init has published the thread's              *)
(* shadow_registers_t in its TLS field: the field is set only after the    *)
(* memset that fills it.                                                    *)
RegisterReadsAsWritten ==
    \A t \in Threads : tls[t] = "set" =>
        /\ \A r \in Regs :
              LET want == Pack(greg[t][r.ptr], r.byte, r.size) IN
              /\ get_thread_shadow_register(t, r) = want
              /\ phase[t] = "running" => get_shadow_register(t, r) = want
              /\ is_shadow_register_defined(get_thread_shadow_register(t, r))
                   <=> \A k \in r.byte .. r.byte + r.size - 1 : greg[t][r.ptr][k] = SHADOW_DEFINED
        /\ get_shadow_eflags(t) = gflags[t]
        /\ get_shadow_inheap(t) = ginheap[t]
=============================================================================
