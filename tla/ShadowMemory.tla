---------------------------- MODULE ShadowMemory ----------------------------
(***************************************************************************)
(* What the shadow table promises its callers: a map from every           *)
(* application byte to its shadow value.  A write operation of a thread   *)
(* (shadow_set_byte, shadow_set_range) covers a set of bytes and one      *)
(* value; it may take effect in several steps, but every step only sets   *)
(* bytes the operation still has to write, to the operation's value.  No  *)
(* step changes a byte that no pending operation covers.                  *)
(***************************************************************************)
EXTENDS Integers

CONSTANTS
    Threads,    \* monitored application threads
    Addr,       \* application byte addresses
    Vals,       \* shadow values
    InitVal,    \* value of every byte after shadow_table_init
    Work        \* Work[t]: the write operations thread t may invoke, records
                \* [kind, start, end, val] covering the bytes start..end-1

VARIABLES
    mem,        \* mem[a]: shadow value of byte a
    busy,       \* busy[t]: thread t is inside a write operation
    todo,       \* todo[t]: bytes the pending operation of t has not yet set
    wval        \* wval[t]: value the pending operation of t writes

vars == <<mem, busy, todo, wval>>

TypeOK ==
    /\ mem \in [Addr -> Vals]
    /\ busy \in [Threads -> BOOLEAN]
    /\ todo \in [Threads -> SUBSET Addr]
    /\ wval \in [Threads -> Vals]

Init ==
    /\ mem = [a \in Addr |-> InitVal]
    /\ busy = [t \in Threads |-> FALSE]
    /\ todo = [t \in Threads |-> {}]
    /\ wval \in [Threads -> Vals]

\* A thread starts the write operation o.
Invoke(t, o) ==
    /\ ~busy[t]
    /\ busy' = [busy EXCEPT ![t] = TRUE]
    /\ todo' = [todo EXCEPT ![t] = o.start .. (o.end - 1)]
    /\ wval' = [wval EXCEPT ![t] = o.val]
    /\ UNCHANGED mem

\* Some of the bytes the operation still owes take its value.
Write(t) ==
    /\ busy[t]
    /\ \E S \in (SUBSET todo[t]) \ {{}} :
         /\ mem' = [a \in Addr |-> IF a \in S THEN wval[t] ELSE mem[a]]
         /\ todo' = [todo EXCEPT ![t] = @ \ S]
    /\ UNCHANGED <<busy, wval>>

\* The operation returns once every byte is written.
Return(t) ==
    /\ busy[t]
    /\ todo[t] = {}
    /\ busy' = [busy EXCEPT ![t] = FALSE]
    /\ UNCHANGED <<mem, todo, wval>>

Next ==
    \E t \in Threads :
        \/ \E o \in Work[t] : Invoke(t, o)
        \/ Write(t)
        \/ Return(t)

Spec == Init /\ [][Next]_vars
=============================================================================
