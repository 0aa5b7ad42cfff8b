------------------------------ MODULE Robocheck ------------------------------
(***************************************************************************)
(* The robocheck wrapper library, src/src/rbc_utils.c and librobocheck.c:  *)
(* the logger (FileLogger, the static LoggerBuff of 2 * MAX_BUFF_SIZE      *)
(* bytes that create_log_message fills), make_comm_string, which joins    *)
(* arguments in a buffer grown by realloc, and load_module.               *)
(*                                                                         *)
(* A string is abstracted to its length; a buffer to the length of its    *)
(* contents, its capacity and the end of the writes into it.  Library     *)
(* calls that can fail (gettimeofday, localtime, malloc, realloc, dlopen, *)
(* dlsym) fail or succeed by an existential choice.  Bytes malloc or       *)
(* realloc return are uninitialized: whether a NUL lies among them is a    *)
(* choice too.                                                             *)
(***************************************************************************)
EXTENDS Integers, Sequences

CONSTANTS
    MsgLens,     \* strlen of the messages callers pass to log_message
    DlErrLens,   \* strlen of the dlerror() strings load_module logs
    ArgLists,    \* argument lists of make_comm_string: sequences of strlen,
                 \* -1 for a NULL argument
    MaxCalls     \* bound on the calls

MAX_BUFF_SIZE == 512
LOGGER_BUFF_SIZE == 2 * MAX_BUFF_SIZE      \* sizeof LoggerBuff
TIMESTAMP_LEN == 22                        \* "%d-%m-%Y %T - "
RBC_TAG_LEN == 11                          \* "[robocheck]"
NULL_STRING_LEN == 6                       \* "[NULL]"
NOMEM_ERR_LEN == 26                        \* "Inssuficient memory space."
NullMsg == -1

Streams == {"stdout", "stderr", "stdin", "file"}
NoStream == "NULL"

is_internal_stream(s) == s \in {"stderr", "stdin", "stdout"}

MaxOf(a, b) == IF a >= b THEN a ELSE b
MinOf(a, b) == IF a <= b THEN a ELSE b

VARIABLES
    FileLogger,  \* the static FileLogger of rbc_utils.c
    closed,      \* streams fclose has closed
    blen,        \* strlen(LoggerBuff)
    logEnd,      \* one past the last LoggerBuff byte the last log call wrote
    comm,        \* the last make_comm_string: [ret, overflow, term]
    heap,        \* blocks malloc or realloc returned that free has not
                 \* released
    results,     \* non-NULL make_comm_string results the callers hold and
                 \* have not passed to rbc_free_mem
    handles,     \* dlopen handles not dlclose'd
    out,         \* the stream the last log line went to, NoStream for -1
    ncalls

vars == <<FileLogger, closed, blen, logEnd, comm, heap, results, handles, out, ncalls>>

-----------------------------------------------------------------------------
(* create_log_message(message) on a buffer whose strlen is len, with the   *)
(* outcome tv of gettimeofday and lt of localtime; the result is the new  *)
(* strlen and the end of the bytes written.  memset(LoggerBuff, 2 *       *)
(* MAX_BUFF_SIZE, 0) sets zero bytes, so the buffer keeps the previous    *)
(* message unless strftime rewrites it.  The sizes are size_t: a negative *)
(* int converts to a huge bound.                                           *)
create_log_message(len, mlen, tv, lt) ==
    LET max0 == MaxOf(LOGGER_BUFF_SIZE, mlen + 1)
        ts == IF tv /\ lt /\ TIMESTAMP_LEN < max0 THEN TIMESTAMP_LEN ELSE 0
        s0 == IF ts > 0 THEN ts ELSE len
        max1 == max0 - ts
        tag == IF max1 < 0 THEN RBC_TAG_LEN ELSE MinOf(RBC_TAG_LEN, max1)
        cur == s0 + tag
        n == (max1 - cur) - 1                 \* snprintf's size argument
        body == mlen + 2                      \* " %s\n"
        wrote == IF n < 0 THEN body ELSE MinOf(body, n - 1)
    IN  IF n = 0 THEN [len |-> cur, end |-> cur + 1]
        ELSE [len |-> cur + wrote, end |-> cur + wrote + 1]

\* log_message(message, f_ptr): the buffer is rebuilt whether or not a
\* stream takes the line, which goes to f_ptr, else to FileLogger, else
\* nowhere (status -1).
LogEffect(mlen, f) ==
    /\ \E tv, lt \in BOOLEAN :
          LET r == create_log_message(blen, mlen, tv, lt) IN
          /\ blen' = r.len
          /\ logEnd' = r.end
    /\ out' = IF f # NoStream THEN f ELSE FileLogger

log_message(m, f) ==
    /\ LogEffect(IF m = NullMsg THEN NULL_STRING_LEN ELSE m, f)
    /\ UNCHANGED <<FileLogger, closed, comm, heap, results, handles>>

init_robocheck ==
    /\ FileLogger' = "stdout"
    /\ UNCHANGED <<closed, blen, logEnd, comm, heap, results, handles, out>>

\* Variant: FileLogger is closed without the is_internal_stream test.
close_robocheck_null ==
    /\ closed' = closed \cup {FileLogger}
    /\ UNCHANGED <<FileLogger, blen, logEnd, comm, heap, results, handles, out>>

close_robocheck ==
    /\ closed' = IF is_internal_stream(FileLogger) THEN closed \cup {FileLogger} ELSE closed
    /\ UNCHANGED <<FileLogger, blen, logEnd, comm, heap, results, handles, out>>

-----------------------------------------------------------------------------
(* The loop of make_comm_string from argument i, with ret_string_len rl,   *)
(* max_len mx and ovf: whether a strncpy already wrote past the buffer.   *)
(* The set of outcomes: ok is FALSE when a realloc failed and the loop     *)
(* broke out.                                                              *)
RECURSIVE CommLoop(_, _, _, _, _)
CommLoop(args, i, rl, mx, ovf) ==
    IF i > Len(args) THEN {[ok |-> TRUE, rl |-> rl, mx |-> mx, ovf |-> ovf]}
    ELSE
    LET tl == args[i]
        grow == tl + rl + 3 > mx
        mx2 == IF grow THEN mx + MAX_BUFF_SIZE ELSE mx
        copied == CommLoop(args, i + 1, rl + tl + 1, mx2, ovf \/ rl + tl + 1 > mx2)
    IN  IF tl <= 0 THEN CommLoop(args, i + 1, rl, mx, ovf)
        ELSE IF grow
             THEN copied \cup {[ok |-> FALSE, rl |-> rl, mx |-> mx2, ovf |-> ovf]}
             ELSE copied

\* rbc_get_mem(count, element_size) when malloc returns NULL: NOMEM_ERR is
\* logged to FileLogger and NULL returned, which make_comm_string returns.
rbc_get_mem_failed ==
    /\ UNCHANGED <<heap, results>>
    /\ comm' = [ret |-> FALSE, overflow |-> FALSE, term |-> TRUE]
    /\ LogEffect(NOMEM_ERR_LEN, FileLogger)

\* Variant: the old block is not freed when realloc fails.
make_comm_string_nofree(args) ==
    /\ \/ rbc_get_mem_failed
       \/ \E o \in CommLoop(args, 1, 0, MAX_BUFF_SIZE, FALSE), term \in BOOLEAN :
          /\ comm' = [ret |-> o.ok, overflow |-> o.ovf, term |-> term /\ o.rl < o.mx]
          /\ heap' = heap + 1
          /\ results' = IF o.ok THEN results + 1 ELSE results
          /\ IF o.ok THEN UNCHANGED <<blen, logEnd, out>> ELSE LogEffect(NOMEM_ERR_LEN, NoStream)
    /\ UNCHANGED <<FileLogger, closed, handles>>

(* make_comm_string(argc, args): rbc_get_mem(MAX_BUFF_SIZE) either fails   *)
(* (logging NOMEM_ERR) or mallocs a block.  A realloc that succeeds       *)
(* releases the old block and returns a new one, which leaves the count   *)
(* of live blocks as it was.  The memset(ret_string, MAX_BUFF_SIZE, 0)    *)
(* sets zero bytes, so the block stays uninitialized; each non-empty      *)
(* argument is strncpy'd without its NUL, then a space; a failed realloc  *)
(* frees the block (rbc_free_mem), logs NOMEM_ERR and returns NULL.  The   *)
(* result is a string only if a NUL happens to lie in its uninitialized   *)
(* tail.                                                                   *)
make_comm_string(args) ==
    /\ \/ rbc_get_mem_failed
       \/ \E o \in CommLoop(args, 1, 0, MAX_BUFF_SIZE, FALSE), term \in BOOLEAN :
          /\ comm' = [ret |-> o.ok, overflow |-> o.ovf, term |-> term /\ o.rl < o.mx]
          /\ heap' = heap + 1 - (IF o.ok THEN 0 ELSE 1)   \* the malloc, and the free
                                                     \* after a failed realloc
          /\ results' = IF o.ok THEN results + 1 ELSE results
          /\ IF o.ok THEN UNCHANGED <<blen, logEnd, out>> ELSE LogEffect(NOMEM_ERR_LEN, NoStream)
    /\ UNCHANGED <<FileLogger, closed, handles>>

(* rbc_free_mem(&p) by a caller of make_comm_string: p is NULL, or a       *)
(* result it holds, which is freed and set to NULL.                        *)
rbc_free_mem ==
    /\ \/ UNCHANGED <<heap, results>>                      \* *mem_ptr == NULL
       \/ /\ results > 0
          /\ heap' = heap - 1
          /\ results' = results - 1
    /\ UNCHANGED <<FileLogger, closed, blen, logEnd, comm, handles, out>>

(* load_module: dlopen, dlsym, the tool's entry point, dlclose.  A failed  *)
(* dlopen or dlsym logs dlerror() and jumps to exit_function, past the    *)
(* dlclose.                                                                *)
load_module ==
    /\ \/ /\ \E e \in DlErrLens : LogEffect(e, NoStream)         \* dlopen failed
          /\ UNCHANGED handles
       \/ /\ \E e \in DlErrLens : LogEffect(e, NoStream)         \* dlsym failed
          /\ handles' = handles + 1
       \/ /\ UNCHANGED <<blen, logEnd, out, handles>>        \* tool ran, dlclose
    /\ UNCHANGED <<FileLogger, closed, comm, heap, results>>

-----------------------------------------------------------------------------
Init ==
    /\ FileLogger = NoStream
    /\ closed = {}
    /\ blen = 0
    /\ logEnd = 0
    /\ comm = [ret |-> FALSE, overflow |-> FALSE, term |-> TRUE]
    /\ heap = 0
    /\ results = 0
    /\ handles = 0
    /\ out = NoStream
    /\ ncalls = 0

Call(A) ==
    /\ ncalls < MaxCalls
    /\ ncalls' = ncalls + 1
    /\ A

Done ==
    /\ ncalls = MaxCalls
    /\ UNCHANGED vars

Next ==
    \/ Call(init_robocheck)
    \/ Call(close_robocheck)
    \/ \E m \in MsgLens \cup {NullMsg}, f \in Streams \cup {NoStream} : Call(log_message(m, f))
    \/ \E args \in ArgLists : Call(make_comm_string(args))
    \/ Call(rbc_free_mem)
    \/ Call(load_module)
    \/ Done

Spec == Init /\ [][Next]_vars

-----------------------------------------------------------------------------
(* Properties.                                                             *)

TypeOK ==
    /\ FileLogger \in Streams \cup {NoStream}
    /\ closed \subseteq Streams
    /\ blen \in Nat /\ logEnd \in Nat
    /\ comm \in [ret : BOOLEAN, overflow : BOOLEAN, term : BOOLEAN]
    /\ heap \in Nat /\ results \in Nat /\ handles \in Nat
    /\ out \in Streams \cup {NoStream}
    /\ ncalls \in 0 .. MaxCalls

(* make_comm_string leaks no memory: whether rbc_get_mem or a realloc in   *)
(* the middle of the arguments fails, and whatever the callers have freed *)
(* with rbc_free_mem since, every live heap block is a result a caller    *)
(* holds.                                                                  *)
NoLeak == heap = results

(* Every write stays inside its buffer and every returned string ends      *)
(* inside it: create_log_message writes only LoggerBuff[0 ..               *)
(* 2 * MAX_BUFF_SIZE - 1], for any message and any outcome of gettimeofday *)
(* and localtime, and make_comm_string's strncpy never writes past max_len *)
(* and its result holds a NUL within max_len.                              *)
BuffersInBounds ==
    /\ logEnd <= LOGGER_BUFF_SIZE
    /\ comm.ret => ~comm.overflow /\ comm.term
=============================================================================
