--------------------------- MODULE MC_RegisterShadow ---------------------------
(***************************************************************************)
(* Instances of RegisterShadow for TLC: two threads, registers eax with   *)
(* its sub-registers and esp.                                              *)
(***************************************************************************)
EXTENDS RegisterShadow

CONSTANTS t1, t2

EAX == [ptr |-> "eax", size |-> 4, byte |-> 0]
AX == [ptr |-> "eax", size |-> 2, byte |-> 0]
AL == [ptr |-> "eax", size |-> 1, byte |-> 0]
AH == [ptr |-> "eax", size |-> 1, byte |-> 1]
ESP == [ptr |-> "esp", size |-> 4, byte |-> 0]

RegsLow == {EAX, AX, AL, ESP}
RegsHigh == {EAX, AH}

\* A dword with bytes 0 and 1 undefined, bytes 2 and 3 defined.
DwordLowUndef == 15
DwordVals3 == {SHADOW_DWORD_DEFINED, SHADOW_DWORD_UNDEFINED, DwordLowUndef}
=============================================================================
