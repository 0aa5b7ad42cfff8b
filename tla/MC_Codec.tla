------------------------------- MODULE MC_Codec -------------------------------
(***************************************************************************)
(* A block of two 16-bit uints (16 application bytes, 4 shadow bytes).     *)
(* The single-byte stores reach every pair of shadow byte 0, so with four *)
(* writes that byte takes all 256 values, and also hit the other uint; the *)
(* memset runs start in either uint, cross from one into the other, and   *)
(* end on, before or past a granularity boundary.                         *)
(***************************************************************************)
EXTENDS Codec

SetIdxMC == {0, 1, 2, 3, 9}
RangesMC == {<<4, 13>>, <<8, 16>>, <<0, 7>>, <<12, 20>>}
=============================================================================
