------------------------------ MODULE MCChannel -----------------------------
(***************************************************************************)
(* A small instance of RoomChannel for TLC: one tab whose user writes.     *)
(***************************************************************************)
EXTENDS RoomChannel

CONSTANTS t1
=============================================================================
