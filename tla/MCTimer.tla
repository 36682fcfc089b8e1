------------------------------ MODULE MCTimer ------------------------------
(* Finite instances of Timer for TLC. *)
EXTENDS Timer
=============================================================================
