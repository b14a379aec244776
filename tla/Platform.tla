------------------------------ MODULE Platform ------------------------------
(***************************************************************************)
(* What the modules take from the machine: the null pointer, whatever it   *)
(* is a pointer to, and the powers of two of shifts and words.             *)
(***************************************************************************)
EXTENDS Naturals

CONSTANT Null

(* 1 << shift.                                                             *)
Bit[shift \in Nat] == IF shift = 0 THEN 1 ELSE 2 * Bit[shift - 1]
=============================================================================
