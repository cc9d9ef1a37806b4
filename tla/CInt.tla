-------------------------------- MODULE CInt --------------------------------
(***************************************************************************)
(* The int of the program, in two's complement.  On the machines it runs   *)
(* on an int has 32 bits and HalfRange is 2^31.                            *)
(***************************************************************************)
EXTENDS Integers

CONSTANT HalfRange    \* int ranges over -HalfRange .. HalfRange - 1

ASSUME IntAssumption == HalfRange \in Nat

Int32 == -HalfRange .. HalfRange - 1

(***************************************************************************)
(* The int that a sum or difference of two ints, or an unsigned number,    *)
(* leaves in a register: x is at most 2 * HalfRange away from zero.        *)
(***************************************************************************)
Wrap(x) ==
  IF x >= HalfRange THEN x - 2 * HalfRange
  ELSE IF x < -HalfRange THEN x + 2 * HalfRange
  ELSE x
=============================================================================
