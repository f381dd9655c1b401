------------------------------ MODULE VaultMath ------------------------------
(***************************************************************************)
(* Integer arithmetic of the vault contract (contracts/vault/src/math.rs). *)
(*                                                                         *)
(* The code widens products to 256 bits, so a product of two i128 values   *)
(* is exact; a quotient that does not fit i128, like any checked addition  *)
(* that overflows, aborts the whole call.  Numbers are therefore unbounded *)
(* integers here: an overflow only removes a call, it never wraps.         *)
(***************************************************************************)
EXTENDS Integers

Least(a, b)    == IF a <= b THEN a ELSE b
Greatest(a, b) == IF a >= b THEN a ELSE b

\* mul_div(a, b, d, false)
MulDivFloor(a, b, d) == (a * b) \div d

\* mul_div(a, b, d, true): one more when the division leaves a remainder
MulDivCeil(a, b, d) ==
    MulDivFloor(a, b, d) + (IF (a * b) % d = 0 THEN 0 ELSE 1)

\* The fractional part of a*b/d in units of 1/scale
Fraction(a, b, d, scale) == (((a * b) % d) * scale) \div d

=============================================================================
