--------------------------- MODULE VaultMath_proofs ---------------------------
(***************************************************************************)
(* Facts about the arithmetic of math.rs, for all arguments.               *)
(***************************************************************************)
EXTENDS VaultMath, WellFoundedInduction, TLAPS

-----------------------------------------------------------------------------
(* Rounding.                                                               *)

\* mul_div rounding down: the largest quotient that does not exceed the ratio.
LEMMA FloorBounds ==
    ASSUME NEW a \in Nat, NEW b \in Nat, NEW d \in Nat \ {0}
    PROVE  /\ MulDivFloor(a, b, d) \in Nat
           /\ MulDivFloor(a, b, d) * d <= a * b
           /\ a * b < (MulDivFloor(a, b, d) + 1) * d
<1>1. a * b \in Nat
  OBVIOUS
<1>2. \A n \in Nat : /\ n \div d \in Nat
                     /\ (n \div d) * d <= n
                     /\ n < ((n \div d) + 1) * d
  OBVIOUS
<1> QED
  BY <1>1, <1>2 DEF MulDivFloor

\* mul_div rounding up: the smallest quotient that covers the ratio.
LEMMA CeilBounds ==
    ASSUME NEW a \in Nat, NEW b \in Nat, NEW d \in Nat \ {0}
    PROVE  /\ MulDivCeil(a, b, d) \in Nat
           /\ a * b <= MulDivCeil(a, b, d) * d
           /\ MulDivCeil(a, b, d) * d < a * b + d
<1>1. a * b \in Nat
  OBVIOUS
<1>2. \A n \in Nat : /\ n \div d \in Nat /\ n % d \in 0 .. d - 1
                     /\ n = (n \div d) * d + (n % d)
  OBVIOUS
<1> DEFINE n == a * b
           q == n \div d
           r == n % d
<1>3. q \in Nat /\ r \in 0 .. d - 1 /\ n = q * d + r
  BY <1>1, <1>2
<1>4. (q + 1) * d = q * d + d
  BY <1>3
<1>5. CASE r = 0
  <2>1. MulDivCeil(a, b, d) = q
    BY <1>5, <1>3 DEF MulDivCeil, MulDivFloor
  <2> QED
    BY <2>1, <1>3, <1>5
<1>6. CASE r # 0
  <2>1. MulDivCeil(a, b, d) = q + 1
    BY <1>6, <1>3 DEF MulDivCeil, MulDivFloor
  <2> QED
    BY <2>1, <1>3, <1>4, <1>6
<1> QED
  BY <1>5, <1>6

\* The dust carried between settlements is less than one whole unit.
LEMMA FractionBounds ==
    ASSUME NEW a \in Nat, NEW b \in Nat, NEW d \in Nat \ {0},
           NEW scale \in Nat \ {0}
    PROVE  Fraction(a, b, d, scale) \in 0 .. scale - 1
<1> DEFINE r == (a * b) % d
           q == (r * scale) \div d
<1>1. a * b \in Nat
  OBVIOUS
<1>2. r \in 0 .. d - 1
  BY <1>1
<1>3. r * scale \in Nat /\ r * scale < d * scale
  BY <1>2
<1>4. q \in Nat /\ q * d <= r * scale
  <2>1. \A n \in Nat : n \div d \in Nat /\ (n \div d) * d <= n
    OBVIOUS
  <2> QED
    BY <2>1, <1>3
<1>5. q < scale
  BY <1>3, <1>4
<1> QED
  BY <1>4, <1>5 DEF Fraction

-----------------------------------------------------------------------------
(* Induction, for the recursive functions of the modules above: a set that *)
(* holds 0 and every successor of its numbers holds every natural number.  *)

Below == OpToRel(<, Nat)

LEMMA BelowWellFounded == IsWellFoundedOn(Below, Nat)
  BY NatLessThanWellFounded DEF Below

LEMMA LessIsBelow ==
    ASSUME NEW m \in Nat, NEW n \in Nat, m < n PROVE <<m, n>> \in Below
  BY DEF OpToRel, Below

LEMMA Induct ==
    ASSUME NEW S, 0 \in S, \A n \in Nat : n \in S => n + 1 \in S
    PROVE  Nat \subseteq S
<1> SUFFICES ASSUME Nat \ S # {} PROVE FALSE
  OBVIOUS
<1>1. PICK n \in Nat \ S : \A m \in Nat \ S : ~(<<m, n>> \in Below)
  BY BelowWellFounded, WFMin
<1>2. n \in Nat /\ n # 0
  BY <1>1
<1>3. n - 1 \in Nat /\ n - 1 < n /\ (n - 1) + 1 = n
  BY <1>2
<1>4. <<n - 1, n>> \in Below
  BY <1>2, <1>3, LessIsBelow
<1>5. n - 1 \in S
  BY <1>1, <1>3, <1>4
<1>6. (n - 1) + 1 \in S
  BY <1>3, <1>5
<1> QED
  BY <1>1, <1>3, <1>6

=============================================================================
