------------------------------ MODULE UInt256 -------------------------------
(***************************************************************************)
(* The UInt256 of src/src/bitcoin/uint256.cpp: an unsigned integer of four  *)
(* limbs, the least significant first, with the limb-wise carries, borrows  *)
(* and shifts of the code and its long division.  A limb has LimbBits bits, *)
(* 64 in the program; what is said of it is said of Value(a), the integer   *)
(* that the limbs stand for.                                                *)
(***************************************************************************)
EXTENDS Powers, FiniteSetsExt

CONSTANT LimbBits

ASSUME LimbBitsAssumption == LimbBits \in Nat \ {0}

Limbs    == 0 .. 3
LimbBase == Pow2[LimbBits]
Width    == 4 * LimbBits
Space    == Pow2[Width]
UInts    == [Limbs -> 0 .. LimbBase - 1]

Value(a) == a[0] + LimbBase * (a[1] + LimbBase * (a[2] + LimbBase * a[3]))

(* UInt256(v), for a v of one limb, and UInt256::max().                     *)
FromLimb(v) == [i \in Limbs |-> IF i = 0 THEN v ELSE 0]
Zero        == FromLimb(0)
Largest     == [i \in Limbs |-> LimbBase - 1]

IsZero(a) == \A i \in Limbs : a[i] = 0

(* The index of the highest bit, plus one.                                  *)
BitLength(a) ==
    IF IsZero(a) THEN 0
    ELSE LET top == Max({i \in Limbs : a[i] # 0})
         IN  top * LimbBits + Max({k \in 1 .. LimbBits : a[top] >= Pow2[k - 1]})

(* compare(): the highest limb that differs decides.                        *)
Less(a, b) ==
    \E i \in Limbs : a[i] < b[i] /\ \A j \in Limbs : j > i => a[j] = b[j]
AtMost(a, b) == a = b \/ Less(a, b)

(* The low bits of a limb come out of the limb below.                       *)
ShiftLeft(a, shift) ==
    LET limbShift == shift \div LimbBits
        bitShift  == shift % LimbBits
        From(src) == ((a[src] * Pow2[bitShift]) % LimbBase)
                       + IF src > 0 THEN a[src - 1] \div Pow2[LimbBits - bitShift] ELSE 0
    IN  IF shift >= Width THEN Zero
        ELSE [dst \in Limbs |-> IF dst < limbShift THEN 0 ELSE From(dst - limbShift)]

ShiftRight(a, shift) ==
    LET limbShift == shift \div LimbBits
        bitShift  == shift % LimbBits
        From(src) == (a[src] \div Pow2[bitShift])
                       + IF src < 3 THEN (a[src + 1] * Pow2[LimbBits - bitShift]) % LimbBase
                                    ELSE 0
    IN  IF shift >= Width THEN Zero
        ELSE [dst \in Limbs |-> IF dst + limbShift > 3 THEN 0 ELSE From(dst + limbShift)]

(* operator+: a limb that comes out smaller has carried.                    *)
Add(a, b) ==
    LET Sum(i) == (a[i] + b[i]) % LimbBase
        carry[i \in 0 .. 4] ==
          IF i = 0 THEN 0
          ELSE LET total == (Sum(i - 1) + carry[i - 1]) % LimbBase
               IN  IF Sum(i - 1) < a[i - 1] \/ total < Sum(i - 1) THEN 1 ELSE 0
    IN  [i \in Limbs |-> (Sum(i) + carry[i]) % LimbBase]

(* Wrong form: no borrow is taken on from a limb that the borrow empties.   *)
SubtractForgets(a, b) ==
    LET borrow[i \in 0 .. 4] ==
          IF i = 0 THEN 0 ELSE IF a[i - 1] < b[i - 1] THEN 1 ELSE 0
    IN  [i \in Limbs |-> (a[i] - b[i] - borrow[i]) % LimbBase]

(* operator-: a borrow passes through a limb that is all used up.           *)
Subtract(a, b) ==
    LET Diff(i) == (a[i] - b[i]) % LimbBase
        borrow[i \in 0 .. 4] ==
          IF i = 0 THEN 0
          ELSE IF a[i - 1] < b[i - 1] \/ (borrow[i - 1] = 1 /\ Diff(i - 1) = 0)
                 THEN 1 ELSE 0
    IN  [i \in Limbs |-> (Diff(i) - borrow[i]) % LimbBase]

BitOf(a, bit) == (a[bit \div LimbBits] \div Pow2[bit % LimbBits]) % 2

(* divide(): restoring division, from the highest bit on.  The remainder is *)
(* shifted before it is compared and must not lose its highest bit.         *)
DivideStep(numerator, denominator, n, last) ==
    LET bit     == Width - n
        shifted == ShiftLeft(last.rem, 1)
        rem     == [shifted EXCEPT ![0] = @ + BitOf(numerator, bit)]
    IN  IF AtMost(denominator, rem)
          THEN [rem |-> Subtract(rem, denominator),
                quotient |-> [last.quotient EXCEPT ![bit \div LimbBits] = @ + Pow2[bit % LimbBits]]]
          ELSE [last EXCEPT !.rem = rem]

DivideSteps(numerator, denominator) ==
    LET after[n \in 0 .. Width] ==
          IF n = 0 THEN [quotient |-> Zero, rem |-> Zero]
          ELSE DivideStep(numerator, denominator, n, after[n - 1])
    IN  after[Width]

(* Both results are zero when the denominator is.                           *)
Divide(numerator, denominator) ==
    IF IsZero(denominator) THEN Zero ELSE DivideSteps(numerator, denominator).quotient
Remainder(numerator, denominator) ==
    IF IsZero(denominator) THEN Zero ELSE DivideSteps(numerator, denominator).rem

-----------------------------------------------------------------------------
(* "Everything here is exact integer arithmetic" (uint256.hpp:12): the      *)
(* limbs compute what the integers do, modulo 2^256.                        *)
SumsAreExact(a, b) ==
    /\ Value(Add(a, b)) = (Value(a) + Value(b)) % Space
    /\ Value(Subtract(a, b)) = (Value(a) - Value(b)) % Space
    /\ Less(a, b) <=> Value(a) < Value(b)

(* A shift multiplies or divides by a power of two.  (The products are      *)
(* taken apart to stay below 2^Width.)                                      *)
ShiftsAreExact(a, shift) ==
    /\ Value(ShiftLeft(a, shift)) =
         IF shift >= Width THEN 0
         ELSE (Value(a) % Pow2[Width - shift]) * Pow2[shift]
    /\ Value(ShiftRight(a, shift)) =
         IF shift >= Width THEN 0 ELSE Value(a) \div Pow2[shift]
    /\ BitLength(a) <= shift <=> (shift >= Width \/ Value(a) < Pow2[shift])

(* "Exact truncating division" (uint256.hpp:63), also by denominators whose *)
(* highest bit is set.                                                      *)
QuotientsAreExact(a, b) ==
    ~IsZero(b) => /\ Value(Divide(a, b)) = Value(a) \div Value(b)
                  /\ Value(Remainder(a, b)) = Value(a) % Value(b)
=============================================================================
