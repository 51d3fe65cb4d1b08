------------------------ MODULE MathFunctionsProofs ------------------------
(***************************************************************************)
(* The functions of rpcmath.cpp for every width of int64_t: the guards     *)
(* find every overflow and nothing else, and no function returns what      *)
(* int64_t cannot hold.                                                    *)
(***************************************************************************)
EXTENDS MathFunctions, TLAPS

-----------------------------------------------------------------------------
(* Integers.                                                               *)

LEMMA IntsAreIntegers ==
  /\ MaxInt \in Nat
  /\ \A x : x \in Ints <=> x \in Int /\ -MaxInt - 1 <= x /\ x <= MaxInt
  BY WidthAssumption DEF Ints, MinInt

LEMMA ErrnosAreInts ==
  EOVERFLOW \in Ints /\ EINVAL \in Ints /\ EOVERFLOW # 0 /\ EINVAL # 0
  BY WidthAssumption, ErrnoAssumption DEF Ints, MinInt

(* Reducing to the width of int64_t leaves alone what fits. *)
LEMMA WrapFits ==
  ASSUME NEW x \in Ints
  PROVE  Wrap(x) = x
<1>1. MaxInt \in Nat /\ x \in Int /\ -MaxInt - 1 <= x /\ x <= MaxInt
  BY IntsAreIntegers
<1>2. x + MaxInt + 1 >= 0 /\ x + MaxInt + 1 < 2 * (MaxInt + 1)
  BY <1>1
<1>3. (x - MinInt) % (2 * (MaxInt + 1)) = x + MaxInt + 1
  BY <1>1, <1>2 DEF MinInt
<1> QED
  BY <1>1, <1>3 DEF Wrap, MinInt

(* The guard of a product as a division: q > m / p is p * q > m. *)
LEMMA GuardOfProduct ==
  ASSUME NEW m \in Nat, NEW p \in Nat \ {0}, NEW q \in Nat
  PROVE  /\ m \div p \in Nat
         /\ q > m \div p <=> p * q > m
<1> DEFINE d == m \div p
<1>1. d \in Nat /\ p * d <= m /\ m < p * (d + 1)
  OBVIOUS
<1> HIDE DEF d
<1>2. CASE q > d
  <2>1. q >= d + 1
    BY <1>1, <1>2
  <2>2. p * q >= p * (d + 1)
    BY <1>1, <2>1
  <2> QED
    BY <1>1, <1>2, <2>2
<1>3. CASE q <= d
  <2>1. p * q <= p * d
    BY <1>1, <1>3
  <2> QED
    BY <1>1, <1>3, <2>1
<1>4. d \in Nat /\ (q > d <=> p * q > m)
  BY <1>1, <1>2, <1>3
<1> QED
  BY <1>4 DEF d

-----------------------------------------------------------------------------
(* rpcmath.cpp                                                             *)

(* add() is the sum, or EOVERFLOW if the sum does not fit. *)
LEMMA AddIsExact ==
  ASSUME NEW x \in Ints, NEW y \in Ints
  PROVE  Add(x, y) = IF x + y \in Ints THEN x + y ELSE EOVERFLOW
<1>1. MaxInt \in Nat /\ x \in Int /\ y \in Int
  BY IntsAreIntegers
<1>2. ((y > 0 /\ x > MaxInt - y) \/ (y < 0 /\ x < MinInt - y)) <=> x + y \notin Ints
  BY <1>1 DEF Ints, MinInt
<1> QED
  BY <1>2, WrapFits DEF Add

(* sub() is the difference, or EOVERFLOW if the difference does not fit. *)
LEMMA SubIsExact ==
  ASSUME NEW x \in Ints, NEW y \in Ints
  PROVE  Sub(x, y) = IF x - y \in Ints THEN x - y ELSE EOVERFLOW
<1>1. MaxInt \in Nat /\ x \in Int /\ y \in Int
  BY IntsAreIntegers
<1>2. ((y > 0 /\ x < MinInt + y) \/ (y < 0 /\ x > MaxInt + y)) <=> x - y \notin Ints
  BY <1>1 DEF Ints, MinInt
<1> QED
  BY <1>2, WrapFits DEF Sub

(* mul() is the product, or EOVERFLOW if the product does not fit: one case *)
(* per sign of the factors, each with its own division as a guard.          *)
LEMMA MulIsExact ==
  ASSUME NEW x \in Ints, NEW y \in Ints
  PROVE  Mul(x, y) = IF x * y \in Ints THEN x * y ELSE EOVERFLOW
<1>1. MaxInt \in Nat /\ x \in Int /\ y \in Int /\ x * y \in Int
  BY IntsAreIntegers
<1>2. MulOverflows(x, y) <=> x * y \notin Ints
  <2>1. CASE x = 0 \/ y = 0
    <3>1. x * y = 0
      BY <1>1, <2>1
    <3> QED
      BY <1>1, <2>1, <3>1 DEF MulOverflows, Ints, MinInt
  <2>2. CASE x > 0 /\ y > 0
    <3>1. x > MaxInt \div y <=> y * x > MaxInt
      BY <1>1, <2>2, GuardOfProduct
    <3>2. Quotient(MaxInt, y) = MaxInt \div y
      BY <1>1, <2>2 DEF Quotient, Abs
    <3>3. x * y = y * x /\ x * y > 0
      BY <1>1, <2>2
    <3> QED
      BY <1>1, <2>2, <3>1, <3>2, <3>3 DEF MulOverflows, Ints, MinInt
  <2>3. CASE x > 0 /\ y < 0
    <3>1. /\ (MaxInt + 1) \div x \in Nat
          /\ -y > (MaxInt + 1) \div x <=> x * (-y) > MaxInt + 1
      BY <1>1, <2>3, GuardOfProduct
    <3>2. Quotient(MinInt, x) = -((MaxInt + 1) \div x)
      BY <1>1, <2>3 DEF Quotient, Abs, MinInt
    <3>3. x * (-y) = -(x * y) /\ x * y < 0
      BY <1>1, <2>3
    <3> QED
      BY <1>1, <2>3, <3>1, <3>2, <3>3 DEF MulOverflows, Ints, MinInt
  <2>4. CASE x < 0 /\ y > 0
    <3>1. /\ (MaxInt + 1) \div y \in Nat
          /\ -x > (MaxInt + 1) \div y <=> y * (-x) > MaxInt + 1
      BY <1>1, <2>4, GuardOfProduct
    <3>2. Quotient(MinInt, y) = -((MaxInt + 1) \div y)
      BY <1>1, <2>4 DEF Quotient, Abs, MinInt
    <3>3. y * (-x) = -(x * y) /\ x * y < 0
      BY <1>1, <2>4
    <3> QED
      BY <1>1, <2>4, <3>1, <3>2, <3>3 DEF MulOverflows, Ints, MinInt
  <2>5. CASE x < 0 /\ y < 0
    <3>1. /\ MaxInt \div (-x) \in Nat
          /\ -y > MaxInt \div (-x) <=> (-x) * (-y) > MaxInt
      BY <1>1, <2>5, GuardOfProduct
    <3>2. Quotient(MaxInt, x) = -(MaxInt \div (-x))
      BY <1>1, <2>5 DEF Quotient, Abs
    <3>3. (-x) * (-y) = x * y /\ x * y > 0
      BY <1>1, <2>5
    <3> QED
      BY <1>1, <2>5, <3>1, <3>2, <3>3 DEF MulOverflows, Ints, MinInt
  <2> QED
    BY <1>1, <2>1, <2>2, <2>3, <2>4, <2>5
<1> QED
  BY <1>2, WrapFits DEF Mul

(* The quotient and the remainder fit, but for INT64_MIN / -1. *)
LEMMA QuotientFits ==
  ASSUME NEW x \in Ints, NEW y \in Ints, y # 0, ~(x = MinInt /\ y = -1)
  PROVE  Quotient(x, y) \in Ints /\ Remainder(x, y) \in Ints
<1> DEFINE q == Abs(x) \div Abs(y)
<1>1. MaxInt \in Nat /\ x \in Int /\ y \in Int
  BY IntsAreIntegers
<1>2. Abs(x) \in Nat /\ Abs(y) \in Nat \ {0}
  BY <1>1 DEF Abs
<1>3. q \in Nat /\ Abs(y) * q <= Abs(x) /\ Abs(x) < Abs(y) * (q + 1)
  BY <1>2
<1> HIDE DEF q
<1>4. q <= Abs(y) * q
  BY <1>2, <1>3
<1>5. Abs(y) = 1 \/ Abs(y) >= 2
  BY <1>2
<1>6. Abs(y) >= 2 => 2 * q <= Abs(y) * q
  BY <1>2, <1>3
<1>7. Abs(y) = 1 => q = Abs(x)
  BY <1>2, <1>3
<1>8. Quotient(x, y) = IF (x < 0) = (y < 0) THEN q ELSE -q
  BY DEF Quotient, q
<1>9. Quotient(x, y) \in Ints
  <2>1. CASE Abs(y) = 1
    BY <1>1, <1>7, <1>8, <2>1 DEF Abs, Ints, MinInt
  <2>2. CASE Abs(y) >= 2
    BY <1>1, <1>2, <1>3, <1>6, <1>8, <2>2 DEF Abs, Ints, MinInt
  <2> QED
    BY <1>5, <2>1, <2>2
<1>10. Abs(y) * q \in Nat /\ Abs(x) - Abs(y) * q \in 0 .. Abs(x)
  BY <1>2, <1>3
<1>11. y * Quotient(x, y) = IF x < 0 THEN -(Abs(y) * q) ELSE Abs(y) * q
  BY <1>1, <1>3, <1>8 DEF Abs
<1>12. Remainder(x, y) \in Ints
  BY <1>1, <1>10, <1>11 DEF Remainder, Abs, Ints, MinInt
<1> QED
  BY <1>9, <1>12

(* What server_run calls returns an int64_t. *)
LEMMA CalledIsInt ==
  ASSUME NEW f \in Ops, NEW x \in Ints, NEW y \in Ints
  PROVE  Called(f, x, y) \in Ints
<1>1. Add(x, y) \in Ints /\ Sub(x, y) \in Ints /\ Mul(x, y) \in Ints
  BY AddIsExact, SubIsExact, MulIsExact, ErrnosAreInts
<1>2. Divide(x, y) \in Ints /\ Mod(x, y) \in Ints
  BY QuotientFits, ErrnosAreInts DEF Divide, Mod
<1> QED
  BY <1>1, <1>2 DEF Called, Ops
=============================================================================
