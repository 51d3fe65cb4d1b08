--------------------------- MODULE MathFunctions ---------------------------
(***************************************************************************)
(* The five functions of rpcmath.cpp and the status server_run gives their *)
(* results.  A function reports an error by returning the error number as  *)
(* its result; server_run tells this from a true result of that value by   *)
(* computing the operation again, without a check for overflow.            *)
(*                                                                         *)
(* int64_t is MinInt .. MaxInt.  Overflow of a signed operation is         *)
(* undefined; add, subtract and multiply instructions wrap around, and the *)
(* instruction for division traps (x86) or wraps around (ARM).             *)
(***************************************************************************)
EXTENDS Integers

CONSTANTS
  MaxInt,      \* INT64_MAX
  EOVERFLOW,
  EINVAL

MinInt == -MaxInt - 1      \* INT64_MIN
Ints   == MinInt .. MaxInt

ASSUME WidthAssumption == MaxInt \in Nat
ASSUME ErrnoAssumption == /\ EOVERFLOW \in 1 .. MaxInt
                          /\ EINVAL \in 1 .. MaxInt
                          /\ EOVERFLOW # EINVAL

Ops == {"add", "sub", "mul", "div", "mod"}

-----------------------------------------------------------------------------
(* Integers of C.                                                          *)

Abs(x) == IF x < 0 THEN -x ELSE x

\* x / y and x % y for y # 0: the quotient is rounded towards zero.
Quotient(x, y) ==
  LET q == Abs(x) \div Abs(y) IN IF (x < 0) = (y < 0) THEN q ELSE -q

Remainder(x, y) == x - y * Quotient(x, y)

\* An integer reduced to the width of int64_t.
Wrap(x) == ((x - MinInt) % (2 * (MaxInt + 1))) + MinInt

-----------------------------------------------------------------------------
(* rpcmath.cpp                                                             *)

\* Faulty: no check for overflow, and a wider result.
AddUnchecked(x, y) == x + y

\* Faulty: refuses the largest sum.
AddTooStrict(x, y) ==
  IF (y > 0 /\ x >= MaxInt - y) \/ (y < 0 /\ x < MinInt - y) THEN EOVERFLOW
  ELSE Wrap(x + y)

Add(x, y) ==
  IF (y > 0 /\ x > MaxInt - y) \/ (y < 0 /\ x < MinInt - y) THEN EOVERFLOW
  ELSE Wrap(x + y)

Sub(x, y) ==
  IF (y > 0 /\ x < MinInt + y) \/ (y < 0 /\ x > MaxInt + y) THEN EOVERFLOW
  ELSE Wrap(x - y)

\* Faulty: the product of two negative numbers is not checked.
MulOverflowsNotBothNegative(x, y) ==
  \/ x > 0 /\ y > 0 /\ x > Quotient(MaxInt, y)
  \/ x > 0 /\ y < 0 /\ y < Quotient(MinInt, x)
  \/ x < 0 /\ y > 0 /\ x < Quotient(MinInt, y)

MulOverflows(x, y) ==
  \/ x > 0 /\ y > 0 /\ x > Quotient(MaxInt, y)
  \/ x > 0 /\ y < 0 /\ y < Quotient(MinInt, x)
  \/ x < 0 /\ y > 0 /\ x < Quotient(MinInt, y)
  \/ x < 0 /\ y < 0 /\ y < Quotient(MaxInt, x)

Mul(x, y) == IF MulOverflows(x, y) THEN EOVERFLOW ELSE Wrap(x * y)

Divide(x, y) ==
  IF y = 0 THEN EINVAL
  ELSE IF x = MinInt /\ y = -1 THEN EOVERFLOW
  ELSE Quotient(x, y)

Mod(x, y) ==
  IF y = 0 THEN EINVAL
  ELSE IF x = MinInt /\ y = -1 THEN EOVERFLOW
  ELSE Remainder(x, y)

-----------------------------------------------------------------------------
(* server_run                                                              *)

Called(f, x, y) ==
  CASE f = "add" -> Add(x, y)
    [] f = "sub" -> Sub(x, y)
    [] f = "mul" -> Mul(x, y)
    [] f = "div" -> Divide(x, y)
    [] f = "mod" -> Mod(x, y)

\* The operation itself, on integers without a bound.
Exact(f, x, y) ==
  CASE f = "add" -> x + y
    [] f = "sub" -> x - y
    [] f = "mul" -> x * y
    [] f = "div" -> Quotient(x, y)
    [] f = "mod" -> Remainder(x, y)

Divides(f) == f \in {"div", "mod"}

StatusOf(f, x, y, result) ==
  IF Divides(f) /\ y = 0 THEN IF result = EINVAL THEN EINVAL ELSE 0
  ELSE IF result = EOVERFLOW /\ Wrap(Exact(f, x, y)) # EOVERFLOW THEN EOVERFLOW
  ELSE 0

\* The second division is the one that the processor may not survive.
Traps(f, x, y) == Divides(f) /\ x = MinInt /\ y = -1
=============================================================================
