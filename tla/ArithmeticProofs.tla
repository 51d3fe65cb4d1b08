-------------------------- MODULE ArithmeticProofs --------------------------
(***************************************************************************)
(* What server_run makes of the results of rpcmath.cpp, for every width of *)
(* int64_t, is as Arithmetic states it.                                    *)
(***************************************************************************)
EXTENDS Arithmetic, MathFunctionsProofs

-----------------------------------------------------------------------------
(* server_run                                                              *)

(* What the function called for an operation returns. *)
LEMMA CalledIsExact ==
  ASSUME NEW f \in Ops, NEW x \in Ints, NEW y \in Ints
  PROVE  /\ Fits(f, x, y) => Called(f, x, y) = Exact(f, x, y)
         /\ ~Defined(f, x, y) => Called(f, x, y) = EINVAL
         /\ Defined(f, x, y) /\ ~Fits(f, x, y) => Called(f, x, y) = EOVERFLOW
<1>1. CASE f = "add"
  BY <1>1, AddIsExact DEF Called, Exact, Fits, Defined, Traps, Divides
<1>2. CASE f = "sub"
  BY <1>2, SubIsExact DEF Called, Exact, Fits, Defined, Traps, Divides
<1>3. CASE f = "mul"
  BY <1>3, MulIsExact DEF Called, Exact, Fits, Defined, Traps, Divides
<1>4. CASE f = "div"
  BY <1>4, QuotientFits DEF Called, Exact, Fits, Defined, Traps, Divides, Divide
<1>5. CASE f = "mod"
  BY <1>5, QuotientFits DEF Called, Exact, Fits, Defined, Traps, Divides, Mod
<1> QED
  BY <1>1, <1>2, <1>3, <1>4, <1>5 DEF Ops

(* The reply to a request is the one Compute gave it. *)
Replied ==
  phase = "done" =>
    LET result == Called(op, a, b) IN
      reply = [status |-> StatusOf(op, a, b, result), result |-> result]

(* Types are right in every state: no function returns what int64_t cannot hold. *)
THEOREM TypesAreRight == Spec => [](TypeOK /\ Replied)
<1>1. Init => TypeOK /\ Replied
  BY IntsAreIntegers DEF Init, TypeOK, Replied, NoReply, Ops
<1>2. TypeOK /\ Replied /\ [Next]_vars => TypeOK' /\ Replied'
  <2> SUFFICES ASSUME TypeOK, Replied, [Next]_vars
               PROVE  TypeOK' /\ Replied'
    OBVIOUS
  <2>1. CASE Receive
    BY <2>1 DEF Receive, TypeOK, Replied
  <2>2. CASE Compute
    <3>1. Called(op, a, b) \in Ints
      BY CalledIsInt DEF TypeOK
    <3>2. StatusOf(op, a, b, Called(op, a, b)) \in {0, EOVERFLOW, EINVAL}
      BY DEF StatusOf
    <3> QED
      BY <2>2, <3>1, <3>2 DEF Compute, TypeOK, Replied
  <2>3. CASE Trap
    BY <2>3 DEF Trap, TypeOK, Replied
  <2>4. CASE Finish
    BY <2>4, IntsAreIntegers DEF Finish, TypeOK, Replied, NoReply, Ops
  <2>5. CASE UNCHANGED vars
    BY <2>5 DEF vars, TypeOK, Replied
  <2> QED
    BY <2>1, <2>2, <2>3, <2>4, <2>5 DEF Next
<1> QED
  BY <1>1, <1>2, PTL DEF Spec

(* For every width of int64_t and every two operands: a result that fits is *)
(* returned exactly, with status 0, even when it equals an error number.    *)
THEOREM FittingResults == Spec => []FittingResultsAreReturned
<1>1. TypeOK /\ Replied => FittingResultsAreReturned
  <2> SUFFICES ASSUME TypeOK, Replied, phase = "done", Fits(op, a, b)
               PROVE  reply = [status |-> 0, result |-> Exact(op, a, b)]
    BY DEF FittingResultsAreReturned
  <2>1. Called(op, a, b) = Exact(op, a, b) /\ Exact(op, a, b) \in Ints
    BY CalledIsExact DEF TypeOK, Fits
  <2>2. Wrap(Exact(op, a, b)) = Exact(op, a, b)
    BY <2>1, WrapFits
  <2>3. StatusOf(op, a, b, Called(op, a, b)) = 0
    BY <2>1, <2>2 DEF StatusOf, Fits, Defined
  <2> QED
    BY <2>1, <2>3 DEF Replied
<1> QED
  BY <1>1, TypesAreRight, PTL

(* And every other request is refused, with the one exception stated.      *)
THEOREM OtherResults == Spec => []OthersAreRefused
<1>1. TypeOK /\ Replied => OthersAreRefused
  <2> SUFFICES ASSUME TypeOK, Replied, phase = "done", ~Fits(op, a, b)
               PROVE  \/ ~Defined(op, a, b) /\ reply.status = EINVAL
                      \/ Defined(op, a, b) /\ reply.status = EOVERFLOW
                      \/ /\ Defined(op, a, b) /\ reply.status = 0
                         /\ Wrap(Exact(op, a, b)) = EOVERFLOW
    BY DEF OthersAreRefused
  <2>1. CASE ~Defined(op, a, b)
    BY <2>1, CalledIsExact DEF TypeOK, Replied, StatusOf, Defined
  <2>2. CASE Defined(op, a, b)
    <3>1. Called(op, a, b) = EOVERFLOW
      BY <2>2, CalledIsExact DEF TypeOK
    <3> QED
      BY <2>2, <3>1 DEF Replied, StatusOf, Defined
  <2> QED
    BY <2>1, <2>2
<1> QED
  BY <1>1, TypesAreRight, PTL
=============================================================================
