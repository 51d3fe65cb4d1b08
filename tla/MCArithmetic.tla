---------------------------- MODULE MCArithmetic ----------------------------
(* Arithmetic with bytes for int64_t and the error numbers of Linux.       *)
EXTENDS Arithmetic
=============================================================================
