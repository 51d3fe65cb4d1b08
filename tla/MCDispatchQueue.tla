---------------------------- MODULE MCDispatchQueue ----------------------------
(* A small instance of DispatchQueue for TLC; the values are in the .cfg.  *)
EXTENDS DispatchQueue

\* The second request of the first client is one that ends the process.
SecondIsFatal == {<<1, 2>>}
=============================================================================
