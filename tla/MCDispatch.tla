----------------------------- MODULE MCDispatch -----------------------------
(* Small instances of Dispatch for TLC; the values are in the .cfg files.  *)
EXTENDS Dispatch

\* A request of the first client is one that ends the process.
FirstIsFatal == {<<1, 1>>}
=============================================================================
