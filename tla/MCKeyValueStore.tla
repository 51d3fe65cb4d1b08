-------------------------- MODULE MCKeyValueStore --------------------------
(* Small instances of KeyValueStore for TLC.                               *)
EXTENDS KeyValueStore

CONSTANTS a, b, c

\* a and b share a list, c has one of its own.
MCHash == (a :> 0) @@ (b :> 0) @@ (c :> 1)

\* Numbers: zero and ENOENT, which the lookup also returns as an error.
MCValues == {0, 2}
=============================================================================
