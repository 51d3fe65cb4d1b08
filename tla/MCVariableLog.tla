--------------------------- MODULE MCVariableLog ---------------------------
(* Small instances of VariableLog for TLC.  The log treats numbers and     *)
(* names alike: two names are all the values a variable has here.          *)
EXTENDS VariableLog

CONSTANTS x, y

\* Files a client can have written: none, one with a deletion, one that sets
\* a variable twice, one with a line that is not accepted.
MCFileContents ==
  { NoFile,
    <<Line(x, Absent), Line(y, Name(x))>>,
    <<Line(x, Name(x)), Line(y, Name(x)), Line(x, Name(y))>>,
    <<Line(y, Name(x)), BadLine, Line(x, Name(x))>> }

NoFiles == {NoFile}
=============================================================================
