---------------------------- MODULE MCConnection ----------------------------
(* Small instances of Connection for TLC.                                  *)
EXTENDS Connection

A  == <<"a">>
AB == <<"a", "b">>

MCNames   == {<<>>, A, AB}
MCLengths == [n \in MCNames |-> IF n = A THEN 4 ELSE NoFile]
MCGarbage == {-1, 0, 1000}

On(op, name, offset, size) == [op |-> op, name |-> name, offset |-> offset, size |-> size]
About(op, name) == [op |-> op, name |-> name]

\* A request on variables; flags are the names of those that are set.
Var(code, flags, operands) ==
  [op |-> "variables", code |-> code, operands |-> operands,
   flags |-> [f \in DOMAIN NoFlags |-> f \in flags]]

\* Arithmetic, with every flag and without, and names of 0, 31 and 32 bytes,
\* the limits.
Calculations ==
  {Var(1, {}, <<Number, Number>>), Var(2, {"a", "recursive"}, <<2, Number>>),
   Var(3, {"b", "result"}, <<Number, 31, 0>>),
   Var(1, {"a", "b", "result", "recursive"}, <<2, 2, 32>>)}

\* Get, set and delete, with and without flags: 0x0188, 0x0189 and 0x018F, and
\* an operation that does not exist, 0x0100.
NameRequests ==
  {Var(8, {}, <<3>>), Var(8, {}, <<32>>), Var(8, {"recursive"}, <<3>>),
   Var(9, {}, <<1, 31>>), Var(9, {"recursive"}, <<3, 3>>),
   Var(15, {}, <<3>>), Var(15, {"recursive"}, <<3>>), Var(0, {}, <<>>)}

FileRequests ==
  {On("read", A, 0, 4), On("read", A, 2, 2), On("read", A, 0, 5), On("read", A, 4, 3), On("read", AB, 0, 3),
   On("write", A, 1, 4), On("write", AB, 0, 3),
   About("filesize", A), About("filesize", AB), About("create", AB)}

AllRequests == Calculations \cup NameRequests \cup FileRequests
               \cup {About("load", AB), [op |-> "clear"], [op |-> "unknown"]}

\* Cut in the opcode, in the length of a name, in the name, in the offset, in
\* the size, and in the data.
FileParts ==
  {[req |-> On("read", A, 0, 4), got |-> n] : n \in {3, 9, 18}}
  \cup {[req |-> On("write", A, 1, 4), got |-> n] : n \in {16, 18, 20, 21}}
  \cup {[req |-> On("write", AB, 0, 3), got |-> 9], [req |-> About("create", AB), got |-> 9],
        [req |-> About("filesize", AB), got |-> 7]}

AllParts ==
  FileParts \cup {[req |-> Var(8, {}, <<3>>), got |-> 8],
                  [req |-> Var(8, {}, <<32>>), got |-> 12]}

LongReads == {On("read", A, 4, 3)}
=============================================================================
