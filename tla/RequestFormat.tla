---------------------------- MODULE RequestFormat ----------------------------
(***************************************************************************)
(* How many bytes a request has: as a client sends it, and as server_run   *)
(* takes it from the connection.  For requests on variables (0x1XX) the    *)
(* server finds out from the bits of the opcode which operands follow.     *)
(***************************************************************************)
EXTENDS Wire, Functions

HeaderSize == 6     \* opcode and identifier
MaxName    == 31    \* the longest name of a variable that is read
Number     == -1    \* an operand without a name

\* What a client asks of variables: an operation and the flags of its opcode,
\* for operands a and b that are names, a name for the result, and a lookup of
\* names of names.  Operands are the lengths of names, or Number.
Flags   == [a : BOOLEAN, b : BOOLEAN, result : BOOLEAN, recursive : BOOLEAN]
NoFlags == [a |-> FALSE, b |-> FALSE, result |-> FALSE, recursive |-> FALSE]

OnVariables == [op : {"variables"}, code : 0 .. 15, flags : Flags,
                operands : Seq({Number} \cup 0 .. 255)]

Arithmetic == 1 .. 5
OnVariable == {8, 9, 15}     \* get, set, delete

\* What a client sends after the opcode, whatever the server makes of it: for
\* arithmetic what the flags say, one name to get or delete, two to set, and
\* nothing for an operation that does not exist.
HasItsOperands(r) ==
  LET n         == Len(r.operands)
      isName(i) == r.operands[i] # Number
  IN \/ /\ r.code \in Arithmetic
        /\ n = IF r.flags.result THEN 3 ELSE 2
        /\ isName(1) <=> r.flags.a
        /\ isName(2) <=> r.flags.b
        /\ r.flags.result => isName(3)
     \/ r.code \in {8, 15} /\ n = 1 /\ isName(1)
     \/ r.code = 9 /\ n = 2 /\ isName(1) /\ isName(2)
     \/ r.code \notin Arithmetic \cup OnVariable /\ n = 0

\* The opcodes the bits of which server_run reads as they are meant: flags
\* are for arithmetic.
IsServed(r) == r.code \in Arithmetic \/ (r.code \in OnVariable /\ r.flags = NoFlags)

\* uint16_t lengths and sizes, uint64_t offsets.
OnFiles(names) == [op : {"read", "write"}, name : names, offset : Nat, size : Nat]
OnNames(names) == [op : {"create", "filesize", "dump", "load"}, name : names]
Others         == [op : {"clear", "unknown"}]

-----------------------------------------------------------------------------
(* The client.                                                             *)

If(cond, n) == IF cond THEN n ELSE 0

\* The low byte of the opcode.
Opcode(r) ==
  r.code + If(r.flags.a, 16) + If(r.flags.b, 32)
         + If(r.flags.result, 64) + If(r.flags.recursive, 128)

SumOf(lengths) == FoldFunction(+, 0, lengths)

OperandsSent(r) ==
  SumOf([i \in DOMAIN r.operands |->
           IF r.operands[i] = Number THEN 8 ELSE 1 + r.operands[i]])

\* The bytes of a whole request.
BytesOf(r) ==
  HeaderSize +
    (CASE r.op = "variables" -> OperandsSent(r)
       [] r.op = "read"      -> 2 + Len(r.name) + 10
       [] r.op = "write"     -> 2 + Len(r.name) + 10 + r.size
       [] r.op \in {"create", "filesize", "dump", "load"} -> 2 + Len(r.name)
       [] r.op = "clear"     -> 4
       [] r.op = "unknown"   -> 0)

-----------------------------------------------------------------------------
(* The server.                                                             *)

Bit(var, i) == (var \div 2^i) % 2 = 1

\* Faulty: an opcode with a variable a has no number b either.
ExpectedNoB(var) ==
  (IF Bit(var, 3) \/ Bit(var, 4) \/ var = 15 THEN <<"name">> ELSE <<"number">>)
  \o (IF Bit(var, 5) \/ var = 9 THEN <<"name">>
      ELSE IF ~Bit(var, 4) /\ var # 8 /\ var # 15 THEN <<"number">> ELSE <<>>)
  \o (IF Bit(var, 6) THEN <<"name">> ELSE <<>>)

\* The operands server_run receives for the low byte var of an opcode 0x1XX.
Expected(var) ==
  (IF Bit(var, 3) \/ Bit(var, 4) \/ var = 15 THEN <<"name">> ELSE <<"number">>)
  \o (IF Bit(var, 5) \/ var = 9 THEN <<"name">>
      ELSE IF var # 8 /\ var # 15 THEN <<"number">> ELSE <<>>)
  \o (IF Bit(var, 6) THEN <<"name">> ELSE <<>>)

\* The bytes server_run receives for a request on variables: a name with a
\* length that is not allowed stays in the connection.
OperandsTaken(r) ==
  LET kinds == Expected(Opcode(r)) IN
    SumOf([i \in DOMAIN kinds |->
             IF kinds[i] = "number" THEN 8
             ELSE 1 + If(i \in DOMAIN r.operands /\ r.operands[i] \in 1 .. MaxName,
                         r.operands[i])])

\* What is left in the connection of a request of which got bytes arrived, or,
\* below zero, was taken of what follows it.  At the end of the connection
\* nothing follows.
Leftover(r, got) ==
  LET operands == IF r.op = "variables" THEN OperandsTaken(r) ELSE BytesOf(r) - HeaderSize
      left     == got - HeaderSize - operands
  IN IF left > 0 \/ got = BytesOf(r) THEN left ELSE 0

\* What a request on a file comes to when got bytes of it arrived: all that
\* is missing reads as zeros.  alive: the last recv() of the name returned
\* something.
Decoded(r, got) ==
  LET length  == NumberReceived(Len(r.name), 2, got - HeaderSize)
      rest    == got - HeaderSize - 2 - Len(r.name)    \* bytes after the name
      numbers == r.op \in {"read", "write"}
  IN [name    |-> IF length = Len(r.name)
                  THEN NameReceived(r.name, rest + length) ELSE <<>>,
      alive   |-> length > 0 /\ rest >= 0,
      offset  |-> If(numbers, NumberReceived(r.offset, 8, rest)),
      size    |-> If(numbers, NumberReceived(r.size, 2, rest - 8)),
      payload |-> If(r.op = "write" /\ rest > 10, rest - 10)]
=============================================================================
