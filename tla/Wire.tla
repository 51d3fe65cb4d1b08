-------------------------------- MODULE Wire --------------------------------
(***************************************************************************)
(* Numbers and names on a connection: rpcconvert.cpp writes a number of n  *)
(* bytes with its highest byte first, rpcio.cpp reads a field into a       *)
(* buffer of zeros and goes on with what it has when the connection ends.  *)
(***************************************************************************)
EXTENDS Integers, Sequences

CONSTANTS
  Base,         \* values of a byte
  BufferSize    \* BUFFER_SIZE

ASSUME BaseAssumption   == Base \in Nat /\ Base > 1
ASSUME BufferAssumption == BufferSize \in Nat \ {0}

Least(a, b) == IF a <= b THEN a ELSE b

Bytes == 0 .. Base - 1

\* v >> 8, i times.
Shifted(v, n) ==
  LET at[i \in 0 .. n] == IF i = 0 THEN v ELSE at[i-1] \div Base IN at

\* uint8_to_wire, uint16_to_wire, uint32_to_wire, uint64_to_wire
ToWire(v, n) == [i \in 1 .. n |-> Shifted(v, n)[n - i] % Base]

\* wire_to_uint8, wire_to_uint16, wire_to_uint32, wire_to_uint64
FromWire(b, n) ==
  LET sum[i \in 1 .. n] == IF i = 1 THEN b[1] ELSE sum[i-1] * Base + b[i] IN sum[n]

\* The buffer of recv_uint8 .. recv_uint64 when got bytes of the field came.
Filled(b, n, got) == [i \in 1 .. n |-> IF i <= got THEN b[i] ELSE 0]

\* What recv_uint8 .. recv_uint64 return for the number v.
NumberReceived(v, n, got) == FromWire(Filled(ToWire(v, n), n, got), n)

\* What recv_string makes of a name: the characters that came, or nothing if
\* the buffer of wire_to_string is too small for the length that was announced.
NameReceived(name, got) ==
  IF Len(name) > BufferSize THEN <<>>
  ELSE SubSeq(name, 1, Least(got, Len(name)))
=============================================================================
