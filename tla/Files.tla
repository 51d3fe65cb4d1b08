-------------------------------- MODULE Files --------------------------------
(***************************************************************************)
(* The calls of rpcfile.cpp on the content of one file: a sequence of      *)
(* bytes, or NoFile.  Each call opens the file again; read and filesize    *)
(* call stat() first, so that another request may come between: they are   *)
(* two operators, Stat and the rest.  Errors come back negative.  The      *)
(* calls are sets of outcomes: if denies, open() may fail although the     *)
(* file is there (no descriptor is left, no permission).                   *)
(***************************************************************************)
EXTENDS Integers, Sequences

CONSTANTS
  NoFile,
  Zero,         \* a byte nobody wrote
  Garbage       \* what st_size may hold if stat() failed: st is not initialised

ENOENT == 2
EEXIST == 17
EINVAL == 22
EMFILE == 24
ENOSPC == 28

\* Values of st.st_size after stat(filename, &st), whose result is not tested.
Stat(c) == IF c = NoFile THEN Garbage ELSE {Len(c)}

\* What comes of a call if open() succeeds, and if it is denied.
Outcomes(opened, denied, denies) == {opened} \cup (IF denies THEN {denied} ELSE {})

\* Faulty: the size is not passed on, as in create().
filesizeZero(c, st, denies) ==
  Outcomes(IF c = NoFile \/ st = -1 THEN -ENOENT ELSE 0, -EMFILE, denies)

\* st.st_size == -1 is taken for the sign of an error, errno is stat's.
filesize(c, st, denies) ==
  Outcomes(IF c = NoFile \/ st = -1 THEN -ENOENT ELSE st, -EMFILE, denies)

\* (uint64_t)st.st_size: a negative number is beyond every offset.
BeyondEnd(offset, st) == st >= 0 /\ offset > st

\* Faulty: the offset itself counts as read.
DataAtOneOff(c, offset, n) ==
  LET last == IF offset + n < Len(c) THEN offset + n ELSE Len(c)
  IN  SubSeq(c, offset + 2, last)

DataAt(c, offset, n) ==
  LET last == IF offset + n < Len(c) THEN offset + n ELSE Len(c)
  IN  SubSeq(c, offset + 1, last)

\* read(filename, offset, bufsize, buffer): what it returns, and the buffer.
read(c, st, offset, n, denies) ==
  Outcomes(
    IF c = NoFile \/ st = -1 THEN [result |-> -ENOENT, data |-> <<>>]
    ELSE IF BeyondEnd(offset, st) THEN [result |-> -EINVAL, data |-> <<>>]
    ELSE [result |-> Len(DataAt(c, offset, n)), data |-> DataAt(c, offset, n)],
    [result |-> -EMFILE, data |-> <<>>], denies)

\* Faulty: what was behind the data is cut off.
OverwrittenAndCut(c, offset, data, k) ==
  [i \in 1 .. offset + k |->
     IF i > offset THEN data[i - offset] ELSE IF i <= Len(c) THEN c[i] ELSE Zero]

\* The file after k bytes of data were written at offset: a gap is zeros.
Overwritten(c, offset, data, k) ==
  [i \in 1 .. IF k > 0 /\ offset + k > Len(c) THEN offset + k ELSE Len(c) |->
     IF i > offset /\ i <= offset + k THEN data[i - offset]
     ELSE IF i <= Len(c) THEN c[i]
     ELSE Zero]

\* write(filename, offset, bufsize, buffer): what it may return, and the file
\* after it.  A device that fills up takes a part of the data, then none.
write(c, offset, data, fails, denies) ==
  LET taken == IF fails /\ Len(data) > 0 THEN 1 .. Len(data) ELSE {Len(data)}
  IN IF c = NoFile
     THEN Outcomes([result |-> -ENOENT, file |-> c], [result |-> -EMFILE, file |-> c], denies)
     ELSE {[result |-> k, file |-> Overwritten(c, offset, data, k)] : k \in taken}
          \cup (IF fails /\ Len(data) > 0 THEN {[result |-> -ENOSPC, file |-> c]} ELSE {})
          \cup (IF denies THEN {[result |-> -EMFILE, file |-> c]} ELSE {})

\* create(filename), which returns its errors positive.
create(c, denies) ==
  Outcomes(IF c = NoFile THEN [result |-> 0, file |-> <<>>] ELSE [result |-> EEXIST, file |-> c],
           [result |-> EMFILE, file |-> c], denies)
=============================================================================
