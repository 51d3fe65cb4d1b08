-------------------------- MODULE ConnectionProofs --------------------------
(***************************************************************************)
(* The safety properties of Connection, for every number of workers, every *)
(* file, every length of a buffer and of the requests that fit the fields  *)
(* they are sent in.                                                       *)
(*                                                                         *)
(* What is answered in the end is known from what a request has done so    *)
(* far (ReadOK, WriteOK: the chunks behind it), from what cannot change    *)
(* while others run (GrowthOK: files do not shrink) and from the place of  *)
(* every byte (FilesInv).                                                  *)
(***************************************************************************)
EXTENDS Connection, Induction, SequenceTheorems

-----------------------------------------------------------------------------
(* The inductive invariant, in parts.                                      *)

FileOps == {"create", "filesize", "read", "write"}

FileJobs ==
  [asked : {r \in Requests : r.op \in FileOps}, whole : BOOLEAN, name : Names,
   offset : Nat, size : Nat, payload : Nat, alive : BOOLEAN, st : Int,
   taken : Nat, left : Nat, at : Nat, count : 0 .. CountMod - 1, status : Nat,
   replies : 0 .. 2, announced : Int, sent : Seq(FileByte), garbled : BOOLEAN,
   start : Nat \cup {NoFile}, short : BOOLEAN, alone : BOOLEAN]
OtherJobs == {NoJob} \cup [asked : {r \in Requests : r.op \notin FileOps}]

\* The byte that is i-th here is meant for the i-th position behind offset.
InPlace(data, offset) ==
  \A i \in DOMAIN data : data[i] # Zero => data[i][2] = offset + i

FilesInv ==
  /\ files \in [Names -> Seq(FileByte) \cup {NoFile}]
  /\ files[<<>>] = NoFile
  /\ \A n \in Names : files[n] # NoFile => InPlace(files[n], 0)

\* A request with the bytes of it that come.
Items == {i \in [req : Requests, got : Int] : i.got <= BytesOf(i.req)}

StreamInv ==
  /\ stream \in [Workers -> Seq(Items)]
  /\ open \in [Workers -> BOOLEAN]
  /\ calls \in 0 .. MaxCalls

Working == {"stat", "size", "restat", "read", "create", "write"}

TypesInv ==
  /\ pc \in [Workers -> Working \cup {"idle", "done", "astray"}]
  /\ rest \in [Workers -> Int]
  /\ job \in [Workers -> FileJobs \cup OtherJobs]

(* What is known of one worker: w, at p in server_run, with the request j, *)
(* t bytes left in its connection, and the files f.                        *)

PcOK(p, j, t) ==
  /\ p \in Working => t = 0
  /\ p = "create" => j.asked.op = "create"
  /\ p \in {"stat", "size"} => j.asked.op \in {"filesize", "read"}
  /\ p \in {"restat", "read"} => j.asked.op = "read"
  /\ p = "write" => j.asked.op = "write"

\* Sizes and offsets.
JobOK(j) ==
  /\ j.left <= j.size /\ j.at <= j.offset + j.size
  /\ j.whole => j.alive \/ j.name = <<>>
  /\ j.whole /\ j.asked.op = "write" => j.size <= j.payload
  /\ j.asked.op = "read" => j.size <= (CountMod - 1) * BufferSize

\* A file that existed then exists, and has not become shorter; nor has it
\* since the last stat().
GrowthOK(p, j, f) ==
  j.start # NoFile =>
    /\ f[j.name] # NoFile
    /\ j.start <= Len(f[j.name])
    /\ p \in {"size", "read"} => j.start <= j.st /\ j.st <= Len(f[j.name])

\* Nothing was read or sent yet.
Fresh(j) ==
  /\ j.at = j.offset /\ j.left = j.size /\ j.count = 1
  /\ j.replies = 0 /\ j.status = 0 /\ j.sent = <<>> /\ ~j.garbled

\* The chunks behind a read inside the file were sent, after one header.
InsideSoFar(j) ==
  /\ j.status = 0 /\ ~j.garbled
  /\ Len(j.sent) = j.at - j.offset
  /\ j.count > 0 /\ (j.count - 1) * BufferSize = j.at - j.offset
  /\ IF j.count = 1 THEN j.replies = 0
     ELSE j.replies = 1 /\ j.announced = j.size /\ j.left > 0

ReadSoFar(j) ==
  /\ j.at + j.left = j.offset + j.size
  /\ j.size <= BufferSize => j.replies = 0 /\ j.count = 1
  /\ Inside(j) => InsideSoFar(j)

ReadDone(j) ==
  /\ j.size <= BufferSize => j.replies = 1
  /\ Inside(j) => /\ j.status = 0 /\ ~j.garbled /\ j.replies = 1
                  /\ j.size = j.announced /\ j.size = Len(j.sent)

ReadOK(p, j) ==
  /\ p \in {"stat", "size"} => Fresh(j)
  /\ p \in {"restat", "read"} => ReadSoFar(j)
  /\ p \notin Working => ReadDone(j)
  /\ Inside(j) => InPlace(j.sent, j.offset)

\* A size that was answered is one the file had, and it still has as many bytes.
SizeOK(p, j, f) ==
  IF p \in Working THEN j.replies = 0
  ELSE /\ j.replies = 1
       /\ j.start # NoFile /\ j.status # EMFILE =>
            /\ j.status = 0 /\ j.start <= j.announced
            /\ j.announced <= Len(f[j.name])

CreateOK(p, j) == j.replies = IF p \in Working THEN 0 ELSE 1

\* The bytes a write has taken from its connection are in the file.
Landed(w, j, f) ==
  j.whole /\ j.alone /\ ~j.short /\ j.status = 0 =>
    \A i \in 1 .. j.taken :
      /\ f[j.name] # NoFile
      /\ j.offset + i <= Len(f[j.name])
      /\ f[j.name][j.offset + i] = Byte(w, j.offset + i)

WriteSoFar(j) ==
  /\ j.status = 0 /\ j.replies = 0
  /\ j.taken + j.left = j.size /\ j.at = j.offset + j.taken
  /\ j.taken <= j.payload /\ (j.taken = 0 \/ j.left > 0)

WriteDone(j) ==
  /\ j.replies = 1
  /\ j.whole /\ j.status = 0 => j.taken = j.size

WriteOK(w, p, j, f) ==
  /\ IF p \in Working THEN WriteSoFar(j) ELSE WriteDone(j)
  /\ Landed(w, j, f)

\* What is left of a request belongs to one that may leave something.
RestOK(j, t) == t # 0 =>
  \/ /\ j.asked.op = "variables"
     /\ IsServed(j.asked) =>
          \E i \in DOMAIN j.asked.operands : j.asked.operands[i] > MaxName
  \/ j.asked.op = "write" /\ j.status # 0 /\ j.size > BufferSize

WorkerOK(w, p, j, t, f) ==
  /\ PcOK(p, j, t) /\ RestOK(j, t)
  /\ j \in FileJobs => JobOK(j) /\ GrowthOK(p, j, f)
  /\ j.asked.op = "read"     => ReadOK(p, j)
  /\ j.asked.op = "filesize" => SizeOK(p, j, f)
  /\ j.asked.op = "create"   => CreateOK(p, j)
  /\ j.asked.op = "write"    => WriteOK(w, p, j, f)

WorkersInv == \A w \in Workers : WorkerOK(w, pc[w], job[w], rest[w], files)

IInv == FilesInv /\ StreamInv /\ TypesInv /\ WorkersInv

-----------------------------------------------------------------------------
(* Numbers on the wire.                                                    *)

LEMMA DivideByBase ==
  ASSUME NEW a \in Nat
  PROVE  /\ a \div Base \in Nat /\ a % Base \in Nat
         /\ a = (a \div Base) * Base + (a % Base)
         /\ a % Base <= a
<1>1. /\ a \div Base \in Nat /\ a % Base \in Nat
      /\ a = (a \div Base) * Base + (a % Base)
  BY BaseAssumption
<1>2. \A q \in Nat : q * Base \in Nat
  BY BaseAssumption
<1>3. (a \div Base) * Base \in Nat
  BY <1>1, <1>2
<1> QED
  BY <1>1, <1>3

(* Shifting goes on dividing by the values of a byte. *)
LEMMA ShiftedDivides ==
  ASSUME NEW v \in Nat, NEW n \in Nat
  PROVE  /\ Shifted(v, n) \in [0 .. n -> Nat] /\ Shifted(v, n)[0] = v
         /\ \A i \in 1 .. n : Shifted(v, n)[i] = Shifted(v, n)[i-1] \div Base
<1> DEFINE step == [i \in 1 .. n |-> [a \in Nat |-> a \div Base]]
           Is(f) == f = [i \in 0 .. n |-> IF i = 0 THEN v ELSE f[i-1] \div Base]
<1>1. step \in Steps(n, Nat)
  BY DivideByBase DEF Steps
<1>2. PICK g : Recursion(g, n, Nat, v, step)
  <2> HIDE DEF step
  <2> QED
    BY <1>1, RecursionOverNumbers
<1>3. /\ g \in [0 .. n -> Nat] /\ g[0] = v
      /\ \A i \in 1 .. n : g[i] = g[i-1] \div Base
  <2>1. /\ g \in [0 .. n -> Nat] /\ g[0] = v
        /\ \A i \in 1 .. n : g[i] = step[i][g[i-1]]
    <3> HIDE DEF step
    <3> QED
      BY <1>2 DEF Recursion
  <2>2. \A i \in 1 .. n : i - 1 \in 0 .. n
    OBVIOUS
  <2> QED
    BY <2>1, <2>2
<1>4. Is(g)
  <2>1. \A i \in 0 .. n : i = 0 \/ i \in 1 .. n
    OBVIOUS
  <2> QED
    BY <1>3, <2>1
<1>5. Is(Shifted(v, n))
  BY <1>4, Zenon DEF Shifted
<1> DEFINE at == Shifted(v, n)
<1>6. /\ at[0] = v /\ \A i \in 1 .. n : at[i] = at[i-1] \div Base
      /\ at = [i \in 0 .. n |-> at[i]]
  <2>1. 0 \in 0 .. n /\ \A i \in 1 .. n : i \in 0 .. n /\ i # 0
    OBVIOUS
  <2>2. \A i \in 0 .. n : at[i] = IF i = 0 THEN v ELSE at[i-1] \div Base
    BY <1>5, Zenon
  <2>3. \E e : at = [i \in 0 .. n |-> IF i = 0 THEN v ELSE e[i-1] \div Base]
    BY <1>5, Zenon
  <2>4. at = [i \in 0 .. n |-> at[i]]
    <3> HIDE DEF at, Is
    <3> QED
      BY <2>3, Zenon
  <2> HIDE DEF at
  <2> QED
    BY <2>1, <2>2, <2>4
<1> HIDE DEF at, Is
<1> DEFINE P == {k \in Nat : k \in 0 .. n => at[k] \in Nat}
<1>7. 0 \in P
  BY <1>6
<1>8. ASSUME NEW k \in P PROVE k + 1 \in P
  <2>1. SUFFICES ASSUME k + 1 \in 0 .. n PROVE at[k + 1] \in Nat
    OBVIOUS
  <2>2. k \in 0 .. n /\ k + 1 \in 1 .. n /\ (k + 1) - 1 = k
    BY <2>1
  <2>3. at[k] \in Nat
    BY <2>2
  <2>4. at[k + 1] = at[k] \div Base
    BY <1>6, <2>2
  <2> QED
    BY <2>3, <2>4, DivideByBase
<1>9. P = Nat
  <2>1. P \in SUBSET Nat
    OBVIOUS
  <2> HIDE DEF P
  <2> QED
    BY <1>7, <1>8, <2>1, NumberInduction
<1>10. \A i \in 0 .. n : at[i] \in Nat
  BY <1>9
<1> QED
  BY <1>6, <1>10 DEF at

(* wire_to_uint8 and the others add up the bytes from the first one on. *)
LEMMA FromWireAdds ==
  ASSUME NEW n \in Nat \ {0}, NEW b \in [1 .. n -> Nat]
  PROVE  \E sum \in [1 .. n -> Nat] :
           /\ sum[1] = b[1]
           /\ \A i \in 2 .. n : sum[i] = sum[i-1] * Base + b[i]
           /\ FromWire(b, n) = sum[n]
<1> DEFINE m == n - 1
           step == [k \in 1 .. m |-> [a \in Nat |-> a * Base + b[k + 1]]]
           Is(f) == f = [i \in 1 .. n |-> IF i = 1 THEN b[1] ELSE f[i-1] * Base + b[i]]
<1>1. m \in Nat /\ b[1] \in Nat /\ step \in Steps(m, Nat)
  <2>1. \A k \in 1 .. m : k + 1 \in 1 .. n
    OBVIOUS
  <2>2. \A k \in 1 .. m : \A a \in Nat : a * Base + b[k + 1] \in Nat
    BY <2>1, BaseAssumption
  <2> QED
    BY <2>2 DEF Steps
<1>2. PICK g : Recursion(g, m, Nat, b[1], step)
  <2> HIDE DEF step, m
  <2> QED
    BY <1>1, RecursionOverNumbers
<1>3. /\ g \in [0 .. m -> Nat] /\ g[0] = b[1]
      /\ \A k \in 1 .. m : g[k] = g[k-1] * Base + b[k + 1]
  <2>1. /\ g \in [0 .. m -> Nat] /\ g[0] = b[1]
        /\ \A k \in 1 .. m : g[k] = step[k][g[k-1]]
    <3> HIDE DEF step
    <3> QED
      BY <1>2 DEF Recursion
  <2>2. \A k \in 1 .. m : k - 1 \in 0 .. m
    BY <1>1
  <2>3. \A k \in 1 .. m : g[k-1] \in Nat
    BY <2>1, <2>2
  <2> QED
    BY <2>1, <2>3
<1>4. PICK h : h = [i \in 1 .. n |-> g[i-1]]
  OBVIOUS
<1>5. /\ h \in [1 .. n -> Nat] /\ h[1] = b[1]
      /\ \A i \in 2 .. n : h[i] = h[i-1] * Base + b[i]
  <2>1. \A i \in 1 .. n : i - 1 \in 0 .. m
    OBVIOUS
  <2>2. \A i \in 1 .. n : h[i] = g[i-1] /\ h[i] \in Nat
    BY <1>3, <1>4, <2>1
  <2>3. \A i \in 2 .. n : i - 1 \in 1 .. m /\ i - 1 \in 1 .. n /\ i \in 1 .. n /\ (i - 1) + 1 = i
    OBVIOUS
  <2>4. h[1] = b[1]
    BY <1>3, <2>2
  <2>5. ASSUME NEW i \in 2 .. n PROVE h[i] = h[i-1] * Base + b[i]
    <3>1. g[i-1] = g[(i-1)-1] * Base + b[(i-1)+1]
      BY <1>3, <2>3
    <3> QED
      BY <2>2, <2>3, <3>1
  <2> HIDE DEF m
  <2> QED
    BY <1>4, <2>2, <2>4, <2>5
<1>6. Is(h)
  <2>1. \A i \in 1 .. n : i = 1 \/ i \in 2 .. n
    OBVIOUS
  <2> QED
    BY <1>5, <2>1
<1>7. PICK f : Is(f) /\ FromWire(b, n) = f[n]
  BY <1>6, Zenon DEF FromWire
<1>8. /\ f[1] = b[1] /\ \A i \in 2 .. n : f[i] = f[i-1] * Base + b[i]
      /\ f = [i \in 1 .. n |-> f[i]]
  <2>1. 1 \in 1 .. n /\ \A i \in 2 .. n : i \in 1 .. n /\ i # 1
    OBVIOUS
  <2>2. \A i \in 1 .. n : f[i] = IF i = 1 THEN b[1] ELSE f[i-1] * Base + b[i]
    BY <1>7, Zenon
  <2>3. \E e : f = [i \in 1 .. n |-> IF i = 1 THEN b[1] ELSE e[i-1] * Base + b[i]]
    BY <1>7, Zenon
  <2>4. f = [i \in 1 .. n |-> f[i]]
    <3> HIDE DEF Is
    <3> QED
      BY <2>3, Zenon
  <2> QED
    BY <2>1, <2>2, <2>4
<1> HIDE DEF Is, m
<1> DEFINE P == {k \in Nat : k + 1 \in 1 .. n => f[k + 1] \in Nat}
<1>9. 0 \in P
  BY <1>1, <1>8
<1>10. ASSUME NEW k \in P PROVE k + 1 \in P
  <2>1. SUFFICES ASSUME (k + 1) + 1 \in 1 .. n PROVE f[(k + 1) + 1] \in Nat
    OBVIOUS
  <2>2. k + 1 \in 1 .. n /\ (k + 1) + 1 \in 2 .. n /\ ((k + 1) + 1) - 1 = k + 1
    BY <2>1
  <2>3. f[k + 1] \in Nat /\ b[(k + 1) + 1] \in Nat
    BY <2>1, <2>2
  <2>4. f[(k + 1) + 1] = f[k + 1] * Base + b[(k + 1) + 1]
    BY <1>8, <2>2
  <2>5. PICK x, y : x = f[k + 1] /\ y = b[(k + 1) + 1]
    OBVIOUS
  <2>6. x * Base + y \in Nat
    BY <2>3, <2>5, BaseAssumption, SMTT(30)
  <2> QED
    BY <2>4, <2>5, <2>6
<1>11. P = Nat
  <2>1. P \in SUBSET Nat
    OBVIOUS
  <2> HIDE DEF P
  <2> QED
    BY <1>9, <1>10, <2>1, NumberInduction
<1>12. f \in [1 .. n -> Nat]
  <2>1. \A i \in 1 .. n : i - 1 \in Nat /\ (i - 1) + 1 = i
    OBVIOUS
  <2>2. ASSUME NEW i \in 1 .. n PROVE f[i] \in Nat
    <3>1. i - 1 \in P
      <4> HIDE DEF P
      <4> QED
        BY <1>11, <2>1
    <3> QED
      BY <2>1, <3>1
  <2> QED
    BY <1>8, <2>2
<1> QED
  BY <1>7, <1>8, <1>12

(* A number that was sent arrives as one that is not greater: it loses what *)
(* does not fit its field, and what came after the connection ended.        *)
LEMMA NumberNeverGrows ==
  ASSUME NEW v \in Nat, NEW n \in Nat \ {0}, NEW got \in Int
  PROVE  NumberReceived(v, n, got) \in Nat /\ NumberReceived(v, n, got) <= v
<1> DEFINE at == Shifted(v, n)
           b  == Filled(ToWire(v, n), n, got)
<1>1. /\ at \in [0 .. n -> Nat] /\ at[0] = v
      /\ \A i \in 1 .. n : at[i] = at[i-1] \div Base
  BY ShiftedDivides
<1>2. b \in [1 .. n -> Nat] /\ \A i \in 1 .. n : b[i] <= at[n-i] % Base
  <2>1. \A i \in 1 .. n : n - i \in 0 .. n
    OBVIOUS
  <2>2. \A i \in 1 .. n : at[n-i] \in Nat /\ at[n-i] % Base \in Nat
    BY <1>1, <2>1, DivideByBase
  <2>3. \A i \in 1 .. n : b[i] = IF i <= got THEN at[n-i] % Base ELSE 0
    BY DEF Filled, ToWire
  <2>4. b = [i \in 1 .. n |-> b[i]]
    BY DEF Filled
  <2> HIDE DEF at, b
  <2>5. \A i \in 1 .. n : b[i] \in Nat /\ b[i] <= at[n-i] % Base
    BY <2>2, <2>3
  <2> QED
    BY <2>4, <2>5
<1> HIDE DEF at, b
<1>3. PICK sum \in [1 .. n -> Nat] :
        /\ sum[1] = b[1]
        /\ \A i \in 2 .. n : sum[i] = sum[i-1] * Base + b[i]
        /\ FromWire(b, n) = sum[n]
  BY <1>2, FromWireAdds
<1> DEFINE P == {k \in Nat : k + 1 \in 1 .. n => sum[k + 1] <= at[n - (k + 1)]}
<1>4. 0 \in P
  <2>1. 1 \in 1 .. n /\ n - 1 \in 0 .. n
    OBVIOUS
  <2>2. b[1] <= at[n-1] % Base /\ at[n-1] \in Nat /\ b[1] \in Nat
    BY <1>1, <1>2, <2>1
  <2>3. at[n-1] % Base <= at[n-1]
    BY <2>2, DivideByBase
  <2>4. at[n-1] % Base \in Nat
    BY <2>2, DivideByBase
  <2> QED
    BY <1>3, <2>2, <2>3, <2>4
<1>5. ASSUME NEW k \in P PROVE k + 1 \in P
  <2> DEFINE i == (k + 1) + 1
  <2>1. SUFFICES ASSUME i \in 1 .. n PROVE sum[i] <= at[n - i]
    OBVIOUS
  <2>2. /\ k + 1 \in 1 .. n /\ i \in 2 .. n /\ i - 1 = k + 1
        /\ n - i \in 0 .. n /\ (n - i) + 1 = n - (k + 1) /\ n - (k + 1) \in 1 .. n
        /\ (n - (k + 1)) - 1 = n - i
    BY <2>1
  <2>3. sum[k + 1] <= at[n - (k + 1)] /\ sum[k + 1] \in Nat
    BY <2>2
  <2>4. at[n - (k + 1)] = at[n - i] \div Base /\ at[n - i] \in Nat
    <3>1. at[n - (k + 1)] = at[(n - (k + 1)) - 1] \div Base
      BY <1>1, <2>2
    <3> QED
      BY <1>1, <2>2, <3>1
  <2>5. sum[i] = sum[k + 1] * Base + b[i]
    <3>1. sum[i] = sum[i - 1] * Base + b[i]
      BY <1>3, <2>2
    <3> QED
      BY <2>2, <3>1
  <2>6. b[i] <= at[n - i] % Base /\ b[i] \in Nat
    BY <1>2, <2>1
  <2> HIDE DEF i
  <2>7. at[n - i] = (at[n - i] \div Base) * Base + (at[n - i] % Base)
    BY <2>4, DivideByBase
  <2>8. \A x, y \in Nat : x * Base \in Nat /\ (x <= y => x * Base <= y * Base)
    BY BaseAssumption
  <2>9. /\ at[n - i] \div Base \in Nat /\ at[n - i] % Base \in Nat
        /\ sum[k + 1] * Base <= (at[n - i] \div Base) * Base
        /\ sum[k + 1] * Base \in Nat /\ (at[n - i] \div Base) * Base \in Nat
    <3>1. at[n - i] \div Base \in Nat /\ at[n - i] % Base \in Nat
      BY <2>4, DivideByBase
    <3> QED
      BY <2>3, <2>4, <2>8, <3>1
  <2> QED
    BY <2>4, <2>5, <2>6, <2>7, <2>9
<1>6. P = Nat
  <2>1. P \in SUBSET Nat
    OBVIOUS
  <2> HIDE DEF P
  <2> QED
    BY <1>4, <1>5, <2>1, NumberInduction
<1>7. sum[n] <= at[0] /\ sum[n] \in Nat
  <2>1. n - 1 \in Nat /\ (n - 1) + 1 = n /\ n - n = 0 /\ n \in 1 .. n
    OBVIOUS
  <2>2. sum[(n - 1) + 1] <= at[n - ((n - 1) + 1)]
    BY <1>6, <2>1
  <2> QED
    BY <2>1, <2>2
<1> QED
  BY <1>1, <1>3, <1>7 DEF NumberReceived, b

-----------------------------------------------------------------------------
(* The operands of a request on variables.                                 *)

LEMMA SumUpToThree ==
  ASSUME NEW S, IsFiniteSet(S), NEW f \in [S -> Int], 1 \in S
  PROVE  /\ SumOn(f, S, {1}) = f[1] /\ f[1] \in Int
         /\ 2 \in S => SumOn(f, S, {1, 2}) = f[1] + f[2]
         /\ 2 \in S /\ 3 \in S => SumOn(f, S, {1, 2, 3}) = f[1] + f[2] + f[3]
<1>1. SumOn(f, S, {1}) = f[1]
  <2>1. SumOn(f, S, {} \cup {1}) = f[1] + SumOn(f, S, {})
    BY SumOnMore
  <2>2. {} \cup {1} = {1} /\ SumOn(f, S, {}) = 0
    BY SumOnEmpty
  <2> QED
    BY <2>1, <2>2
<1>2. ASSUME 2 \in S PROVE SumOn(f, S, {1, 2}) = f[1] + f[2]
  <2>1. SumOn(f, S, {1} \cup {2}) = f[2] + SumOn(f, S, {1})
    BY <1>2, SumOnMore
  <2>2. {1} \cup {2} = {1, 2}
    OBVIOUS
  <2>3. SumOn(f, S, {1, 2}) = f[2] + f[1]
    BY <1>1, <2>1, <2>2, Zenon
  <2> QED
    BY <1>2, <2>3
<1>3. ASSUME 2 \in S, 3 \in S PROVE SumOn(f, S, {1, 2, 3}) = f[1] + f[2] + f[3]
  <2>0. {1, 2} \in SUBSET S /\ 3 \in S \ {1, 2}
    BY <1>3
  <2>1. SumOn(f, S, {1, 2} \cup {3}) = f[3] + SumOn(f, S, {1, 2})
    <3>1. PICK T, x : T = {1, 2} /\ x = 3 /\ T \in SUBSET S /\ x \in S \ T
      BY <2>0
    <3>2. SumOn(f, S, T \cup {x}) = f[x] + SumOn(f, S, T)
      BY ONLY <3>1, SumOnMore, IsFiniteSet(S), f \in [S -> Int], ZenonT(60)
    <3> QED
      BY <3>1, <3>2, Zenon
  <2>2. {1, 2} \cup {3} = {1, 2, 3}
    OBVIOUS
  <2>3. SumOn(f, S, {1, 2, 3}) = f[3] + (f[1] + f[2])
    BY <1>2, <1>3, <2>1, <2>2, Zenon
  <2> QED
    BY <1>3, <2>3
<1> QED
  BY <1>1, <1>2, <1>3

LEMMA SumOfSmall ==
  ASSUME NEW n \in 1 .. 3, NEW f \in [1 .. n -> Int]
  PROVE  SumOf(f) = f[1] + If(n > 1, f[2]) + If(n > 2, f[3])
<1> DEFINE S == 1 .. n
<1>1. SumOf(f) = SumOn(f, S, S)
  <2>1. SumOf(f) = Total(f) /\ DOMAIN f = S
    BY DEF SumOf, Total
  <2> QED
    BY <2>1, TotalIsSum
<1>2. IsFiniteSet(S) /\ f \in [S -> Int] /\ 1 \in S
  BY FS_Interval
<1>3. /\ SumOn(f, S, {1}) = f[1] /\ f[1] \in Int
      /\ 2 \in S => SumOn(f, S, {1, 2}) = f[1] + f[2]
      /\ 2 \in S /\ 3 \in S => SumOn(f, S, {1, 2, 3}) = f[1] + f[2] + f[3]
  <2> HIDE DEF S
  <2> QED
    BY <1>2, SumUpToThree
<1>4. CASE n = 1
  <2>1. S = {1}
    BY <1>4
  <2> HIDE DEF S
  <2> QED
    BY <1>1, <1>3, <1>4, <2>1 DEF If
<1>5. CASE n = 2
  <2>1. S = {1, 2} /\ f[1] + f[2] \in Int
    BY <1>5
  <2> HIDE DEF S
  <2> QED
    BY <1>1, <1>3, <1>5, <2>1 DEF If
<1>6. CASE n = 3
  <2>1. S = {1, 2, 3}
    BY <1>6
  <2> HIDE DEF S
  <2> QED
    BY <1>1, <1>3, <1>6, <2>1 DEF If
<1> QED
  BY <1>4, <1>5, <1>6

(* The flags in the opcode of an arithmetic operation. *)
HasFlags(var, a, b, c) ==
  /\ ~Bit(var, 3) /\ (Bit(var, 4) <=> a) /\ (Bit(var, 5) <=> b) /\ (Bit(var, 6) <=> c)
  /\ var \notin {8, 9, 15}
LEMMA FlagsAreRead ==
  ASSUME NEW code \in 1 .. 5, NEW a \in BOOLEAN, NEW b \in BOOLEAN, NEW c \in BOOLEAN,
         NEW d \in BOOLEAN
  PROVE  HasFlags(code + If(a, 16) + If(b, 32) + If(c, 64) + If(d, 128), a, b, c)
<1>1. 2^3 = 8 /\ 2^4 = 16 /\ 2^5 = 32 /\ 2^6 = 64
  OBVIOUS
<1>2. CASE a /\ b
  BY <1>1, <1>2 DEF HasFlags, If, Bit
<1>3. CASE a /\ ~b
  BY <1>1, <1>3 DEF HasFlags, If, Bit
<1>4. CASE ~a /\ b
  BY <1>1, <1>4 DEF HasFlags, If, Bit
<1>5. CASE ~a /\ ~b
  BY <1>1, <1>5 DEF HasFlags, If, Bit
<1> QED
  BY <1>2, <1>3, <1>4, <1>5

Kind(operand) == IF operand = Number THEN "number" ELSE "name"

(* The server receives one to three operands, whatever the opcode. *)
LEMMA ExpectedKinds ==
  ASSUME NEW var
  PROVE  \E n \in 1 .. 3 : DOMAIN Expected(var) = 1 .. n
<1> DEFINE S   == {"name", "number"}
           a   == Bit(var, 3) \/ Bit(var, 4) \/ var = 15
           b   == Bit(var, 5) \/ var = 9
           c   == var # 8 /\ var # 15
           d   == Bit(var, 6)
           one == IF a THEN <<"name">> ELSE <<"number">>
           two == IF b THEN <<"name">> ELSE IF c THEN <<"number">> ELSE <<>>
           three == IF d THEN <<"name">> ELSE <<>>
<1>1. Expected(var) = (one \o two) \o three
  BY DEF Expected
<1> HIDE DEF a, b, c, d
<1>2. /\ <<"name">> \in Seq(S) /\ Len(<<"name">>) = 1
      /\ <<"number">> \in Seq(S) /\ Len(<<"number">>) = 1
      /\ <<>> \in Seq(S) /\ Len(<<>>) = 0
  OBVIOUS
<1> HIDE DEF S
<1>3. /\ one \in Seq(S) /\ Len(one) = 1
      /\ two \in Seq(S) /\ Len(two) \in {0, 1}
      /\ three \in Seq(S) /\ Len(three) \in {0, 1}
  BY <1>2, ZenonT(60)
<1> HIDE DEF one, two, three
<1>4. one \o two \in Seq(S) /\ Len(one \o two) \in {1, 2}
  BY <1>3, ConcatProperties, SMTT(30)
<1> DEFINE both == one \o two
<1> HIDE DEF both
<1>5. both \o three \in Seq(S) /\ Len(both \o three) \in 1 .. 3
  BY <1>3, <1>4, ConcatProperties, SMTT(30) DEF both
<1>6. DOMAIN (both \o three) = 1 .. Len(both \o three)
  BY <1>5
<1> QED
  BY <1>1, <1>5, <1>6 DEF both

(* The server receives the operands that a client sends. *)
LEMMA OperandsAreExpected ==
  ASSUME NEW r \in OnVariables, HasItsOperands(r), IsServed(r)
  PROVE  LET kinds == Expected(Opcode(r)) IN
         /\ Len(r.operands) \in 1 .. 3
         /\ DOMAIN r.operands = 1 .. Len(r.operands)
         /\ DOMAIN kinds = 1 .. Len(r.operands)
         /\ \A i \in 1 .. Len(r.operands) : kinds[i] = Kind(r.operands[i])
<1> DEFINE n == Len(r.operands)
           kinds == Expected(Opcode(r))
           a == r.flags.a
           b == r.flags.b
           c == r.flags.result
           d == r.flags.recursive
<1>1. /\ r.operands \in Seq({Number} \cup 0 .. 255)
      /\ a \in BOOLEAN /\ b \in BOOLEAN /\ c \in BOOLEAN /\ d \in BOOLEAN
  BY DEF OnVariables, Flags
<1>2. n \in 1 .. 3 /\ DOMAIN r.operands = 1 .. n
  <2>1. r.code \in Arithmetic => n \in {2, 3}
    <3>1. r.code \in Arithmetic => r.code \notin {8, 9, 15}
      BY DEF Arithmetic
    <3> QED
      BY <3>1, Zenon DEF HasItsOperands
  <2>2. r.code \notin Arithmetic => n \in {1, 2}
    BY Zenon DEF HasItsOperands, IsServed
  <2>3. n \in 1 .. 3
    BY <2>1, <2>2
  <2> QED
    BY <1>1, <2>3
<1>3. ASSUME r.code \in 1 .. 5
      PROVE  DOMAIN kinds = 1 .. n /\ \A i \in 1 .. n : kinds[i] = Kind(r.operands[i])
  <2>1. /\ n = (IF c THEN 3 ELSE 2) /\ (r.operands[1] # Number <=> a)
        /\ (r.operands[2] # Number <=> b) /\ (c => r.operands[3] # Number)
    <3>1. r.code \in Arithmetic /\ r.code # 8 /\ r.code # 9 /\ r.code # 15
      BY <1>3 DEF Arithmetic
    <3> QED
      BY <3>1, Zenon DEF HasItsOperands
  <2>2. Opcode(r) = r.code + If(a, 16) + If(b, 32) + If(c, 64) + If(d, 128)
    BY DEF Opcode
  <2> HIDE DEF a, b, c, d
  <2>3. HasFlags(Opcode(r), a, b, c)
    BY <1>1, <1>3, <2>2, FlagsAreRead
  <2>4. kinds = (IF a THEN <<"name">> ELSE <<"number">>)
                \o (IF b THEN <<"name">> ELSE <<"number">>)
                \o (IF c THEN <<"name">> ELSE <<>>)
    BY <2>3 DEF Expected, HasFlags
  <2>5. kinds = IF c THEN <<IF a THEN "name" ELSE "number", IF b THEN "name" ELSE "number", "name">>
                ELSE <<IF a THEN "name" ELSE "number", IF b THEN "name" ELSE "number">>
    BY <2>4, SMTT(60)
  <2>6. CASE c
    BY <2>1, <2>5, <2>6, <1>2 DEF Kind
  <2>7. CASE ~c
    BY <2>1, <2>5, <2>7, <1>2 DEF Kind
  <2> QED
    BY <2>6, <2>7
<1>4. ASSUME r.code \notin 1 .. 5
      PROVE  DOMAIN kinds = 1 .. n /\ \A i \in 1 .. n : kinds[i] = Kind(r.operands[i])
  <2>1. /\ r.flags = NoFlags /\ r.code \in {8, 9, 15} /\ n = (IF r.code = 9 THEN 2 ELSE 1)
        /\ r.operands[1] # Number /\ (n = 2 => r.operands[2] # Number)
    <3>1. r.code \notin Arithmetic
      BY <1>4 DEF Arithmetic
    <3>2. r.flags = NoFlags /\ r.code \in {8, 9, 15}
      BY <3>1 DEF IsServed, OnVariable
    <3>3. CASE r.code = 9
      BY <3>1, <3>2, <3>3 DEF HasItsOperands, OnVariable
    <3>4. CASE r.code # 9
      BY <3>1, <3>2, <3>4 DEF HasItsOperands, OnVariable
    <3> QED
      BY <3>2, <3>3, <3>4
  <2>2. Opcode(r) = r.code
    BY <2>1 DEF Opcode, If, NoFlags
  <2>3. kinds = (IF r.code = 9 THEN <<"name", "name">> ELSE <<"name">>)
    <3>1. 2^3 = 8 /\ 2^4 = 16 /\ 2^5 = 32 /\ 2^6 = 64
      OBVIOUS
    <3>2. /\ Bit(8, 3) /\ Bit(9, 3) /\ Bit(15, 3) /\ ~Bit(8, 5) /\ ~Bit(15, 5)
          /\ ~Bit(8, 6) /\ ~Bit(9, 6) /\ ~Bit(15, 6)
      BY <3>1 DEF Bit
    <3>3. Expected(8) = <<"name">>
      BY <3>2 DEF Expected
    <3>4. Expected(9) = <<"name", "name">>
      <4>1. Expected(9) = (<<"name">> \o <<"name">>) \o <<>>
        BY <3>2 DEF Expected
      <4> QED
        BY <4>1
    <3>5. Expected(15) = <<"name">>
      BY <3>2 DEF Expected
    <3>6. r.code \in {8, 9, 15}
      BY <2>1
    <3> QED
      BY <2>2, <3>3, <3>4, <3>5, <3>6
  <2>4. n = 1 \/ n = 2
    BY <2>1
  <2>5. CASE n = 1
    BY <2>1, <2>3, <2>5 DEF Kind
  <2>6. CASE n = 2
    BY <2>1, <2>3, <2>6 DEF Kind
  <2> QED
    BY <2>4, <2>5, <2>6
<1> HIDE DEF kinds
<1>5. DOMAIN kinds = 1 .. n /\ \A i \in 1 .. n : kinds[i] = Kind(r.operands[i])
  BY <1>3, <1>4
<1> QED
  BY <1>2, <1>5 DEF kinds

(* All of them are taken from the connection, unless a name is too long. *)
LEMMA OperandsAreTaken ==
  ASSUME NEW r \in OnVariables, HasItsOperands(r), IsServed(r),
         \A i \in DOMAIN r.operands : ~(r.operands[i] > MaxName)
  PROVE  OperandsSent(r) = OperandsTaken(r)
<1> DEFINE n == Len(r.operands)
           kinds == Expected(Opcode(r))
           sent  == [i \in DOMAIN r.operands |->
                       IF r.operands[i] = Number THEN 8 ELSE 1 + r.operands[i]]
           taken == [i \in DOMAIN kinds |->
                       IF kinds[i] = "number" THEN 8
                       ELSE 1 + If(i \in DOMAIN r.operands /\ r.operands[i] \in 1 .. MaxName,
                                   r.operands[i])]
<1>1. /\ n \in 1 .. 3 /\ DOMAIN r.operands = 1 .. n /\ DOMAIN kinds = 1 .. n
      /\ \A i \in 1 .. n : kinds[i] = Kind(r.operands[i])
  BY OperandsAreExpected
<1>2. \A i \in 1 .. n : r.operands[i] = Number \/ r.operands[i] \in 0 .. 31
  <2>0. r.operands \in Seq({Number} \cup 0 .. 255)
    BY DEF OnVariables
  <2>1. \A i \in 1 .. n : r.operands[i] \in {Number} \cup 0 .. 255
    <3>1. \A S : \A s \in Seq(S) : \A i \in 1 .. Len(s) : s[i] \in S
      OBVIOUS
    <3> QED
      BY <2>0, <3>1
  <2>2. SUFFICES ASSUME NEW i \in 1 .. n, r.operands[i] # Number
                 PROVE  r.operands[i] \in 0 .. 31
    OBVIOUS
  <2>3. r.operands[i] \in 0 .. 255 /\ ~(r.operands[i] > 31)
    BY <1>1, <2>1, <2>2 DEF MaxName
  <2>4. \A x \in 0 .. 255 : ~(x > 31) => x \in 0 .. 31
    OBVIOUS
  <2> QED
    BY <2>3, <2>4
<1>3. \A i \in 1 .. n : sent[i] = taken[i]
  <2>1. SUFFICES ASSUME NEW i \in 1 .. n PROVE sent[i] = taken[i]
    OBVIOUS
  <2>2. CASE r.operands[i] = Number
    <3>1. kinds[i] = "number"
      BY <1>1, <2>2 DEF Kind
    <3> HIDE DEF kinds
    <3> QED
      BY <1>1, <2>2, <3>1
  <2>3. CASE r.operands[i] # Number
    <3>1. kinds[i] = "name" /\ r.operands[i] \in 0 .. 31
      BY <1>1, <1>2, <2>3 DEF Kind
    <3> HIDE DEF kinds
    <3> QED
      BY <1>1, <2>3, <3>1 DEF If, MaxName
  <2> QED
    BY <2>2, <2>3
<1>4. sent = taken
  <2> HIDE DEF kinds, n
  <2> QED
    BY <1>1, <1>3
<1> QED
  BY <1>4, Zenon DEF OperandsSent, OperandsTaken

LEMMA TakenAreInt ==
  ASSUME NEW r \in OnVariables, Len(r.operands) \in 0 .. 3
  PROVE  OperandsSent(r) \in Int /\ OperandsTaken(r) \in Int
<1> DEFINE n == Len(r.operands)
           kinds == Expected(Opcode(r))
           sent  == [i \in DOMAIN r.operands |->
                       IF r.operands[i] = Number THEN 8 ELSE 1 + r.operands[i]]
           taken == [i \in DOMAIN kinds |->
                       IF kinds[i] = "number" THEN 8
                       ELSE 1 + If(i \in DOMAIN r.operands /\ r.operands[i] \in 1 .. MaxName,
                                   r.operands[i])]
<1>1. r.operands \in Seq({Number} \cup 0 .. 255)
  BY DEF OnVariables
<1>2. n \in 0 .. 3 /\ DOMAIN r.operands = 1 .. n
  BY <1>1
<1>3. PICK m \in 1 .. 3 : DOMAIN kinds = 1 .. m
  BY ExpectedKinds
<1>4. \A i \in 1 .. n : r.operands[i] \in Int
  <2>1. \A S : \A s \in Seq(S) : \A i \in 1 .. Len(s) : s[i] \in S
    OBVIOUS
  <2>2. \A i \in 1 .. n : r.operands[i] \in {Number} \cup 0 .. 255
    BY <1>1, <2>1
  <2>3. {Number} \cup 0 .. 255 \subseteq Int
    BY DEF Number
  <2> HIDE DEF n
  <2> QED
    BY <2>2, <2>3, Zenon
<1> HIDE DEF n, kinds
<1>5. sent \in [1 .. n -> Int] /\ taken \in [1 .. m -> Int]
  BY <1>2, <1>3, <1>4 DEF If
<1> HIDE DEF sent, taken
<1>6. IsFiniteSet(1 .. n) /\ IsFiniteSet(1 .. m)
  <2>1. \A k \in Nat : IsFiniteSet(1 .. k)
    BY FS_Interval
  <2> QED
    BY <1>2, <1>3, <2>1
<1>7. Total(sent) \in Int /\ Total(taken) \in Int
  BY <1>5, <1>6, TotalType
<1>8. OperandsSent(r) = Total(sent)
  BY DEF OperandsSent, SumOf, Total, sent
<1>9. OperandsTaken(r) = Total(taken)
  BY DEF OperandsTaken, SumOf, Total, taken, kinds
<1> QED
  BY <1>7, <1>8, <1>9

LEMMA HasFewOperands ==
  ASSUME NEW r \in OnVariables, HasItsOperands(r)
  PROVE  Len(r.operands) \in 0 .. 3
<1>1. Len(r.operands) \in {0, 1, 2, 3}
  BY Zenon DEF HasItsOperands
<1> QED
  BY <1>1

(* What a request is. *)
LEMMA RequestTypes ==
  ASSUME NEW r \in Requests
  PROVE  /\ r.op = "variables" => r \in OnVariables /\ HasItsOperands(r)
         /\ r.op \in FileOps => /\ r.name \in Names /\ Len(r.name) \in Nat
                                /\ r.op \in {"read", "write"} => r.offset \in Nat /\ r.size \in Nat
<1>1. \A n \in Names : Len(n) \in Nat
  BY NamesAssumption
<1>2. CASE r \in OnVariables /\ HasItsOperands(r)
  BY <1>2 DEF OnVariables, FileOps
<1>3. CASE r \in OnFiles(Names)
  BY <1>1, <1>3 DEF OnFiles, FileOps
<1>4. CASE r \in OnNames(Names)
  BY <1>1, <1>4 DEF OnNames, FileOps
<1>5. CASE r \in Others
  BY <1>5 DEF Others, FileOps
<1> QED
  BY <1>2, <1>3, <1>4, <1>5, RequestsAssumption

LEMMA BytesAreInt ==
  ASSUME NEW r \in Requests
  PROVE  BytesOf(r) \in Int
<1>1. \A n \in Names : Len(n) \in Nat
  BY NamesAssumption
<1>2. CASE r \in OnVariables /\ HasItsOperands(r)
  <2>1. OperandsSent(r) \in Int /\ r.op = "variables"
    BY <1>2, HasFewOperands, TakenAreInt DEF OnVariables
  <2> QED
    BY <2>1 DEF BytesOf, HeaderSize
<1>3. CASE r \in OnFiles(Names)
  BY <1>1, <1>3 DEF OnFiles, BytesOf, HeaderSize
<1>4. CASE r \in OnNames(Names)
  BY <1>1, <1>4 DEF OnNames, BytesOf, HeaderSize
<1>5. CASE r \in Others
  BY <1>5 DEF Others, BytesOf, HeaderSize
<1> QED
  BY <1>2, <1>3, <1>4, <1>5, RequestsAssumption

(* What server_run leaves of a request that it does not run on files. *)
LEMMA LeftoverIs ==
  ASSUME NEW r \in Requests, NEW got \in Int, got <= BytesOf(r)
  PROVE  /\ Leftover(r, got) \in Int
         /\ Leftover(r, got) # 0 =>
              /\ r.op = "variables"
              /\ IsServed(r) => \E i \in DOMAIN r.operands : r.operands[i] > MaxName
<1> DEFINE taken == IF r.op = "variables" THEN OperandsTaken(r) ELSE BytesOf(r) - HeaderSize
           left == got - HeaderSize - taken
<1>1. r.op = "variables" => r \in OnVariables /\ HasItsOperands(r)
  BY RequestTypes
<1>2. BytesOf(r) \in Int /\ HeaderSize \in Int
  BY BytesAreInt DEF HeaderSize
<1>3. taken \in Int
  BY <1>1, <1>2, HasFewOperands, TakenAreInt
<1>4. Leftover(r, got) = IF left > 0 \/ got = BytesOf(r) THEN left ELSE 0
  BY DEF Leftover
<1>5. ASSUME Leftover(r, got) # 0
      PROVE  taken # BytesOf(r) - HeaderSize
  <2> HIDE DEF taken
  <2> QED
    BY <1>2, <1>3, <1>4, <1>5
<1>6. ASSUME r.op = "variables", IsServed(r),
             \A i \in DOMAIN r.operands : ~(r.operands[i] > MaxName)
      PROVE  taken = BytesOf(r) - HeaderSize
  <2>1. taken = OperandsSent(r) /\ OperandsSent(r) \in Int
    BY <1>1, <1>6, HasFewOperands, TakenAreInt, OperandsAreTaken
  <2>2. BytesOf(r) = HeaderSize + OperandsSent(r)
    BY <1>6 DEF BytesOf
  <2> QED
    BY <1>2, <2>1, <2>2
<1>7. r.op # "variables" => taken = BytesOf(r) - HeaderSize
  OBVIOUS
<1>8. Leftover(r, got) \in Int
  <2> HIDE DEF taken
  <2> QED
    BY <1>2, <1>3, <1>4
<1> HIDE DEF taken
<1> QED
  BY <1>5, <1>6, <1>7, <1>8

(* The fields of a request on a file, as they arrive. *)
Arrived(r, got, d) ==
  /\ d.alive \in BOOLEAN /\ d.offset \in Nat /\ d.size \in Nat /\ d.payload \in Nat
  /\ got = BytesOf(r) => d.alive \/ d.name = <<>>
  /\ got = BytesOf(r) /\ r.op = "write" => d.size <= d.payload
  /\ r.op = "read" => d.size <= (CountMod - 1) * BufferSize

LEMMA FieldsArrive ==
  ASSUME NEW r \in Requests, r.op \in FileOps, NEW got \in Int
  PROVE  Arrived(r, got, Decoded(r, got))
<1> DEFINE length  == NumberReceived(Len(r.name), 2, got - HeaderSize)
           rest0   == got - HeaderSize - 2 - Len(r.name)
           numbers == r.op \in {"read", "write"}
           d       == Decoded(r, got)
<1>1. /\ r.name \in Names /\ Len(r.name) \in Nat
      /\ numbers => r.offset \in Nat /\ r.size \in Nat
  BY RequestTypes
<1>2. rest0 \in Int /\ got - HeaderSize \in Int /\ rest0 - 8 \in Int
  BY <1>1 DEF HeaderSize
<1>3. length \in Nat /\ length <= Len(r.name)
  <2>1. \A v \in Nat : \A g \in Int : NumberReceived(v, 2, g) \in Nat /\ NumberReceived(v, 2, g) <= v
    BY NumberNeverGrows
  <2> QED
    BY <1>1, <1>2, <2>1
<1>4. /\ d.alive = (length > 0 /\ rest0 >= 0)
      /\ d.name = IF length = Len(r.name) THEN NameReceived(r.name, rest0 + length) ELSE <<>>
      /\ d.offset = If(numbers, NumberReceived(r.offset, 8, rest0))
      /\ d.size = If(numbers, NumberReceived(r.size, 2, rest0 - 8))
      /\ d.payload = If(r.op = "write" /\ rest0 > 10, rest0 - 10)
  BY DEF Decoded
<1> HIDE DEF d, length
<1>5. d.alive \in BOOLEAN /\ d.payload \in Nat
  <2>1. d.alive \in BOOLEAN
    BY <1>4, Zenon
  <2>2. d.payload \in Nat
    BY <1>2, <1>4 DEF If
  <2> QED
    BY <2>1, <2>2
<1>6. /\ d.offset \in Nat /\ d.size \in Nat /\ (numbers => d.size <= r.size)
  <2>1. numbers => /\ NumberReceived(r.offset, 8, rest0) \in Nat
                   /\ NumberReceived(r.size, 2, rest0 - 8) \in Nat
                   /\ NumberReceived(r.size, 2, rest0 - 8) <= r.size
    <3> HIDE DEF rest0
    <3>1. rest0 - 8 \in Int /\ rest0 \in Int
      BY <1>2
    <3>2. \A n \in {2, 8} : \A v \in Nat : \A g \in Int :
            NumberReceived(v, n, g) \in Nat /\ NumberReceived(v, n, g) <= v
      BY NumberNeverGrows
    <3> QED
      BY <1>1, <3>1, <3>2
  <2> HIDE DEF rest0
  <2>2. CASE numbers
    BY <1>4, <2>1, <2>2 DEF If
  <2>3. CASE ~numbers
    BY <1>4, <2>3 DEF If
  <2> QED
    BY <2>2, <2>3
<1>7. ASSUME r.op = "read"
      PROVE  d.size <= (CountMod - 1) * BufferSize
  <2>1. r.size <= (CountMod - 1) * BufferSize /\ (CountMod - 1) * BufferSize \in Int
    BY <1>7, CountAssumption, BoundsAssumption, BufferAssumption
  <2> QED
    BY <1>1, <1>6, <1>7, <2>1
<1>8. ASSUME got = BytesOf(r)
      PROVE  /\ d.alive \/ d.name = <<>>
             /\ r.op = "write" => d.size <= d.payload
  <2>1. rest0 >= 0 /\ (r.op = "write" => rest0 - 10 = r.size)
    <3>1. CASE r.op = "read"
      BY <1>1, <1>8, <3>1 DEF BytesOf, HeaderSize
    <3>2. CASE r.op = "write"
      BY <1>1, <1>8, <3>2, SMTT(30) DEF BytesOf, HeaderSize
    <3>3. CASE r.op \in {"create", "filesize"}
      BY <1>1, <1>8, <3>3 DEF BytesOf, HeaderSize
    <3> QED
      BY <3>1, <3>2, <3>3 DEF FileOps
  <2>2. ASSUME r.op = "write" PROVE d.size <= d.payload
    <3>1. d.size <= r.size /\ r.size \in Nat /\ d.size \in Nat /\ rest0 - 10 = r.size /\ rest0 \in Int
      BY <1>1, <1>2, <1>6, <2>1, <2>2
    <3>2. d.payload = IF rest0 > 10 THEN rest0 - 10 ELSE 0
      BY <1>4, <2>2 DEF If
    <3> HIDE DEF rest0
    <3> QED
      BY <3>1, <3>2
  <2>3. CASE length > 0
    BY <1>4, <2>1, <2>2, <2>3
  <2>4. CASE ~(length > 0)
    <3>1. length = 0
      BY <1>3, <2>4
    <3>2. Len(r.name) = 0 => d.name = <<>>
      <4>1. SUFFICES ASSUME Len(r.name) = 0 PROVE NameReceived(r.name, rest0 + length) = <<>>
        BY <1>4, Zenon
      <4>2. r.name \in Seq({r.name[i] : i \in DOMAIN r.name})
        BY <1>1, NamesAssumption
      <4>3. r.name = <<>>
        BY <4>1, <4>2
      <4>4. SubSeq(<<>>, 1, Least(rest0 + length, 0)) = <<>>
        BY <1>2, <1>3, <2>1, <3>1 DEF Least
      <4> QED
        BY <4>1, <4>3, <4>4 DEF NameReceived
    <3>3. Len(r.name) # 0 => d.name = <<>>
      BY <1>4, <3>1
    <3> QED
      BY <2>2, <3>2, <3>3
  <2> QED
    BY <2>3, <2>4
<1> QED
  BY <1>5, <1>6, <1>7, <1>8 DEF Arrived, d

-----------------------------------------------------------------------------
(* The calls on files.                                                     *)

IsFile(c) == c \in Seq(FileByte)

LEMMA FileIsNotNoFile == \A c : IsFile(c) => c # NoFile /\ Len(c) \in Nat
  BY NoFileAssumption DEF IsFile

(* A write changes the bytes it was given, and may make the file longer. *)
WritesInside(c, at, data, k, o) ==
  /\ IsFile(o) /\ Len(c) <= Len(o) /\ (k > 0 => at + k <= Len(o))
  /\ \A i \in 1 .. k : o[at + i] = data[i]
  /\ \A i \in 1 .. Len(c) : ~(at < i /\ i <= at + k) => o[i] = c[i]
  /\ \A i \in 1 .. Len(o) : \/ at < i /\ i <= at + k /\ o[i] = data[i - at]
                            \/ i <= Len(c) /\ o[i] = c[i]
                            \/ o[i] = Zero

LEMMA OverwrittenBytes ==
  ASSUME NEW c, IsFile(c), NEW at \in Nat, NEW n \in Nat, NEW data \in [1 .. n -> FileByte],
         NEW k \in 0 .. n
  PROVE  WritesInside(c, at, data, k, Overwritten(c, at, data, k))
<1> DEFINE m == IF k > 0 /\ at + k > Len(c) THEN at + k ELSE Len(c)
           o == Overwritten(c, at, data, k)
<1>1. Len(c) \in Nat /\ m \in Nat /\ Len(c) <= m /\ (k > 0 => at + k <= m)
  BY DEF IsFile
<1>2. o = [i \in 1 .. m |-> IF i > at /\ i <= at + k THEN data[i - at]
                            ELSE IF i <= Len(c) THEN c[i] ELSE Zero]
  BY DEF Overwritten
<1> HIDE DEF o, m
<1>3. \A i \in 1 .. m : i > at /\ i <= at + k => i - at \in 1 .. k /\ i - at \in 1 .. n
  BY <1>1
<1>4. \A i \in 1 .. Len(c) : c[i] \in FileByte
  BY DEF IsFile
<1>5. Zero \in FileByte
  BY DEF FileByte
<1>6. \A i \in 1 .. m : o[i] \in FileByte
  <2>1. \A i \in 1 .. m : i <= Len(c) => i \in 1 .. Len(c)
    BY <1>1
  <2> QED
    BY <1>2, <1>3, <1>4, <1>5, <2>1
<1>7. IsFile(o) /\ Len(o) = m
  <2>1. o \in [1 .. m -> FileByte]
    BY <1>2, <1>6
  <2>2. o \in Seq(FileByte)
    BY <1>1, <2>1
  <2> QED
    BY <1>1, <2>1, <2>2 DEF IsFile
<1>8. \A i \in 1 .. k : o[at + i] = data[i]
  <2>1. SUFFICES ASSUME NEW i \in 1 .. k PROVE o[at + i] = data[i]
    OBVIOUS
  <2>2. at + i \in 1 .. m /\ at + i > at /\ at + i <= at + k /\ (at + i) - at = i
    BY <1>1
  <2> QED
    BY <1>2, <2>2
<1>9. \A i \in 1 .. Len(c) : ~(at < i /\ i <= at + k) => o[i] = c[i]
  <2>1. \A i \in 1 .. Len(c) : i \in 1 .. m /\ i <= Len(c) /\ (i > at <=> at < i)
    BY <1>1
  <2> QED
    BY <1>2, <2>1
<1>10. \A i \in 1 .. m : \/ at < i /\ i <= at + k /\ o[i] = data[i - at]
                         \/ i <= Len(c) /\ o[i] = c[i]
                         \/ o[i] = Zero
  <2>1. \A i \in 1 .. m : i > at <=> at < i
    BY <1>1
  <2> QED
    BY <1>2, <2>1
<1> QED
  BY <1>1, <1>7, <1>8, <1>9, <1>10 DEF o, WritesInside

(* What write() returns is an error, and then the file is as it was, or the *)
(* number of bytes it wrote: none only if it was given none.                *)
Outcome(c, at, data, n, out) ==
  \/ c = NoFile /\ out.result \in {-ENOENT, -EMFILE} /\ out.file = NoFile
  \/ c # NoFile /\ out.result \in {-ENOSPC, -EMFILE} /\ out.file = c
  \/ /\ c # NoFile /\ out.result \in 0 .. n /\ (n > 0 => out.result > 0)
     /\ out.file = Overwritten(c, at, data, out.result)

LEMMA WriteOutcome ==
  ASSUME NEW c, NEW at \in Nat, NEW n \in Nat, NEW data \in [1 .. n -> FileByte],
         NEW fails, NEW denies, NEW out \in write(c, at, data, fails, denies)
  PROVE  Outcome(c, at, data, n, out)
<1>1. Len(data) = n
  BY DEF FileByte
<1>2. CASE c = NoFile
  BY <1>2 DEF write, Outcomes, Outcome
<1>3. CASE c # NoFile
  <2>1. CASE out \in {[result |-> -ENOSPC, file |-> c], [result |-> -EMFILE, file |-> c]}
    BY <1>3, <2>1 DEF Outcome
  <2>2. CASE out \notin {[result |-> -ENOSPC, file |-> c], [result |-> -EMFILE, file |-> c]}
    <3>1. PICK k \in 0 .. n : /\ n > 0 => k > 0
                              /\ out = [result |-> k, file |-> Overwritten(c, at, data, k)]
      <4>1. CASE fails /\ n > 0
        BY <1>1, <1>3, <2>2, <4>1 DEF write
      <4>2. CASE ~(fails /\ n > 0)
        BY <1>1, <1>3, <2>2, <4>2 DEF write
      <4> QED
        BY <4>1, <4>2
    <3> QED
      BY <1>3, <3>1 DEF Outcome
  <2> QED
    BY <2>1, <2>2
<1> QED
  BY <1>2, <1>3

(* What read() returns is the bytes there are, at most as many as asked for. *)
GetsBytes(c, st, at, n, r) ==
  /\ r.result \in Int /\ r.data \in Seq(FileByte)
  /\ r.result # -EMFILE /\ c # NoFile /\ st # -1 /\ at <= st /\ at + n <= Len(c) =>
       r.result = n /\ Len(r.data) = n /\ \A i \in 1 .. n : r.data[i] = c[at + i]

LEMMA ReadBytes ==
  ASSUME NEW c, IsFile(c) \/ c = NoFile, NEW st \in Int, NEW at \in Nat, NEW n \in Nat,
         NEW denies, NEW r \in read(c, st, at, n, denies)
  PROVE  GetsBytes(c, st, at, n, r)
<1> DEFINE last == IF at + n < Len(c) THEN at + n ELSE Len(c)
           data == SubSeq(c, at + 1, last)
<1>0. CASE r = [result |-> -EMFILE, data |-> <<>>]
  BY <1>0 DEF GetsBytes, EMFILE
<1>1. CASE r # [result |-> -EMFILE, data |-> <<>>] /\ (c = NoFile \/ st = -1)
  <2>1. r = [result |-> -ENOENT, data |-> <<>>]
    BY <1>1 DEF read, Outcomes
  <2>2. r.result \in Int /\ r.data \in Seq(FileByte)
    BY <2>1 DEF ENOENT
  <2> QED
    BY <1>1, <2>2 DEF GetsBytes
<1>2. CASE r # [result |-> -EMFILE, data |-> <<>>] /\ c # NoFile /\ st # -1
  <2>1. IsFile(c) /\ Len(c) \in Nat /\ last \in Nat
    BY <1>2 DEF IsFile
  <2>2. /\ data \in Seq(FileByte)
        /\ Len(data) = IF last < at + 1 THEN 0 ELSE last - at
        /\ \A i \in 1 .. Len(data) : data[i] = c[at + i]
    <3> HIDE DEF last
    <3>1. last <= Len(c)
      BY <2>1 DEF last
    <3>2. \A i \in at + 1 .. last : i \in 1 .. Len(c)
      BY <2>1, <3>1
    <3>3. data \in Seq(FileByte)
      BY <2>1, <3>1, <3>2 DEF IsFile
    <3>4. Len(data) = IF last < at + 1 THEN 0 ELSE last - at
      BY <2>1, <3>1 DEF IsFile
    <3>5. \A i \in 1 .. Len(data) : data[i] = c[at + i]
      BY <2>1, <3>1, <3>4 DEF IsFile
    <3> QED
      BY <3>3, <3>4, <3>5
  <2>3. DataAt(c, at, n) = data
    BY DEF DataAt
  <2>4. r = IF BeyondEnd(at, st) THEN [result |-> -EINVAL, data |-> <<>>]
            ELSE [result |-> Len(data), data |-> data]
    BY <1>2, <2>3 DEF read, Outcomes
  <2>5. at + n <= Len(c) => Len(data) = n
    BY <2>1, <2>2
  <2> HIDE DEF data, last
  <2>6. ASSUME BeyondEnd(at, st) PROVE GetsBytes(c, st, at, n, r)
    <3>1. r = [result |-> -EINVAL, data |-> <<>>] /\ ~(at <= st)
      BY <2>4, <2>6 DEF BeyondEnd
    <3>2. r.result \in Int /\ r.data \in Seq(FileByte)
      BY <3>1 DEF EINVAL
    <3> QED
      BY <3>1, <3>2 DEF GetsBytes
  <2>7. ASSUME ~BeyondEnd(at, st) PROVE GetsBytes(c, st, at, n, r)
    <3>1. r.result = Len(data) /\ r.data = data /\ Len(data) \in Int
      BY <2>2, <2>4, <2>7
    <3>2. at + n <= Len(c) => \A i \in 1 .. n : r.data[i] = c[at + i]
      BY <2>2, <2>5, <3>1
    <3> QED
      BY <2>2, <2>5, <3>1, <3>2 DEF GetsBytes
  <2> QED
    BY <2>6, <2>7
<1> QED
  BY <1>0, <1>1, <1>2

-----------------------------------------------------------------------------
(* What others do.                                                         *)

Contents == [Names -> Seq(FileByte) \cup {NoFile}]

\* From f to g no file vanishes or becomes shorter.
Grows(f, g) ==
  /\ f \in Contents /\ g \in Contents
  /\ \A n \in Names : f[n] # NoFile => g[n] # NoFile /\ Len(f[n]) <= Len(g[n])

LEMMA FileLengths ==
  ASSUME NEW f \in Contents, NEW n \in Names, f[n] # NoFile
  PROVE  IsFile(f[n]) /\ Len(f[n]) \in Nat
BY DEF Contents, IsFile

LEMMA JobKinds ==
  ASSUME NEW j \in FileJobs \cup OtherJobs
  PROVE  /\ j.asked.op \in FileOps <=> j \in FileJobs
         /\ j \in FileJobs => /\ j.asked \in Requests /\ j.name \in Names
                              /\ j.start \in Nat \cup {NoFile}
                              /\ {j.offset, j.size, j.payload, j.taken, j.left, j.at,
                                  j.status, j.count, j.replies} \subseteq Nat
                              /\ j.st \in Int /\ j.announced \in Int /\ j.sent \in Seq(FileByte)
                              /\ j.count \in 0 .. CountMod - 1 /\ j.replies \in 0 .. 2
                              /\ j.garbled \in BOOLEAN /\ j.whole \in BOOLEAN
<1>1. CASE j \in FileJobs
  <2>1. /\ j.asked \in Requests /\ j.asked.op \in FileOps /\ j.name \in Names
        /\ j.start \in Nat \cup {NoFile}
    BY <1>1 DEF FileJobs
  <2>2. /\ {j.offset, j.size, j.payload, j.taken, j.left, j.at, j.status} \subseteq Nat
        /\ j.st \in Int /\ j.announced \in Int /\ j.sent \in Seq(FileByte)
        /\ j.count \in 0 .. CountMod - 1 /\ j.replies \in 0 .. 2
        /\ j.garbled \in BOOLEAN /\ j.whole \in BOOLEAN
    BY <1>1 DEF FileJobs
  <2>3. j.count \in Nat /\ j.replies \in Nat
    BY <2>2, BoundsAssumption
  <2> QED
    BY <1>1, <2>1, <2>2, <2>3
<1>2. CASE j = NoJob
  <2>1. j.asked.op = "none" /\ "none" \notin FileOps
    BY <1>2 DEF NoJob, FileOps
  <2>2. j \notin FileJobs
    BY <2>1 DEF FileJobs
  <2> QED
    BY <2>1, <2>2
<1>3. CASE j \in [asked : {r \in Requests : r.op \notin FileOps}]
  <2>1. j.asked.op \notin FileOps
    BY <1>3
  <2>2. j \notin FileJobs
    BY <2>1 DEF FileJobs
  <2> QED
    BY <2>1, <2>2
<1> QED
  BY <1>1, <1>2, <1>3 DEF OtherJobs

(* A worker is not disturbed by files that grow, and a write not by writes *)
(* on other files.                                                         *)
LEMMA NotDisturbed ==
  ASSUME NEW w, NEW p, NEW j \in FileJobs \cup OtherJobs, NEW t, NEW f, NEW g,
         WorkerOK(w, p, j, t, f), Grows(f, g),
         j.asked.op = "write" => f[j.name] = NoFile \/ g[j.name] = f[j.name]
  PROVE  WorkerOK(w, p, j, t, g)
<1>1. j \in FileJobs => j.name \in Names
  BY JobKinds
<1>2. j \in FileJobs => GrowthOK(p, j, g)
  <2>1. SUFFICES ASSUME j \in FileJobs, j.start # NoFile PROVE GrowthOK(p, j, g)
    BY DEF GrowthOK
  <2>2. f[j.name] # NoFile /\ j.start <= Len(f[j.name])
    BY <2>1 DEF WorkerOK, GrowthOK
  <2>3. /\ g[j.name] # NoFile /\ Len(f[j.name]) <= Len(g[j.name])
        /\ Len(f[j.name]) \in Nat /\ Len(g[j.name]) \in Nat
    BY <1>1, <2>1, <2>2, FileLengths DEF Grows
  <2>4. j.start \in Nat /\ j.st \in Int
    BY <2>1, JobKinds
  <2>5. p \in {"size", "read"} => j.start <= j.st /\ j.st <= Len(f[j.name])
    BY <2>1 DEF WorkerOK, GrowthOK
  <2> QED
    BY <2>2, <2>3, <2>4, <2>5 DEF GrowthOK
<1>3. j.asked.op = "filesize" => SizeOK(p, j, g)
  <2>1. SUFFICES ASSUME j.asked.op = "filesize" PROVE SizeOK(p, j, g)
    OBVIOUS
  <2>2. j \in FileJobs /\ SizeOK(p, j, f)
    BY <2>1, JobKinds DEF WorkerOK, FileOps
  <2>3. CASE p \in Working \/ j.start = NoFile \/ j.status = EMFILE
    BY <2>2, <2>3 DEF SizeOK
  <2>4. CASE p \notin Working /\ j.start # NoFile /\ j.status # EMFILE
    <3>1. /\ f[j.name] # NoFile /\ j.replies = 1 /\ j.status = 0
          /\ j.start <= j.announced /\ j.announced <= Len(f[j.name]) /\ j.announced \in Int
      BY <2>2, <2>4, JobKinds DEF WorkerOK, GrowthOK, SizeOK
    <3>2. /\ Len(f[j.name]) <= Len(g[j.name])
          /\ Len(f[j.name]) \in Nat /\ Len(g[j.name]) \in Nat
      BY <1>1, <2>2, <3>1, FileLengths DEF Grows
    <3> QED
      BY <2>4, <3>1, <3>2 DEF SizeOK
  <2> QED
    BY <2>3, <2>4
<1>4. j.asked.op = "write" => WriteOK(w, p, j, g)
  <2>1. SUFFICES ASSUME j.asked.op = "write" PROVE Landed(w, j, g)
    BY DEF WorkerOK, WriteOK
  <2>2. Landed(w, j, f)
    BY <2>1 DEF WorkerOK, WriteOK
  <2> QED
    BY <2>1, <2>2 DEF Landed
<1> QED
  BY <1>2, <1>3, <1>4 DEF WorkerOK

(* A write is told that somebody writes to its file as well. *)
LEMMA NotAloneOK ==
  ASSUME NEW w, NEW p, NEW j \in FileJobs, NEW t, NEW f, NEW g,
         WorkerOK(w, p, j, t, f), Grows(f, g), j.asked.op = "write"
  PROVE  /\ [j EXCEPT !.alone = FALSE] \in FileJobs
         /\ WorkerOK(w, p, [j EXCEPT !.alone = FALSE], t, g)
<1> DEFINE k == [j EXCEPT !.alone = FALSE]
<1>1. k \in FileJobs
  BY DEF FileJobs
<1>2. /\ k.asked = j.asked /\ k.whole = j.whole /\ k.name = j.name /\ k.offset = j.offset
      /\ k.size = j.size /\ k.payload = j.payload /\ k.alive = j.alive /\ k.st = j.st
      /\ k.taken = j.taken /\ k.left = j.left /\ k.at = j.at /\ k.status = j.status
      /\ k.replies = j.replies /\ k.start = j.start /\ k.short = j.short /\ k.alone = FALSE
  BY DEF FileJobs
<1> HIDE DEF k
<1>3. /\ PcOK(p, j, t) /\ RestOK(j, t) /\ JobOK(j) /\ GrowthOK(p, j, f)
      /\ WriteOK(w, p, j, f)
  BY DEF WorkerOK
<1>4. PcOK(p, k, t) /\ RestOK(k, t) /\ JobOK(k)
  BY <1>2, <1>3 DEF PcOK, RestOK, JobOK
<1>5. GrowthOK(p, k, g)
  <2>1. SUFFICES ASSUME j.start # NoFile PROVE GrowthOK(p, k, g)
    BY <1>2 DEF GrowthOK
  <2>2. f[j.name] # NoFile /\ j.start <= Len(f[j.name])
    BY <1>3, <2>1 DEF GrowthOK
  <2>3. /\ g[j.name] # NoFile /\ Len(f[j.name]) <= Len(g[j.name])
        /\ Len(f[j.name]) \in Nat /\ Len(g[j.name]) \in Nat
        /\ j.start \in Nat
    BY <2>1, <2>2, JobKinds, FileLengths DEF Grows
  <2>4. p \notin {"size", "read"}
    BY <1>3 DEF PcOK
  <2> QED
    BY <1>2, <2>2, <2>3, <2>4 DEF GrowthOK
<1>6. WriteOK(w, p, k, g)
  BY <1>2, <1>3 DEF WriteOK, WriteSoFar, WriteDone, Landed
<1>7. WorkerOK(w, p, k, t, g)
  BY <1>2, <1>4, <1>5, <1>6 DEF WorkerOK
<1> QED
  BY <1>1, <1>7 DEF k

-----------------------------------------------------------------------------
(* One step of one worker, or of its client.                               *)

Places == Working \cup {"idle", "done", "astray"}

Becomes(w, p, t, j) ==
  /\ pc'   = [pc EXCEPT ![w] = p]
  /\ rest' = [rest EXCEPT ![w] = t]
  /\ job'  = [job EXCEPT ![w] = j]

LEMMA WhatIsKnown ==
  ASSUME IInv, NEW w \in Workers
  PROVE  /\ pc[w] \in Places /\ rest[w] \in Int /\ job[w] \in FileJobs \cup OtherJobs
         /\ WorkerOK(w, pc[w], job[w], rest[w], files)
         /\ files \in Contents /\ Grows(files, files)
<1>1. files \in Contents
  BY DEF IInv, FilesInv, Contents
<1>2. Grows(files, files)
  BY <1>1, FileLengths DEF Grows
<1> QED
  BY <1>1, <1>2 DEF IInv, TypesInv, WorkersInv, Places

(* What is known of the others stays true, as long as files grow and what  *)
(* they write to stays as it is.                                           *)
LEMMA OneMoves ==
  ASSUME IInv, NEW w \in Workers, NEW p \in Places, NEW t \in Int,
         NEW j \in FileJobs \cup OtherJobs, Becomes(w, p, t, j), Grows(files, files'),
         \A v \in Workers \ {w} : job[v].asked.op = "write" =>
           files[job[v].name] = NoFile \/ files'[job[v].name] = files[job[v].name],
         WorkerOK(w, p, j, t, files')
  PROVE  TypesInv' /\ WorkersInv'
<1>1. TypesInv'
  BY DEF IInv, TypesInv, Becomes, Places
<1>2. /\ pc'[w] = p /\ rest'[w] = t /\ job'[w] = j
      /\ \A v \in Workers \ {w} : pc'[v] = pc[v] /\ rest'[v] = rest[v] /\ job'[v] = job[v]
  BY DEF IInv, TypesInv, Becomes
<1>3. ASSUME NEW v \in Workers \ {w}
      PROVE  WorkerOK(v, pc[v], job[v], rest[v], files')
  BY WhatIsKnown, NotDisturbed
<1>4. ASSUME NEW v \in Workers PROVE WorkerOK(v, pc'[v], job'[v], rest'[v], files')
  <2>1. CASE v = w
    BY <1>2, <2>1
  <2>2. CASE v # w
    BY <1>2, <1>3, <2>2
  <2> QED
    BY <2>1, <2>2
<1>5. WorkersInv'
  BY <1>4 DEF WorkersInv
<1> QED
  BY <1>1, <1>5

(* A step that leaves the files alone. *)
LEMMA OneMovesAlone ==
  ASSUME IInv, NEW w \in Workers, NEW p \in Places, NEW t \in Int,
         NEW j \in FileJobs \cup OtherJobs, Becomes(w, p, t, j), files' = files,
         StreamInv', WorkerOK(w, p, j, t, files)
  PROVE  IInv'
<1>1. FilesInv'
  BY DEF IInv, FilesInv
<1>2. Grows(files, files')
  BY WhatIsKnown
<1>3. WorkerOK(w, p, j, t, files')
  OBVIOUS
<1>4. TypesInv' /\ WorkersInv'
  BY <1>2, <1>3, OneMoves
<1> QED
  BY <1>1, <1>4 DEF IInv

LEMMA OthersUnchanged ==
  ASSUME IInv, NEW w \in Workers
  PROVE  /\ UNCHANGED pc => pc' = [pc EXCEPT ![w] = pc[w]]
         /\ UNCHANGED rest => rest' = [rest EXCEPT ![w] = rest[w]]
         /\ UNCHANGED job => job' = [job EXCEPT ![w] = job[w]]
BY DEF IInv, TypesInv

LEMMA SentStep ==
  ASSUME IInv, NEW w \in Workers, NEW item \in Items, Sent(w, item.req, item.got),
         open' \in [Workers -> BOOLEAN]
  PROVE  IInv'
<1>1. item = [req |-> item.req, got |-> item.got]
  BY DEF Items
<1>2. stream' \in [Workers -> Seq(Items)]
  <2>1. stream \in [Workers -> Seq(Items)] /\ stream' = [stream EXCEPT ![w] = Append(stream[w], item)]
    BY <1>1 DEF IInv, StreamInv, Sent
  <2>2. Append(stream[w], item) \in Seq(Items)
    BY <2>1
  <2> QED
    BY <2>1, <2>2
<1>3. calls' \in 0 .. MaxCalls
  BY BoundsAssumption DEF IInv, StreamInv, Sent
<1> QED
  BY <1>2, <1>3 DEF IInv, FilesInv, StreamInv, TypesInv, WorkersInv, Sent

LEMMA ClientStep ==
  ASSUME IInv, NEW w \in Workers, Send(w) \/ SendPart(w) \/ HangUp(w)
  PROVE  IInv'
<1>1. CASE Send(w)
  <2>1. open' \in [Workers -> BOOLEAN]
    BY <1>1 DEF IInv, StreamInv, Send
  <2>2. PICK r \in Requests : Sent(w, r, BytesOf(r))
    BY <1>1 DEF Send
  <2> DEFINE item == [req |-> r, got |-> BytesOf(r)]
  <2>3. item \in Items
    BY BytesAreInt DEF Items
  <2>4. Sent(w, item.req, item.got)
    BY <2>2
  <2> HIDE DEF item
  <2> QED
    BY <2>1, <2>3, <2>4, SentStep
<1>2. CASE SendPart(w)
  <2>1. open' \in [Workers -> BOOLEAN]
    BY <1>2 DEF IInv, StreamInv, SendPart
  <2>2. PICK p \in Parts : Sent(w, p.req, p.got)
    BY <1>2 DEF SendPart
  <2> DEFINE item == [req |-> p.req, got |-> p.got]
  <2>3. item \in Items
    BY PartsAssumption, BytesAreInt DEF Items
  <2>4. Sent(w, item.req, item.got)
    BY <2>2
  <2> HIDE DEF item
  <2> QED
    BY <2>1, <2>3, <2>4, SentStep
<1>3. CASE HangUp(w)
  BY <1>3 DEF IInv, FilesInv, StreamInv, TypesInv, WorkersInv, HangUp
<1> QED
  BY <1>1, <1>2, <1>3

LEMMA LeaveStep ==
  ASSUME IInv, NEW w \in Workers, ReceiveEnd(w) \/ GoAstray(w)
  PROVE  IInv'
<1> DEFINE j == job[w]
           t == rest[w]
<1>1. PICK q \in {"done", "astray"} : pc' = [pc EXCEPT ![w] = q]
  BY DEF ReceiveEnd, GoAstray
<1>2. /\ pc[w] = "idle" /\ files' = files /\ UNCHANGED <<rest, job, stream, open, calls>>
  BY DEF ReceiveEnd, GoAstray, conn
<1>3. WorkerOK(w, "idle", j, t, files) /\ j \in FileJobs \cup OtherJobs /\ t \in Int
  BY <1>2, WhatIsKnown
<1>4. "idle" \notin Working /\ q \notin Working /\ q \notin {"size", "read"} /\ q \in Places
  BY DEF Working, Places
<1> HIDE DEF j, t
<1>5. WorkerOK(w, q, j, t, files)
  <2>1. PcOK(q, j, t) /\ RestOK(j, t)
    BY <1>3, <1>4 DEF WorkerOK, PcOK, Working
  <2>2. j \in FileJobs => JobOK(j) /\ GrowthOK(q, j, files)
    BY <1>3, <1>4 DEF WorkerOK, GrowthOK
  <2>3. /\ j.asked.op = "read"     => ReadOK(q, j)
        /\ j.asked.op = "filesize" => SizeOK(q, j, files)
        /\ j.asked.op = "create"   => CreateOK(q, j)
        /\ j.asked.op = "write"    => WriteOK(w, q, j, files)
    BY <1>3, <1>4 DEF WorkerOK, ReadOK, SizeOK, CreateOK, WriteOK, Working
  <2> QED
    BY <2>1, <2>2, <2>3 DEF WorkerOK
<1>6. Becomes(w, q, t, j)
  BY <1>1, <1>2, OthersUnchanged DEF Becomes, j, t
<1>7. StreamInv'
  BY <1>2 DEF IInv, StreamInv
<1> QED
  BY <1>2, <1>3, <1>4, <1>5, <1>6, <1>7, OneMovesAlone

LEMMA ReceivedStep ==
  ASSUME IInv, NEW w \in Workers, NEW r, NEW got, Received(w, r, got)
  PROVE  /\ r \in Requests /\ got \in Int /\ got <= BytesOf(r) /\ rest[w] = 0
         /\ StreamInv'
<1> DEFINE S == Items
<1>1. stream \in [Workers -> Seq(S)] /\ stream[w] # <<>>
  BY DEF IInv, StreamInv, Received
<1>2. /\ stream' = [stream EXCEPT ![w] = Tail(stream[w])]
      /\ r = Head(stream[w]).req /\ got = Head(stream[w]).got /\ rest[w] = 0
  BY DEF Received
<1> HIDE DEF S
<1>3. Head(stream[w]) \in S /\ Tail(stream[w]) \in Seq(S)
  BY <1>1
<1>4. stream' \in [Workers -> Seq(S)]
  BY <1>1, <1>2, <1>3
<1>5. r \in Requests /\ got \in Int /\ got <= BytesOf(r)
  BY <1>2, <1>3 DEF S, Items
<1>6. StreamInv'
  BY <1>4 DEF IInv, StreamInv, Received, S
<1> QED
  BY <1>2, <1>5, <1>6

LEMMA RunElsewhereStep ==
  ASSUME IInv, NEW w \in Workers, NEW r, NEW got, RunElsewhere(w, r, got)
  PROVE  IInv'
<1> DEFINE t == Leftover(r, got)
           j == [asked |-> r]
<1>1. /\ r \in Requests /\ StreamInv' /\ files' = files /\ pc[w] = "idle"
      /\ r.op \in {"variables", "dump", "load", "clear", "unknown"}
  BY ReceivedStep DEF RunElsewhere, Received
<1>2. Becomes(w, "idle", t, j)
  BY <1>1, OthersUnchanged DEF RunElsewhere, Becomes
<1>3. r.op \notin FileOps
  BY <1>1 DEF FileOps
<1>4. j \in FileJobs \cup OtherJobs /\ j \notin FileJobs /\ j.asked = r
  <2>1. j \in OtherJobs /\ j.asked.op \notin FileOps
    BY <1>1, <1>3 DEF OtherJobs
  <2> QED
    BY <2>1, JobKinds
<1>5. got \in Int /\ got <= BytesOf(r)
  BY ReceivedStep DEF RunElsewhere
<1>6. t \in Int
  BY <1>1, <1>5, LeftoverIs
<1>7. t # 0 =>
        /\ r.op = "variables"
        /\ IsServed(r) => \E i \in DOMAIN r.operands : r.operands[i] > MaxName
  BY <1>1, <1>5, LeftoverIs
<1> HIDE DEF t, j
<1>8. WorkerOK(w, "idle", j, t, files)
  <2>1. PcOK("idle", j, t) /\ RestOK(j, t)
    BY <1>4, <1>7 DEF PcOK, RestOK, Working
  <2> QED
    BY <1>3, <1>4, <2>1 DEF WorkerOK, FileOps
<1>9. "idle" \in Places
  BY DEF Places
<1> QED
  BY <1>1, <1>2, <1>4, <1>6, <1>8, <1>9, OneMovesAlone

LEMMA BeginStep ==
  ASSUME IInv, NEW w \in Workers, NEW r, NEW got, Begin(w, r, got)
  PROVE  IInv'
<1> DEFINE d == Decoded(r, got)
           whole == got = BytesOf(r)
           start == IF files[d.name] = NoFile THEN NoFile ELSE Len(files[d.name])
           p == IF r.op \in {"filesize", "read"} THEN "stat" ELSE r.op
           j == [asked |-> r, whole |-> whole, name |-> d.name,
                 offset |-> d.offset, size |-> d.size, payload |-> d.payload,
                 alive |-> d.alive, st |-> 0, taken |-> 0,
                 left |-> d.size, at |-> d.offset, count |-> 1, status |-> 0,
                 replies |-> 0, announced |-> 0, sent |-> <<>>, garbled |-> FALSE,
                 start |-> start, short |-> FALSE, alone |-> TRUE]
<1>1. /\ r \in Requests /\ got \in Int /\ StreamInv' /\ files' = files /\ rest[w] = 0
      /\ r.op \in FileOps /\ d.name \in Names
  BY ReceivedStep DEF Begin, Received, FileOps
<1>2. Arrived(r, got, d)
  BY <1>1, FieldsArrive
<1>3. Becomes(w, p, 0, j)
  BY <1>1, OthersUnchanged DEF Begin, Becomes
<1>4. /\ start \in Nat \cup {NoFile}
      /\ start # NoFile => files[d.name] # NoFile /\ start = Len(files[d.name])
  BY <1>1, WhatIsKnown, FileLengths
<1>5. /\ j.asked = r /\ j.whole = whole /\ j.name = d.name /\ j.offset = d.offset
      /\ j.size = d.size /\ j.payload = d.payload /\ j.alive = d.alive /\ j.taken = 0
      /\ j.left = d.size /\ j.at = d.offset /\ j.count = 1 /\ j.status = 0 /\ j.replies = 0
      /\ j.sent = <<>> /\ j.garbled = FALSE /\ j.start = start
  OBVIOUS
<1>6. j \in FileJobs
  <2>1. /\ whole \in BOOLEAN /\ d.offset \in Nat /\ d.size \in Nat /\ d.payload \in Nat
        /\ d.alive \in BOOLEAN
    BY <1>2 DEF Arrived
  <2>2. 1 \in 0 .. CountMod - 1 /\ 0 \in 0 .. 2 /\ <<>> \in Seq(FileByte)
    BY BoundsAssumption
  <2> HIDE DEF d, whole, start
  <2> QED
    BY <1>1, <1>4, <2>1, <2>2 DEF FileJobs
<1>7. whole = (got = BytesOf(r))
  OBVIOUS
<1>8. /\ p \in Working /\ p \notin {"size", "read", "restat"}
      /\ p = "create" => r.op = "create"
      /\ p = "stat" => r.op \in {"filesize", "read"}
      /\ p = "write" => r.op = "write"
  BY <1>1 DEF FileOps, Working
<1> HIDE DEF j, d, p, whole, start
<1>9. WorkerOK(w, p, j, 0, files)
  <2>1. PcOK(p, j, 0) /\ RestOK(j, 0)
    BY <1>5, <1>8 DEF PcOK, RestOK
  <2>2. JobOK(j)
    <3>1. j.size \in Nat /\ j.offset \in Nat
      BY <1>6, JobKinds
    <3>2. j.left <= j.size /\ j.at <= j.offset + j.size
      BY <1>5, <3>1
    <3>3. j.whole => j.alive \/ j.name = <<>>
      BY <1>2, <1>5, <1>7, Zenon DEF Arrived
    <3>4. j.whole /\ j.asked.op = "write" => j.size <= j.payload
      BY <1>2, <1>5, <1>7, Zenon DEF Arrived
    <3>5. j.asked.op = "read" => j.size <= (CountMod - 1) * BufferSize
      BY <1>2, <1>5, Zenon DEF Arrived
    <3> QED
      BY <3>2, <3>3, <3>4, <3>5, Zenon DEF JobOK
  <2>3. GrowthOK(p, j, files)
    <3>1. start \in Nat => start <= start
      OBVIOUS
    <3> QED
      BY <1>4, <1>5, <1>8, <3>1 DEF GrowthOK
  <2>4. ReadOK(p, j)
    BY <1>5, <1>8 DEF ReadOK, Fresh, InPlace
  <2>5. SizeOK(p, j, files) /\ CreateOK(p, j)
    BY <1>5, <1>8 DEF SizeOK, CreateOK
  <2>6. WriteOK(w, p, j, files)
    <3>1. j.size \in Nat /\ j.offset \in Nat /\ j.payload \in Nat
      BY <1>6, JobKinds
    <3>2. WriteSoFar(j)
      BY <1>5, <3>1 DEF WriteSoFar
    <3>3. Landed(w, j, files)
      BY <1>5 DEF Landed
    <3> QED
      BY <1>8, <3>2, <3>3 DEF WriteOK
  <2> QED
    BY <2>1, <2>2, <2>3, <2>4, <2>5, <2>6 DEF WorkerOK
<1>10. p \in Places /\ 0 \in Int
  BY <1>8 DEF Places
<1> QED
  BY <1>1, <1>3, <1>6, <1>9, <1>10, OneMovesAlone

LEMMA ReceiveStep ==
  ASSUME IInv, NEW w \in Workers, Receive(w)
  PROVE  IInv'
BY BeginStep, RunElsewhereStep DEF Receive

-----------------------------------------------------------------------------
(* create, filesize, and the size a read request is compared with.         *)

LEMMA AnsweredFields ==
  ASSUME NEW j \in FileJobs, NEW s \in Nat, j.replies = 0
  PROVE  /\ Answered(j, s) \in FileJobs
         /\ LET k == Answered(j, s) IN
            /\ k.asked = j.asked /\ k.whole = j.whole /\ k.name = j.name
            /\ k.offset = j.offset /\ k.size = j.size /\ k.payload = j.payload
            /\ k.alive = j.alive /\ k.st = j.st /\ k.taken = j.taken /\ k.left = j.left
            /\ k.at = j.at /\ k.status = s /\ k.replies = 1 /\ k.announced = j.announced
            /\ k.sent = j.sent /\ k.start = j.start /\ k.short = j.short /\ k.alone = j.alone
<1>1. j.replies + 1 = 1 /\ 1 \in 0 .. 2
  OBVIOUS
<1> QED
  BY <1>1, ZenonT(60) DEF FileJobs, Answered

LEMMA CreateFileStep ==
  ASSUME IInv, NEW w \in Workers, CreateFile(w)
  PROVE  IInv'
<1> DEFINE j == job[w]
           t == rest[w]
           outcomes == IF j.name = <<>> THEN {[result |-> ENOENT, file |-> NoFile]}
                       ELSE create(files[j.name], OpensFail)
<1>0. PICK c \in outcomes :
        /\ files' = [files EXCEPT ![j.name] = c.file]
        /\ job' = [job EXCEPT ![w] = Answered(j, c.result)]
  BY DEF CreateFile
<1> DEFINE k == Answered(j, c.result)
<1>1. /\ pc[w] = "create" /\ pc' = [pc EXCEPT ![w] = "idle"]
      /\ files' = [files EXCEPT ![j.name] = c.file] /\ job' = [job EXCEPT ![w] = k]
      /\ UNCHANGED <<stream, open, calls, rest>>
  BY <1>0 DEF CreateFile, Go, conn
<1>2. WorkerOK(w, "create", j, t, files) /\ j \in FileJobs \cup OtherJobs /\ t \in Int
  BY <1>1, WhatIsKnown
<1>3. t = 0 /\ j.asked.op = "create" /\ j.replies = 0
  BY <1>2 DEF WorkerOK, PcOK, CreateOK, Working
<1>4. j \in FileJobs /\ j.name \in Names /\ JobOK(j) /\ GrowthOK("create", j, files)
  BY <1>2, <1>3, JobKinds DEF FileOps, WorkerOK
<1>5. /\ c.result \in Nat
      /\ \/ c.file = files[j.name]
         \/ j.name # <<>> /\ files[j.name] = NoFile /\ c.file = <<>>
  <2>1. j.name = <<>> => files[j.name] = NoFile
    BY DEF IInv, FilesInv
  <2> QED
    BY <1>0, <2>1 DEF create, Outcomes, ENOENT, EEXIST, EMFILE
<1>6. k \in FileJobs /\ k.replies = 1 /\ k.asked = j.asked /\ k.name = j.name
      /\ k.start = j.start /\ JobOK(k)
  BY <1>3, <1>4, <1>5, AnsweredFields DEF JobOK
<1>7. Becomes(w, "idle", t, k)
  BY <1>1, OthersUnchanged DEF Becomes
<1> HIDE DEF k, outcomes
<1>8. Grows(files, files') /\ \A n \in Names : files[n] = NoFile \/ files'[n] = files[n]
  <2>1. files \in Contents /\ <<>> \in Seq(FileByte) /\ files' \in Contents
    <3>1. files \in Contents /\ <<>> \in Seq(FileByte)
      BY WhatIsKnown
    <3>2. c.file \in Seq(FileByte) \cup {NoFile}
      BY <1>4, <1>5, <3>1 DEF Contents
    <3> QED
      BY <1>1, <3>1, <3>2 DEF Contents
  <2>2. \A n \in Names : files[n] = NoFile \/ files'[n] = files[n]
    BY <1>1, <1>4, <1>5, <2>1 DEF Contents
  <2>3. Grows(files, files')
    BY <2>1, <2>2, FileLengths DEF Grows
  <2> QED
    BY <2>2, <2>3
<1>9. FilesInv'
  <2>1. files' \in Contents /\ files \in Contents
    BY <1>8 DEF Grows
  <2>2. files'[<<>>] = NoFile
    BY <1>1, <1>4, <1>5, <2>1, NamesAssumption DEF IInv, FilesInv, Contents
  <2>3. ASSUME NEW n \in Names, files'[n] # NoFile PROVE InPlace(files'[n], 0)
    <3>1. files'[n] = files[n] \/ files'[n] = <<>>
      BY <1>1, <1>4, <1>5, <2>1 DEF Contents
    <3>2. InPlace(<<>>, 0)
      BY DEF InPlace
    <3> QED
      BY <2>3, <3>1, <3>2 DEF IInv, FilesInv
  <2> QED
    BY <2>1, <2>2, <2>3 DEF FilesInv, Contents
<1>10. WorkerOK(w, "idle", k, t, files')
  <2>1. "idle" \notin Working
    BY DEF Working
  <2>2. PcOK("idle", k, t) /\ RestOK(k, t) /\ CreateOK("idle", k)
    BY <1>3, <1>6, <2>1 DEF PcOK, RestOK, CreateOK
  <2>3. GrowthOK("idle", k, files')
    BY <1>4, <1>6, <1>8, <1>9 DEF GrowthOK
  <2> QED
    BY <1>3, <1>6, <2>2, <2>3 DEF WorkerOK
<1>11. \A v \in Workers \ {w} : job[v].asked.op = "write" =>
         files[job[v].name] = NoFile \/ files'[job[v].name] = files[job[v].name]
  <2>1. \A v \in Workers : job[v].asked.op = "write" => job[v].name \in Names
    BY WhatIsKnown, JobKinds DEF FileOps
  <2> QED
    BY <1>8, <2>1
<1>12. StreamInv' /\ "idle" \in Places
  BY <1>1 DEF IInv, StreamInv, Places
<1> HIDE DEF j, t
<1>13. TypesInv' /\ WorkersInv'
  BY <1>2, <1>6, <1>7, <1>8, <1>10, <1>11, <1>12, OneMoves
<1> QED
  BY <1>9, <1>12, <1>13 DEF IInv

LEMMA StatFileStep ==
  ASSUME IInv, NEW w \in Workers, StatFile(w)
  PROVE  IInv'
<1> DEFINE j == job[w]
           t == rest[w]
           p == pc[w]
           c == files[j.name]
<1>1. PICK q, s : /\ (p = "stat" /\ q = "size") \/ (p = "restat" /\ q = "read")
                  /\ pc' = [pc EXCEPT ![w] = q] /\ s \in Stat(c)
                  /\ job' = [job EXCEPT ![w].st = s]
                  /\ UNCHANGED <<files, stream, open, calls, rest>>
  BY DEF StatFile, Go, conn
<1>2. /\ WorkerOK(w, p, j, t, files) /\ j \in FileJobs \cup OtherJobs /\ t \in Int
      /\ files \in Contents
  BY WhatIsKnown
<1>3. /\ p \in Working /\ q \in Working /\ p \notin {"size", "read"}
      /\ q \notin {"create", "write"}
  BY <1>1 DEF Working
<1>4. t = 0 /\ j.asked.op \in {"read", "filesize"} /\ (q = "read" => j.asked.op = "read")
  BY <1>1, <1>2, <1>3 DEF WorkerOK, PcOK
<1>5. j \in FileJobs /\ j.name \in Names /\ JobOK(j) /\ GrowthOK(p, j, files)
  BY <1>2, <1>4, JobKinds DEF FileOps, WorkerOK
<1>6. s \in Int /\ (c # NoFile => s = Len(c) /\ Len(c) \in Nat)
  BY <1>1, <1>2, <1>5, FileLengths, GarbageAssumption DEF Stat
<1> DEFINE k == [j EXCEPT !.st = s]
<1>7. /\ k \in FileJobs
      /\ k.asked = j.asked /\ k.whole = j.whole /\ k.name = j.name /\ k.offset = j.offset
      /\ k.size = j.size /\ k.payload = j.payload /\ k.alive = j.alive /\ k.st = s
      /\ k.left = j.left /\ k.at = j.at /\ k.count = j.count /\ k.status = j.status
      /\ k.replies = j.replies /\ k.announced = j.announced /\ k.sent = j.sent
      /\ k.garbled = j.garbled /\ k.start = j.start
  BY <1>5, <1>6 DEF FileJobs
<1>8. Becomes(w, q, t, k)
  BY <1>1, OthersUnchanged DEF Becomes
<1> HIDE DEF k
<1>9. WorkerOK(w, q, k, t, files)
  <2>1. PcOK(q, k, t) /\ RestOK(k, t)
    BY <1>1, <1>4, <1>7 DEF PcOK, RestOK
  <2>2. JobOK(k)
    BY <1>5, <1>7 DEF JobOK
  <2>3. GrowthOK(q, k, files)
    <3>1. j.start # NoFile => c # NoFile /\ j.start <= Len(c)
      BY <1>5 DEF GrowthOK
    <3>2. j.start # NoFile => j.start <= s /\ s <= Len(c)
      BY <1>6, <3>1
    <3> QED
      BY <1>7, <3>1, <3>2 DEF GrowthOK
  <2>4. j.asked.op = "read" => ReadOK(q, k)
    <3>1. SUFFICES ASSUME j.asked.op = "read" PROVE ReadOK(q, k)
      OBVIOUS
    <3>2. ReadOK(p, j)
      BY <1>2, <3>1 DEF WorkerOK
    <3>3. Inside(k) <=> Inside(j)
      BY <1>7 DEF Inside, Within
    <3>4. q = "size" => Fresh(k)
      BY <1>1, <1>7, <3>2 DEF ReadOK, Fresh
    <3>5. q = "read" => ReadSoFar(k)
      BY <1>1, <1>7, <3>2, <3>3 DEF ReadOK, ReadSoFar, InsideSoFar
    <3>6. Inside(k) => InPlace(k.sent, k.offset)
      BY <1>7, <3>2, <3>3 DEF ReadOK
    <3> QED
      BY <1>1, <1>3, <3>4, <3>5, <3>6 DEF ReadOK
  <2>5. j.asked.op = "filesize" => SizeOK(q, k, files)
    BY <1>2, <1>3, <1>7 DEF SizeOK, WorkerOK
  <2> QED
    BY <1>4, <1>7, <2>1, <2>2, <2>3, <2>4, <2>5 DEF WorkerOK
<1>10. StreamInv' /\ q \in Places
  BY <1>1, <1>3 DEF IInv, StreamInv, Places
<1> HIDE DEF j, t, p
<1> QED
  BY <1>1, <1>2, <1>7, <1>8, <1>9, <1>10, OneMovesAlone

(* A worker that has the size of the file. *)
LEMMA SizeIsKnown ==
  ASSUME IInv, NEW w \in Workers, pc[w] = "size"
  PROVE  LET j == job[w] IN
         /\ j \in FileJobs /\ j.name \in Names /\ rest[w] = 0
         /\ JobOK(j) /\ GrowthOK("size", j, files)
         /\ j.asked.op \in {"filesize", "read"} /\ j.replies = 0
         /\ j.asked.op = "read" => Fresh(j)
         /\ \A s \in Sizes(w) :
              /\ s \in Int
              /\ j.start # NoFile /\ s # -EMFILE =>
                   s \in Nat /\ j.start <= s /\ s <= Len(files[j.name])
<1> DEFINE j == job[w]
           c == files[j.name]
<1>1. /\ WorkerOK(w, "size", j, rest[w], files) /\ j \in FileJobs \cup OtherJobs
      /\ files \in Contents
  BY WhatIsKnown
<1>2. /\ rest[w] = 0 /\ j.asked.op \in {"filesize", "read"}
      /\ j.asked.op = "read" => Fresh(j)
      /\ j.asked.op = "filesize" => j.replies = 0
  BY <1>1 DEF WorkerOK, PcOK, ReadOK, SizeOK, Working
<1>3. j \in FileJobs /\ j.name \in Names /\ JobOK(j) /\ GrowthOK("size", j, files)
  BY <1>1, <1>2, JobKinds DEF FileOps, WorkerOK
<1>4. j.replies = 0
  BY <1>2 DEF Fresh
<1>5. ASSUME NEW s \in Sizes(w)
      PROVE  s = -EMFILE \/ s = IF c = NoFile \/ j.st = -1 THEN -2 ELSE j.st
  BY <1>5 DEF Sizes, filesize, Outcomes, ENOENT
<1>6. j.st \in Int /\ j.start \in Nat \cup {NoFile}
  BY <1>3, JobKinds
<1>7. ASSUME NEW s \in Sizes(w), j.start # NoFile, s # -EMFILE
      PROVE  s \in Nat /\ j.start <= s /\ s <= Len(c)
  <2>1. c # NoFile /\ j.start <= j.st /\ j.st <= Len(c)
    BY <1>3, <1>7 DEF GrowthOK
  <2>2. s = IF c = NoFile \/ j.st = -1 THEN -2 ELSE j.st
    BY <1>5, <1>7
  <2> HIDE DEF j
  <2> QED
    BY <1>6, <1>7, <2>1, <2>2
<1>8. ASSUME NEW s \in Sizes(w) PROVE s \in Int
  <2> HIDE DEF j
  <2> QED
    BY <1>5, <1>6 DEF EMFILE
<1> QED
  BY <1>2, <1>3, <1>4, <1>7, <1>8

LEMMA AnswerSizeStep ==
  ASSUME IInv, NEW w \in Workers, AnswerSize(w)
  PROVE  IInv'
<1> DEFINE j == job[w]
<1>0. PICK s \in Sizes(w) :
        job' = [job EXCEPT ![w] = IF s < 0 THEN Answered(j, -s)
                                  ELSE [Answered(j, 0) EXCEPT !.announced = s]]
  BY DEF AnswerSize
<1> DEFINE k == IF s < 0 THEN Answered(j, -s) ELSE [Answered(j, 0) EXCEPT !.announced = s]
<1>1. /\ pc[w] = "size" /\ pc' = [pc EXCEPT ![w] = "idle"] /\ j.asked.op = "filesize"
      /\ job' = [job EXCEPT ![w] = k] /\ UNCHANGED <<files, stream, open, calls, rest>>
  BY <1>0 DEF AnswerSize, Go, conn
<1>2. /\ j \in FileJobs /\ j.name \in Names /\ rest[w] = 0
      /\ JobOK(j) /\ GrowthOK("size", j, files) /\ j.replies = 0 /\ s \in Int
      /\ j.start # NoFile /\ s # -EMFILE => s \in Nat /\ j.start <= s /\ s <= Len(files[j.name])
  BY <1>1, SizeIsKnown
<1>3. Becomes(w, "idle", 0, k)
  BY <1>1, <1>2, OthersUnchanged DEF Becomes
<1>4. /\ k \in FileJobs
      /\ k.asked = j.asked /\ k.whole = j.whole /\ k.name = j.name /\ k.offset = j.offset
      /\ k.size = j.size /\ k.payload = j.payload /\ k.alive = j.alive
      /\ k.left = j.left /\ k.at = j.at /\ k.replies = 1 /\ k.start = j.start
      /\ s < 0 => k.status = -s
      /\ ~(s < 0) => k.status = 0 /\ k.announced = s
  <2>1. CASE s < 0
    <3>1. -s \in Nat
      BY <1>2, <2>1
    <3> QED
      BY <1>2, <2>1, <3>1, AnsweredFields
  <2>2. CASE ~(s < 0)
    <3>1. k = [Answered(j, 0) EXCEPT !.announced = s]
      BY <2>2
    <3> DEFINE a == Answered(j, 0)
    <3>2. /\ a \in FileJobs
          /\ a.asked = j.asked /\ a.whole = j.whole /\ a.name = j.name /\ a.offset = j.offset
          /\ a.size = j.size /\ a.payload = j.payload /\ a.alive = j.alive
          /\ a.left = j.left /\ a.at = j.at /\ a.replies = 1 /\ a.start = j.start
          /\ a.status = 0
      BY <1>2, AnsweredFields
    <3> HIDE DEF a, k, j
    <3> QED
      BY <1>2, <2>2, <3>1, <3>2 DEF FileJobs, a
  <2> QED
    BY <2>1, <2>2
<1> HIDE DEF k
<1>5. WorkerOK(w, "idle", k, 0, files)
  <2>1. "idle" \notin Working
    BY DEF Working
  <2>2. PcOK("idle", k, 0) /\ RestOK(k, 0)
    BY <2>1 DEF PcOK, RestOK
  <2>3. JobOK(k) /\ GrowthOK("idle", k, files)
    BY <1>2, <1>4 DEF JobOK, GrowthOK
  <2>4. SizeOK("idle", k, files)
    BY <1>2, <1>4, <2>1 DEF SizeOK, EMFILE
  <2> QED
    BY <1>1, <1>4, <2>2, <2>3, <2>4 DEF WorkerOK
<1>6. StreamInv' /\ "idle" \in Places
  BY <1>1 DEF IInv, StreamInv, Places
<1> QED
  BY <1>1, <1>3, <1>4, <1>5, <1>6, OneMovesAlone

LEMMA RefuseReadStep ==
  ASSUME IInv, NEW w \in Workers, RefuseRead(w)
  PROVE  IInv'
<1> DEFINE j == job[w]
           k == Answered(j, EINVAL)
<1>1. /\ pc[w] = "size" /\ pc' = [pc EXCEPT ![w] = "idle"] /\ j.asked.op = "read"
      /\ job' = [job EXCEPT ![w] = k] /\ UNCHANGED <<files, stream, open, calls, rest>>
  BY DEF RefuseRead, Go, conn
<1>0. PICK s \in Sizes(w) : s >= 0 /\ j.size > s
  BY DEF RefuseRead, Refused
<1>2. /\ j \in FileJobs /\ j.name \in Names /\ rest[w] = 0
      /\ JobOK(j) /\ GrowthOK("size", j, files) /\ j.replies = 0 /\ s \in Int
      /\ j.start # NoFile => s \in Nat /\ j.start <= s /\ s <= Len(files[j.name])
  BY <1>0, <1>1, SizeIsKnown DEF EMFILE
<1>3. Becomes(w, "idle", 0, k)
  BY <1>1, <1>2, OthersUnchanged DEF Becomes
<1>4. /\ k \in FileJobs
      /\ k.asked = j.asked /\ k.whole = j.whole /\ k.name = j.name /\ k.offset = j.offset
      /\ k.size = j.size /\ k.payload = j.payload /\ k.alive = j.alive
      /\ k.left = j.left /\ k.at = j.at /\ k.replies = 1 /\ k.start = j.start
  BY <1>2, AnsweredFields DEF EINVAL
<1>5. ~Inside(k)
  <2>1. SUFFICES ASSUME j.start # NoFile, j.offset + j.size <= j.start PROVE FALSE
    BY <1>4 DEF Inside, Within
  <2>2. j.offset \in Nat /\ j.size \in Nat /\ j.start \in Nat
    BY <1>2, <2>1, JobKinds
  <2> HIDE DEF j
  <2> QED
    BY <1>0, <1>2, <2>1, <2>2
<1> HIDE DEF k
<1>6. WorkerOK(w, "idle", k, 0, files)
  <2>1. "idle" \notin Working /\ Working = Working \cup {"stat", "size", "restat", "read"}
    BY DEF Working
  <2>2. PcOK("idle", k, 0) /\ RestOK(k, 0)
    BY <2>1 DEF PcOK, RestOK
  <2>3. JobOK(k) /\ GrowthOK("idle", k, files)
    BY <1>2, <1>4 DEF JobOK, GrowthOK
  <2>4. ReadOK("idle", k)
    BY <1>4, <1>5, <2>1 DEF ReadOK, ReadDone
  <2> QED
    BY <1>1, <1>4, <2>2, <2>3, <2>4 DEF WorkerOK
<1>7. StreamInv' /\ "idle" \in Places
  BY <1>1 DEF IInv, StreamInv, Places
<1> QED
  BY <1>1, <1>3, <1>4, <1>6, <1>7, OneMovesAlone

LEMMA StartReadStep ==
  ASSUME IInv, NEW w \in Workers, StartRead(w)
  PROVE  IInv'
<1> DEFINE j == job[w]
<1>1. /\ pc[w] = "size" /\ pc' = [pc EXCEPT ![w] = "restat"] /\ j.asked.op = "read"
      /\ UNCHANGED <<files, stream, open, calls, rest, job>>
  BY DEF StartRead, Go, conn
<1>2. /\ j \in FileJobs /\ rest[w] = 0
      /\ JobOK(j) /\ GrowthOK("size", j, files) /\ Fresh(j)
  BY <1>1, SizeIsKnown
<1>3. Becomes(w, "restat", 0, j)
  BY <1>1, <1>2, OthersUnchanged DEF Becomes
<1> HIDE DEF j
<1>4. WorkerOK(w, "restat", j, 0, files)
  <2>1. PcOK("restat", j, 0) /\ RestOK(j, 0)
    BY <1>1 DEF PcOK, RestOK
  <2>2. GrowthOK("restat", j, files)
    BY <1>2 DEF GrowthOK
  <2>3. ReadOK("restat", j)
    <3>1. j.offset \in Nat /\ j.size \in Nat /\ BufferSize \in Nat
      BY <1>2, JobKinds, BufferAssumption
    <3>2. Len(<<>>) = 0 /\ (1 - 1) * BufferSize = 0
      BY <3>1
    <3>3. InsideSoFar(j) /\ ReadSoFar(j)
      BY <1>2, <3>1, <3>2 DEF Fresh, InsideSoFar, ReadSoFar
    <3>4. InPlace(j.sent, j.offset)
      BY <1>2 DEF Fresh, InPlace
    <3> QED
      BY <3>3, <3>4 DEF ReadOK, Working
  <2> QED
    BY <1>1, <1>2, <2>1, <2>2, <2>3 DEF WorkerOK
<1>5. StreamInv' /\ "restat" \in Places
  BY <1>1 DEF IInv, StreamInv, Places, Working
<1> QED
  BY <1>1, <1>2, <1>3, <1>4, <1>5, OneMovesAlone

-----------------------------------------------------------------------------
(* The chunks of a read.                                                   *)

LEMMA ChunkFits ==
  ASSUME NEW j, j.left \in Nat
  PROVE  /\ Chunk(j) \in Nat /\ Chunk(j) <= j.left /\ Chunk(j) <= BufferSize
         /\ IsLast(j) => Chunk(j) = j.left
         /\ ~IsLast(j) => Chunk(j) = BufferSize /\ BufferSize < j.left
BY BufferAssumption DEF Chunk, Least, IsLast

(* The fields that read() changes, and those it does not. *)
ReadFields(j, r, k) ==
  LET failed == HasHeader(j) /\ Failed(j, r.result) # 0
      on     == ~IsLast(j) /\ r.result > 0
  IN /\ k.asked = j.asked /\ k.whole = j.whole /\ k.name = j.name /\ k.offset = j.offset
     /\ k.size = j.size /\ k.payload = j.payload /\ k.alive = j.alive /\ k.st = j.st
     /\ k.start = j.start
     /\ k.status = Failed(j, r.result)
     /\ k.left = LeftAfterRead(j, r.result)
     /\ k.at = IF on THEN j.at + BufferSize ELSE j.at
     /\ k.count = (j.count + 1) % CountMod
     /\ k.replies = IF HasHeader(j) THEN Least(2, j.replies + 1) ELSE Least(2, j.replies)
     /\ k.announced = IF HasHeader(j) /\ ~failed THEN j.size ELSE j.announced
     /\ k.sent = IF failed THEN j.sent ELSE j.sent \o r.data
     /\ k.garbled = (j.garbled \/ (~HasHeader(j) /\ r.result < 0))

LEMMA AfterReadFields ==
  ASSUME NEW j \in FileJobs, NEW r, r.result \in Int, r.data \in Seq(FileByte)
  PROVE  AfterRead(j, r) \in FileJobs /\ ReadFields(j, r, AfterRead(j, r))
<1> DEFINE k == AfterRead(j, r)
           header == HasHeader(j)
           status == Failed(j, r.result)
           left   == LeftAfterRead(j, r.result)
           at     == j.at + If(Moves(j, r.result), BufferSize)
           count  == (j.count + 1) % CountMod
           replies   == Least(2, j.replies + If(header, 1))
           announced == IF header /\ status = 0 THEN j.size ELSE j.announced
           sent      == IF header /\ status # 0 THEN j.sent ELSE j.sent \o r.data
           garbled   == j.garbled \/ (~header /\ r.result < 0)
<1>1. /\ j.left \in Nat /\ j.at \in Nat /\ j.count \in Nat /\ j.status \in Nat /\ j.size \in Nat
      /\ j.replies \in 0 .. 2 /\ j.announced \in Int /\ j.sent \in Seq(FileByte)
      /\ j.garbled \in BOOLEAN
  BY JobKinds
<1>2. status \in Nat /\ left \in Nat
  <2>1. status \in Nat
    BY <1>1 DEF Failed
  <2>2. left \in Nat
    BY <1>1, BufferAssumption DEF LeftAfterRead, IsLast, If
  <2> QED
    BY <2>1, <2>2
<1>3. at \in Nat /\ at = IF ~IsLast(j) /\ r.result > 0 THEN j.at + BufferSize ELSE j.at
  BY <1>1, BufferAssumption DEF If, Moves
<1>4. count \in 0 .. CountMod - 1
  BY <1>1, BoundsAssumption
<1>5. /\ replies \in 0 .. 2
      /\ replies = IF header THEN Least(2, j.replies + 1) ELSE Least(2, j.replies)
  BY <1>1 DEF If, Least
<1>6. announced \in Int /\ sent \in Seq(FileByte)
  BY <1>1
<1>7. garbled \in BOOLEAN
  BY <1>1, Zenon
<1>8. k = [j EXCEPT !.status = status, !.left = left, !.at = at, !.count = count,
                    !.replies = replies, !.announced = announced, !.sent = sent,
                    !.garbled = garbled]
  BY DEF AfterRead
<1> HIDE DEF k, header, status, left, at, count, replies, announced, sent, garbled
<1>9. k \in FileJobs
  BY <1>2, <1>3, <1>4, <1>5, <1>6, <1>7, <1>8, ZenonT(60) DEF FileJobs
<1>10. /\ k.asked = j.asked /\ k.whole = j.whole /\ k.name = j.name /\ k.offset = j.offset
       /\ k.size = j.size /\ k.payload = j.payload /\ k.alive = j.alive /\ k.st = j.st
       /\ k.start = j.start /\ k.status = status /\ k.left = left /\ k.at = at
       /\ k.count = count /\ k.replies = replies /\ k.announced = announced
       /\ k.sent = sent /\ k.garbled = garbled
  BY <1>8 DEF FileJobs
<1>11. ReadFields(j, r, k)
  <2>1. announced = IF header /\ ~(header /\ status # 0) THEN j.size ELSE j.announced
    BY DEF announced
  <2> QED
    BY <1>3, <1>5, <1>10, <2>1, Zenon DEF ReadFields, header, status, left, count, sent, garbled
<1> QED
  BY <1>9, <1>11 DEF k

(* A chunk that lies inside the file comes as a whole. *)
WholeChunk(j, r) ==
  /\ r.result = Chunk(j) /\ Len(r.data) = Chunk(j)
  /\ InPlace(r.data, j.at) /\ j.alive

LEMMA BytesFollow ==
  ASSUME NEW s \in Seq(FileByte), NEW t \in Seq(FileByte), NEW offset \in Nat, NEW at \in Nat,
         InPlace(s, offset), InPlace(t, at), Len(s) = at - offset
  PROVE  InPlace(s \o t, offset) /\ Len(s \o t) = Len(s) + Len(t)
<1>1. Len(s) \in Nat /\ Len(t) \in Nat /\ Len(s \o t) = Len(s) + Len(t)
  OBVIOUS
<1>2. ASSUME NEW i \in 1 .. Len(s \o t), (s \o t)[i] # Zero
      PROVE  (s \o t)[i][2] = offset + i
  <2>1. CASE i <= Len(s)
    <3>1. i \in DOMAIN s /\ (s \o t)[i] = s[i]
      BY <1>1, <2>1
    <3> QED
      BY <1>2, <3>1 DEF InPlace
  <2>2. CASE ~(i <= Len(s))
    <3>1. i - Len(s) \in DOMAIN t /\ (s \o t)[i] = t[i - Len(s)]
      BY <1>1, <2>2
    <3>2. t[i - Len(s)][2] = at + (i - Len(s))
      BY <1>2, <3>1 DEF InPlace
    <3>3. at + (i - Len(s)) = offset + i
      BY <1>1
    <3> QED
      BY <3>1, <3>2, <3>3
  <2> QED
    BY <2>1, <2>2
<1>3. DOMAIN (s \o t) = 1 .. Len(s \o t)
  OBVIOUS
<1> QED
  BY <1>1, <1>2, <1>3 DEF InPlace

(* Inside a file, the chunks that are read follow each other, and the      *)
(* counter does not come round before the last one.                        *)
LEMMA ReadInsideGoesOn ==
  ASSUME NEW j \in FileJobs, NEW k \in FileJobs, NEW r, r.result \in Int,
         r.data \in Seq(FileByte), ReadFields(j, r, k),
         JobOK(j), j.asked.op = "read", ReadSoFar(j), InsideSoFar(j),
         InPlace(j.sent, j.offset), WholeChunk(j, r)
  PROVE  /\ InPlace(k.sent, k.offset)
         /\ ~IsLast(j) => InsideSoFar(k) /\ k.left > 0
         /\ IsLast(j)  => /\ k.left = 0 /\ k.status = 0 /\ ~k.garbled /\ k.replies = 1
                          /\ k.size = k.announced /\ k.size = Len(k.sent)
<1>1. /\ j.offset \in Nat /\ j.size \in Nat /\ j.left \in Nat /\ j.at \in Nat
      /\ j.count \in Nat /\ j.replies \in Nat
      /\ j.sent \in Seq(FileByte) /\ j.size <= (CountMod - 1) * BufferSize
  BY JobKinds DEF JobOK
<1>2. /\ Chunk(j) \in Nat /\ Chunk(j) <= j.left
      /\ IsLast(j) => Chunk(j) = j.left
      /\ ~IsLast(j) => Chunk(j) = BufferSize /\ BufferSize < j.left
  BY <1>1, ChunkFits
<1>3. /\ j.at + j.left = j.offset + j.size /\ j.status = 0 /\ ~j.garbled
      /\ Len(j.sent) = j.at - j.offset
      /\ j.count > 0 /\ (j.count - 1) * BufferSize = j.at - j.offset
      /\ IF j.count = 1 THEN j.replies = 0 ELSE j.replies = 1 /\ j.announced = j.size
  BY DEF ReadSoFar, InsideSoFar
<1>at. j.at + j.left = j.offset + j.size
  BY <1>3
<1>4. r.result = Chunk(j) /\ Len(r.data) = Chunk(j) /\ InPlace(r.data, j.at)
  BY DEF WholeChunk
<1>5. Failed(j, r.result) = 0
  BY <1>2, <1>3, <1>4 DEF Failed
<1>6. k.status = 0 /\ k.sent = j.sent \o r.data /\ k.offset = j.offset /\ k.size = j.size
  BY <1>5 DEF ReadFields
<1>7. ~k.garbled
  <2>1. ~(r.result < 0)
    BY <1>2, <1>4
  <2> QED
    BY <1>3, <2>1, Zenon DEF ReadFields
<1>8. k.replies = 1 /\ k.announced = j.size
  BY <1>3, <1>5 DEF ReadFields, HasHeader, Least
<1>9. InPlace(k.sent, k.offset) /\ Len(k.sent) = (j.at - j.offset) + Chunk(j)
  BY <1>1, <1>3, <1>4, <1>6, BytesFollow
<1>10. ASSUME IsLast(j) PROVE k.left = 0 /\ k.size = Len(k.sent)
  <2>1. k.left = 0
    BY <1>10 DEF ReadFields, LeftAfterRead
  <2>2. Chunk(j) = j.left
    BY <1>2, <1>10
  <2>3. (j.at - j.offset) + j.left = j.size
    BY <1>1, <1>at, SMTT(30)
  <2>4. Len(k.sent) = (j.at - j.offset) + j.left
    BY <1>9, <2>2
  <2> QED
    BY <1>6, <2>1, <2>3, <2>4
<1>11. ASSUME ~IsLast(j) PROVE InsideSoFar(k) /\ k.left > 0
  <2>1. r.result > 0 /\ Chunk(j) = BufferSize /\ BufferSize < j.left /\ BufferSize \in Nat
    BY <1>2, <1>4, <1>11, BufferAssumption
  <2>2. k.left = j.left - BufferSize /\ k.at = j.at + BufferSize
    BY <1>5, <1>11, <2>1 DEF ReadFields, LeftAfterRead, If
  <2>3. k.left > 0
    BY <1>1, <2>1, <2>2
  <2>4. k.count = j.count + 1
    <3>1. j.count + 1 < CountMod
      <4> DEFINE a == j.count - 1
                 b == CountMod - 1
      <4>1. a \in Nat /\ b \in Nat /\ a * BufferSize + BufferSize < b * BufferSize
        <5>1. a \in Nat /\ b \in Nat
          BY <1>1, <1>3, BoundsAssumption
        <5>2. a * BufferSize \in Nat /\ b * BufferSize \in Nat
          BY <2>1, <5>1
        <5>3. a * BufferSize + BufferSize < j.size
          <6>1. a * BufferSize = j.at - j.offset
            BY <1>3
          <6> HIDE DEF a
          <6> QED
            BY <1>1, <1>at, <2>1, <6>1
        <5> HIDE DEF a, b
        <5> QED
          BY <1>1, <2>1, <5>1, <5>2, <5>3 DEF b
      <4> HIDE DEF a, b
      <4>2. (a + 1) * BufferSize = a * BufferSize + BufferSize
        BY <2>1, <4>1
      <4>3. ~(b <= a + 1)
        <5>1. \A x, y \in Nat : x <= y => x * BufferSize <= y * BufferSize
          BY BufferAssumption
        <5>2. a + 1 \in Nat /\ (a + 1) * BufferSize \in Int /\ b * BufferSize \in Int
          BY <2>1, <4>1
        <5> QED
          BY <4>1, <4>2, <5>1, <5>2
      <4> QED
        BY <1>1, <4>1, <4>3, BoundsAssumption DEF a, b
    <3>2. (j.count + 1) % CountMod = j.count + 1
      <4>1. \A x, m \in Nat : x < m => x % m = x
        OBVIOUS
      <4> QED
        BY <1>1, <3>1, <4>1, BoundsAssumption
    <3> QED
      BY <3>2 DEF ReadFields
  <2>5. (k.count - 1) * BufferSize = k.at - k.offset
    <3>1. (j.count - 1) * BufferSize + BufferSize = j.count * BufferSize
      BY <1>1, <2>1
    <3>2. k.count - 1 = j.count
      BY <1>1, <2>4
    <3>3. (j.count - 1) * BufferSize \in Int /\ j.count * BufferSize \in Int
      BY <1>1, <2>1
    <3>4. j.count * BufferSize = (j.at + BufferSize) - j.offset
      <4> DEFINE x == (j.count - 1) * BufferSize
                 y == j.count * BufferSize
      <4>1. x = j.at - j.offset
        BY <1>3
      <4>2. x + BufferSize = y
        BY <3>1
      <4> HIDE DEF x, y
      <4> QED
        BY <1>1, <2>1, <4>1, <4>2 DEF y
    <3> QED
      BY <1>6, <2>2, <3>2, <3>4
  <2>6. k.count > 0 /\ k.count # 1
    BY <1>1, <1>3, <2>4
  <2>7. Len(k.sent) = k.at - k.offset
    BY <1>1, <1>6, <1>9, <2>1, <2>2
  <2> QED
    BY <1>6, <1>7, <1>8, <2>3, <2>5, <2>6, <2>7 DEF InsideSoFar
<1> QED
  BY <1>6, <1>7, <1>8, <1>9, <1>10, <1>11

(* The other reads only have to end with an answer. *)
LEMMA ReadGoesOn ==
  ASSUME NEW j \in FileJobs, NEW k \in FileJobs, NEW r, r.result \in Int,
         r.data \in Seq(FileByte), ReadFields(j, r, k),
         JobOK(j), j.asked.op = "read", ReadSoFar(j),
         Inside(j) => InPlace(j.sent, j.offset),
         Within(j) /\ r.result # -EMFILE => WholeChunk(j, r)
  PROVE  /\ JobOK(k)
         /\ ReadOK(IF k.left > 0 /\ j.alive THEN "restat" ELSE "idle", k)
<1>1. /\ j.offset \in Nat /\ j.size \in Nat /\ j.left \in Nat /\ j.at \in Nat
      /\ j.left <= j.size /\ j.at <= j.offset + j.size
      /\ j.at + j.left = j.offset + j.size
  BY JobKinds DEF JobOK, ReadSoFar
<1>2. /\ k.asked = j.asked /\ k.whole = j.whole /\ k.name = j.name /\ k.offset = j.offset
      /\ k.size = j.size /\ k.payload = j.payload /\ k.alive = j.alive /\ k.start = j.start
  BY DEF ReadFields
<1>3. Inside(k) => Inside(j) /\ WholeChunk(j, r)
  <2>1. SUFFICES ASSUME Inside(k) PROVE Inside(j) /\ WholeChunk(j, r)
    OBVIOUS
  <2>2. Within(j) /\ k.status = Failed(j, r.result) /\ k.status # EMFILE
    BY <1>2, <2>1 DEF Inside, Within, ReadFields
  <2>3. r.result # -EMFILE
    BY <2>2 DEF Failed, EMFILE
  <2>4. WholeChunk(j, r)
    BY <2>2, <2>3
  <2>5. k.status = j.status
    BY <1>1, <2>2, <2>4, ChunkFits DEF WholeChunk, Failed
  <2> QED
    BY <2>2, <2>4, <2>5 DEF Inside
<1>4. \/ k.left = 0 /\ k.at <= j.offset + j.size
      \/ k.left <= j.left /\ k.at + k.left = j.offset + j.size /\ ~IsLast(j)
  <2>1. /\ k.left = LeftAfterRead(j, r.result)
        /\ k.at = IF ~IsLast(j) /\ r.result > 0 THEN j.at + BufferSize ELSE j.at
    BY DEF ReadFields
  <2>2. IsLast(j) <=> j.left <= BufferSize
    BY DEF IsLast
  <2>3. k.left = 0 \/ (~IsLast(j) /\ k.left = IF r.result > 0 THEN j.left - BufferSize ELSE j.left)
    BY <1>1, <2>1 DEF LeftAfterRead, If
  <2> QED
    BY <1>1, <2>1, <2>2, <2>3, BufferAssumption
<1>5. k.left \in Nat /\ k.at \in Nat
  BY JobKinds
<1>6. JobOK(k)
  <2>1. k.left <= k.size /\ k.at <= k.offset + k.size
    BY <1>1, <1>2, <1>4, <1>5
  <2> QED
    BY <1>2, <2>1 DEF JobOK
<1>7. Inside(j) => InsideSoFar(j)
  BY DEF ReadSoFar
<1>8. Inside(k) => /\ InPlace(k.sent, k.offset)
                   /\ ~IsLast(j) => InsideSoFar(k) /\ k.left > 0
                   /\ IsLast(j)  => /\ k.left = 0 /\ k.status = 0 /\ ~k.garbled /\ k.replies = 1
                                    /\ k.size = k.announced /\ k.size = Len(k.sent)
  BY <1>3, <1>7, ReadInsideGoesOn
<1>9. j.size <= BufferSize => /\ k.left = 0 /\ k.replies = 1
  <2>1. SUFFICES ASSUME j.size <= BufferSize PROVE k.left = 0 /\ k.replies = 1
    OBVIOUS
  <2>2. IsLast(j)
    BY <1>1, <2>1, BufferAssumption DEF IsLast
  <2>3. j.replies = 0 /\ HasHeader(j)
    BY <2>1 DEF ReadSoFar, HasHeader
  <2>4. Least(2, 0 + 1) = 1
    BY DEF Least
  <2> QED
    BY <2>2, <2>3, <2>4 DEF ReadFields, LeftAfterRead
<1>10. CASE k.left > 0 /\ j.alive
  <2>1. ~(k.left = 0)
    BY <1>10
  <2>2. ReadSoFar(k)
    BY <1>2, <1>4, <1>8, <1>9, <2>1 DEF ReadSoFar
  <2>3. ReadOK("restat", k)
    BY <1>8, <2>2 DEF ReadOK, Working
  <2> QED
    BY <1>6, <1>10, <2>3
<1>11. CASE ~(k.left > 0 /\ j.alive)
  <2>1. Inside(k) => IsLast(j)
    BY <1>3, <1>8, <1>11 DEF WholeChunk
  <2>2. ReadDone(k)
    BY <1>2, <1>8, <1>9, <2>1 DEF ReadDone
  <2>3. ReadOK("idle", k)
    BY <1>8, <2>2 DEF ReadOK
  <2> QED
    BY <1>6, <1>11, <2>3
<1> QED
  BY <1>10, <1>11

LEMMA ReadChunkStep ==
  ASSUME IInv, NEW w \in Workers, ReadChunk(w)
  PROVE  IInv'
<1> DEFINE j == job[w]
           c == files[j.name]
<1>0. PICK r \in read(c, j.st, j.at, Chunk(j), OpensFail) :
        job' = [job EXCEPT ![w] = AfterRead(j, r)]
  BY DEF ReadChunk
<1> DEFINE k == AfterRead(j, r)
           p == IF k.left > 0 /\ j.alive THEN "restat" ELSE "idle"
<1>1. /\ pc[w] = "read" /\ job' = [job EXCEPT ![w] = k]
      /\ pc' = [pc EXCEPT ![w] = IF job'[w].left > 0 /\ job[w].alive THEN "restat" ELSE "idle"]
      /\ UNCHANGED <<files, stream, open, calls, rest>>
  BY <1>0 DEF ReadChunk, conn
<1>2. /\ WorkerOK(w, "read", j, rest[w], files) /\ j \in FileJobs \cup OtherJobs
      /\ files \in Contents
  BY <1>1, WhatIsKnown
<1>3. rest[w] = 0 /\ j.asked.op = "read" /\ ReadOK("read", j)
  BY <1>2 DEF WorkerOK, PcOK, Working
<1>4. j \in FileJobs /\ j.name \in Names /\ JobOK(j) /\ GrowthOK("read", j, files)
  BY <1>2, <1>3, JobKinds DEF FileOps, WorkerOK
<1>5. ReadSoFar(j) /\ (Inside(j) => InPlace(j.sent, j.offset))
  BY <1>3 DEF ReadOK
<1>6. Becomes(w, p, 0, k)
  <2>1. job'[w] = k
    BY <1>1 DEF IInv, TypesInv
  <2>2. pc' = [pc EXCEPT ![w] = p]
    BY <1>1, <2>1
  <2> QED
    BY <1>1, <1>3, <2>2, OthersUnchanged DEF Becomes
<1>7. /\ j.st \in Int /\ j.at \in Nat /\ j.left \in Nat /\ j.offset \in Nat /\ j.size \in Nat
      /\ Chunk(j) \in Nat /\ Chunk(j) <= j.left
  BY <1>4, JobKinds, ChunkFits
<1>8. GetsBytes(c, j.st, j.at, Chunk(j), r)
  <2>1. IsFile(c) \/ c = NoFile
    BY <1>2, <1>4 DEF Contents, IsFile
  <2> QED
    BY <1>0, <1>7, <2>1, ReadBytes
<1>9. ASSUME Within(j), r.result # -EMFILE PROVE WholeChunk(j, r)
  <2>1. /\ c # NoFile /\ j.start <= j.st /\ j.st <= Len(c) /\ j.start \in Nat
        /\ j.offset + j.size <= j.start /\ Len(c) \in Nat
    BY <1>2, <1>4, <1>9, JobKinds, FileLengths DEF Within, GrowthOK
  <2>2. j.at + j.left = j.offset + j.size
    BY <1>5 DEF ReadSoFar
  <2>3. j.st # -1 /\ j.at <= j.st /\ j.at + Chunk(j) <= Len(c)
    <3> HIDE DEF j, c
    <3> QED
      BY <1>7, <2>1, <2>2, SMTT(30)
  <2>4. /\ r.result = Chunk(j) /\ Len(r.data) = Chunk(j) /\ r.data \in Seq(FileByte)
        /\ \A i \in 1 .. Chunk(j) : r.data[i] = c[j.at + i]
    BY <1>8, <1>9, <2>1, <2>3 DEF GetsBytes
  <2>5. InPlace(r.data, j.at)
    <3>1. InPlace(c, 0) /\ DOMAIN c = 1 .. Len(c)
      <4>1. InPlace(c, 0)
        BY <1>4, <2>1 DEF IInv, FilesInv
      <4>2. c \in Seq(FileByte)
        BY <1>2, <1>4, <2>1, FileLengths DEF IsFile
      <4> QED
        BY <4>1, <4>2
    <3>2. DOMAIN r.data = 1 .. Chunk(j)
      BY <2>4
    <3> HIDE DEF c, j
    <3>3. ASSUME NEW i \in 1 .. Chunk(j), r.data[i] # Zero PROVE r.data[i][2] = j.at + i
      <4>1. j.at + i \in 1 .. Len(c) /\ 0 + (j.at + i) = j.at + i
        BY <1>7, <2>1, <2>3, SMTT(30)
      <4>2. r.data[i] = c[j.at + i]
        BY <2>4
      <4>3. c[j.at + i][2] = 0 + (j.at + i)
        BY <3>1, <3>3, <4>1, <4>2 DEF InPlace
      <4> QED
        BY <4>1, <4>2, <4>3
    <3> QED
      BY <3>2, <3>3 DEF InPlace
  <2>6. j.alive
    <3>1. j.whole
      BY <1>9 DEF Within
    <3>2. j.name # <<>>
      BY <2>1 DEF IInv, FilesInv
    <3> QED
      BY <1>4, <3>1, <3>2 DEF JobOK
  <2> QED
    BY <2>4, <2>5, <2>6 DEF WholeChunk
<1>10. r.result \in Int /\ r.data \in Seq(FileByte)
  BY <1>8 DEF GetsBytes
<1>11. k \in FileJobs /\ ReadFields(j, r, k)
  BY <1>4, <1>10, AfterReadFields
<1> HIDE DEF k, j
<1>12. JobOK(k) /\ ReadOK(p, k)
  BY <1>3, <1>4, <1>5, <1>9, <1>10, <1>11, ReadGoesOn
<1>13. k.asked = j.asked /\ k.name = j.name /\ k.start = j.start
  BY <1>11 DEF ReadFields
<1>14. p \in {"restat", "idle"}
  OBVIOUS
<1> HIDE DEF p
<1>15. WorkerOK(w, p, k, 0, files)
  <2>1. PcOK(p, k, 0) /\ RestOK(k, 0)
    BY <1>3, <1>13, <1>14 DEF PcOK, RestOK
  <2>2. GrowthOK(p, k, files)
    BY <1>4, <1>13, <1>14 DEF GrowthOK
  <2> QED
    BY <1>3, <1>12, <1>13, <2>1, <2>2 DEF WorkerOK
<1>16. StreamInv' /\ p \in Places
  BY <1>1, <1>14 DEF IInv, StreamInv, Places, Working
<1> QED
  BY <1>1, <1>6, <1>11, <1>15, <1>16, OneMovesAlone

-----------------------------------------------------------------------------
(* The chunks of a write.                                                  *)

LEMMA PayloadBytes ==
  ASSUME NEW w \in Workers, NEW j, j.offset \in Nat, j.taken \in Nat, NEW n \in Nat
  PROVE  /\ Payload(w, j, n) \in [1 .. n -> FileByte]
         /\ \A i \in 1 .. n : Payload(w, j, n)[i] # Zero =>
              Payload(w, j, n)[i][2] = j.offset + j.taken + i
<1>1. \A i \in 1 .. n : /\ Byte(w, j.offset + j.taken + i) \in FileByte
                        /\ Byte(w, j.offset + j.taken + i)[2] = j.offset + j.taken + i
  <2>1. SUFFICES ASSUME NEW i \in 1 .. n
                 PROVE  /\ Byte(w, j.offset + j.taken + i) \in FileByte
                        /\ Byte(w, j.offset + j.taken + i)[2] = j.offset + j.taken + i
    OBVIOUS
  <2>2. j.offset + j.taken + i \in Nat \ {0}
    OBVIOUS
  <2> QED
    BY <2>2 DEF Byte, FileByte
<1>2. Zero \in FileByte
  BY DEF FileByte
<1> QED
  BY <1>1, <1>2 DEF Payload

(* The files after a write: no byte is moved, none is lost, and only those *)
(* behind at are new.                                                      *)
OnlyNewBytes(f, g, name, at, data, n) ==
  /\ Grows(f, g)
  /\ f[name] = NoFile => g[name] = NoFile
  /\ \A m \in Names : m # name => g[m] = f[m]
  /\ f[name] # NoFile =>
       \A i \in DOMAIN f[name] : g[name][i] # f[name][i] => at < i /\ i <= at + n
  /\ InPlace(f[name], 0) /\ InPlace(data, at) => (g[name] # NoFile => InPlace(g[name], 0))

LEMMA FilesWritten ==
  ASSUME NEW f \in Contents, NEW name \in Names, NEW at \in Nat, NEW n \in Nat,
         NEW data \in [1 .. n -> FileByte], NEW out, Outcome(f[name], at, data, n, out)
  PROVE  /\ out.result \in Int
         /\ OnlyNewBytes(f, [f EXCEPT ![name] = out.file], name, at, data, n)
<1> DEFINE c == f[name]
           g == [f EXCEPT ![name] = out.file]
<1>1. \A m \in Names : m # name => g[m] = f[m]
  BY DEF Contents
<1>2. g[name] = out.file
  BY DEF Contents
<1>3. CASE c = NoFile
  <2>1. out.file = NoFile /\ out.result \in {-2, -24}
    BY <1>3 DEF Outcome, ENOENT, EMFILE
  <2>2. g = f
    BY <1>3, <2>1 DEF Contents
  <2>3. Grows(f, g)
    BY <2>2, FileLengths DEF Grows
  <2> QED
    BY <1>1, <1>2, <1>3, <2>1, <2>3 DEF OnlyNewBytes
<1>4. CASE c # NoFile
  <2>1. IsFile(c) /\ Len(c) \in Nat /\ c \in Seq(FileByte)
    BY <1>4, FileLengths DEF IsFile
  <2>2. PICK k \in 0 .. n : /\ out.file = c \/ out.file = Overwritten(c, at, data, k)
                            /\ out.result \in Int /\ out.result <= n
    <3>1. CASE out.result \in {-ENOSPC, -EMFILE} /\ out.file = c
      BY <3>1 DEF ENOSPC, EMFILE
    <3>2. CASE out.result \in 0 .. n /\ out.file = Overwritten(c, at, data, out.result)
      BY <3>2
    <3> QED
      BY <1>4, <3>1, <3>2 DEF Outcome
  <2> DEFINE o == out.file
  <2>3. /\ IsFile(o) /\ Len(c) <= Len(o)
        /\ \A i \in 1 .. Len(c) : ~(at < i /\ i <= at + k) => o[i] = c[i]
        /\ \A i \in 1 .. Len(o) : \/ at < i /\ i <= at + k /\ o[i] = data[i - at]
                                  \/ i <= Len(c) /\ o[i] = c[i]
                                  \/ o[i] = Zero
    <3>1. CASE out.file = c
      BY <2>1, <3>1
    <3>2. CASE out.file = Overwritten(c, at, data, k)
      <4>1. WritesInside(c, at, data, k, o)
        BY <2>1, <3>2, OverwrittenBytes
      <4> QED
        BY <4>1 DEF WritesInside
    <3> QED
      BY <2>2, <3>1, <3>2
  <2>4. o \in Seq(FileByte) /\ Len(o) \in Nat /\ o # NoFile /\ DOMAIN o = 1 .. Len(o)
    BY <2>3, FileIsNotNoFile DEF IsFile
  <2> HIDE DEF o, c
  <2>5. Grows(f, g)
    <3>1. g \in Contents
      BY <2>4 DEF Contents, o
    <3>2. \A m \in Names : f[m] # NoFile => g[m] # NoFile /\ Len(f[m]) <= Len(g[m])
      <4>1. SUFFICES ASSUME NEW m \in Names, f[m] # NoFile
                     PROVE  g[m] # NoFile /\ Len(f[m]) <= Len(g[m])
        OBVIOUS
      <4>2. CASE m = name
        BY <1>2, <2>3, <2>4, <4>2 DEF c, o
      <4>3. CASE m # name
        BY <1>1, <4>1, <4>3, FileLengths
      <4> QED
        BY <4>2, <4>3
    <3> QED
      BY <3>1, <3>2 DEF Grows
  <2>6. ASSUME NEW i \in DOMAIN c, o[i] # c[i] PROVE at < i /\ i <= at + n
    <3>1. i \in 1 .. Len(c)
      BY <2>1
    <3>2. at < i /\ i <= at + k
      BY <2>3, <2>6, <3>1
    <3> QED
      BY <3>1, <3>2
  <2>7. ASSUME InPlace(c, 0), InPlace(data, at) PROVE InPlace(o, 0)
    <3>1. SUFFICES ASSUME NEW i \in 1 .. Len(o), o[i] # Zero PROVE o[i][2] = 0 + i
      BY <2>4 DEF InPlace
    <3>2. CASE at < i /\ i <= at + k /\ o[i] = data[i - at]
      <4>1. i - at \in DOMAIN data /\ at + (i - at) = 0 + i
        BY <3>2
      <4>2. data[i - at][2] = at + (i - at)
        BY <2>7, <3>1, <3>2, <4>1 DEF InPlace
      <4> QED
        BY <3>2, <4>1, <4>2
    <3>3. CASE i <= Len(c) /\ o[i] = c[i]
      <4>1. i \in DOMAIN c
        BY <2>1, <3>3
      <4> QED
        BY <2>7, <3>1, <3>3, <4>1 DEF InPlace
    <3> QED
      BY <2>3, <3>1, <3>2, <3>3
  <2> QED
    BY <1>1, <1>2, <1>4, <2>2, <2>4, <2>5, <2>6, <2>7 DEF OnlyNewBytes, c, o
<1> QED
  BY <1>3, <1>4

WriteFields(j, result, k) ==
  LET on == ~IsLast(j) /\ result > 0 IN
  /\ k.asked = j.asked /\ k.whole = j.whole /\ k.name = j.name /\ k.offset = j.offset
  /\ k.size = j.size /\ k.payload = j.payload /\ k.alive = j.alive /\ k.st = j.st
  /\ k.start = j.start /\ k.replies = j.replies /\ k.alone = j.alone
  /\ k.taken = j.taken + Chunk(j)
  /\ k.status = Failed(j, result)
  /\ k.left = IF IsLast(j) THEN 0 ELSE IF on THEN j.left - BufferSize ELSE j.left
  /\ k.at = IF on THEN j.at + BufferSize ELSE j.at
  /\ k.short = (j.short \/ result \in 0 .. Chunk(j) - 1)

LEMMA AfterWriteFields ==
  ASSUME NEW j \in FileJobs, NEW result \in Int
  PROVE  AfterWrite(j, result) \in FileJobs /\ WriteFields(j, result, AfterWrite(j, result))
<1> DEFINE k == AfterWrite(j, result)
           step   == If(Moves(j, result), BufferSize)
           taken  == j.taken + Chunk(j)
           status == Failed(j, result)
           left   == IF IsLast(j) THEN 0 ELSE j.left - step
           at     == j.at + step
           short  == j.short \/ result \in 0 .. Chunk(j) - 1
<1>1. /\ j.left \in Nat /\ j.at \in Nat /\ j.status \in Nat /\ j.taken \in Nat
      /\ j.short \in BOOLEAN
  BY JobKinds DEF FileJobs
<1>2. taken \in Nat /\ status \in Nat
  BY <1>1, ChunkFits DEF Failed
<1>3. /\ at \in Nat /\ at = IF ~IsLast(j) /\ result > 0 THEN j.at + BufferSize ELSE j.at
      /\ left \in Nat
      /\ left = IF IsLast(j) THEN 0
                ELSE IF ~IsLast(j) /\ result > 0 THEN j.left - BufferSize ELSE j.left
  BY <1>1, BufferAssumption DEF If, Moves, IsLast
<1>4. short \in BOOLEAN
  BY <1>1, Zenon
<1>5. k = [j EXCEPT !.taken = taken, !.status = status, !.left = left, !.at = at,
                    !.short = short]
  BY DEF AfterWrite
<1> HIDE DEF k, taken, status, left, at, short
<1>6. k \in FileJobs
  BY <1>2, <1>3, <1>4, <1>5, ZenonT(60) DEF FileJobs
<1>7. /\ k.asked = j.asked /\ k.whole = j.whole /\ k.name = j.name /\ k.offset = j.offset
      /\ k.size = j.size /\ k.payload = j.payload /\ k.alive = j.alive /\ k.st = j.st
      /\ k.start = j.start /\ k.replies = j.replies /\ k.alone = j.alone
      /\ k.taken = taken /\ k.status = status /\ k.left = left /\ k.at = at /\ k.short = short
  BY <1>5 DEF FileJobs
<1>8. WriteFields(j, result, k)
  BY <1>3, <1>7, Zenon DEF WriteFields, taken, status, short
<1> QED
  BY <1>6, <1>8 DEF k

(* A write goes on until all its bytes were taken from the connection, or   *)
(* it failed.                                                              *)
LEMMA WriteGoesOn ==
  ASSUME NEW j \in FileJobs, NEW k \in FileJobs, NEW result \in Int, WriteFields(j, result, k),
         j.asked.op = "write", JobOK(j), WriteSoFar(j),
         Chunk(j) > 0 => result # 0
  PROVE  /\ JobOK(k) /\ k.replies = 0
         /\ MoreToWrite(k) => WriteSoFar(k)
         /\ ~MoreToWrite(k) /\ k.whole =>
              \/ k.taken = k.size
              \/ k.status # 0 /\ k.size > BufferSize
<1>1. /\ j.offset \in Nat /\ j.size \in Nat /\ j.left \in Nat /\ j.at \in Nat /\ j.taken \in Nat
      /\ j.payload \in Nat
  BY JobKinds
<1>2. /\ j.status = 0 /\ j.replies = 0 /\ j.taken + j.left = j.size
      /\ j.at = j.offset + j.taken
  BY DEF WriteSoFar
<1>3. /\ k.asked = j.asked /\ k.whole = j.whole /\ k.name = j.name /\ k.offset = j.offset
      /\ k.size = j.size /\ k.payload = j.payload /\ k.alive = j.alive /\ k.replies = 0
      /\ k.taken = j.taken + Chunk(j) /\ k.status = Failed(j, result)
  BY <1>2 DEF WriteFields
<1>4. CASE IsLast(j)
  <2>1. k.left = 0 /\ k.at = j.at /\ Chunk(j) = j.left
    BY <1>1, <1>4, ChunkFits DEF WriteFields
  <2>2. k.taken = k.size
    BY <1>2, <1>3, <2>1
  <2>3. k.at <= k.offset + k.size
    BY <1>1, <1>2, <1>3, <2>1
  <2>4. JobOK(k)
    BY <1>1, <1>3, <2>1, <2>3 DEF JobOK
  <2>5. ~MoreToWrite(k)
    BY <2>1 DEF MoreToWrite
  <2> QED
    BY <1>3, <2>2, <2>4, <2>5
<1>5. CASE ~IsLast(j)
  <2>1. Chunk(j) = BufferSize /\ BufferSize < j.left /\ BufferSize \in Nat /\ BufferSize > 0
    BY <1>1, <1>5, ChunkFits, BufferAssumption
  <2>2. k.size > BufferSize /\ k.taken = j.taken + BufferSize
    BY <1>1, <1>2, <1>3, <2>1
  <2>3. CASE result > 0
    <3>1. /\ k.left = j.left - BufferSize /\ k.at = j.at + BufferSize /\ k.status = 0
      BY <1>2, <1>3, <1>5, <2>3 DEF WriteFields, Failed
    <3>2. /\ k.left > 0 /\ k.taken + k.left = k.size /\ k.at = k.offset + k.taken
          /\ k.left <= k.size /\ k.at <= k.offset + k.size /\ k.taken < k.size
      BY <1>1, <1>2, <1>3, <2>1, <2>2, <3>1
    <3>3. JobOK(k)
      BY <1>3, <3>2 DEF JobOK
    <3>4. MoreToWrite(k) => WriteSoFar(k)
      BY <1>3, <3>1, <3>2 DEF MoreToWrite, WriteSoFar
    <3>5. ASSUME k.whole PROVE MoreToWrite(k)
      <4>1. k.size <= k.payload /\ k.size \in Nat /\ k.payload \in Nat /\ k.taken \in Nat
        BY <1>1, <1>3, <2>1, <2>2, <3>5 DEF JobOK
      <4> QED
        BY <3>1, <3>2, <4>1 DEF MoreToWrite
    <3> QED
      BY <1>3, <3>3, <3>4, <3>5
  <2>4. CASE ~(result > 0)
    <3>1. k.left = j.left /\ k.at = j.at /\ k.status # 0
      <4>1. result < 0
        BY <2>1, <2>4
      <4> QED
        BY <1>3, <1>5, <2>4, <4>1 DEF WriteFields, Failed
    <3>2. JobOK(k)
      BY <1>3, <3>1 DEF JobOK
    <3>3. ~MoreToWrite(k)
      BY <3>1 DEF MoreToWrite
    <3> QED
      BY <1>3, <2>2, <3>1, <3>2, <3>3
  <2> QED
    BY <2>3, <2>4
<1> QED
  BY <1>4, <1>5

(* What was in the file before a chunk is there after it, and its own bytes *)
(* are where they belong, unless it failed or the device took less.        *)
LEMMA ChunkLands ==
  ASSUME NEW w \in Workers, NEW j \in FileJobs, NEW k \in FileJobs, NEW f \in Contents, NEW out,
         j.asked.op = "write", JobOK(j), WriteSoFar(j), Landed(w, j, f),
         Outcome(f[j.name], j.at, Payload(w, j, Chunk(j)), Chunk(j), out), out.result \in Int,
         WriteFields(j, out.result, k)
  PROVE  Landed(w, k, [f EXCEPT ![j.name] = out.file])
<1> DEFINE g == [f EXCEPT ![j.name] = out.file]
           n == Chunk(j)
           c == f[j.name]
           data == Payload(w, j, n)
           o == Overwritten(c, j.at, data, n)
<1>1. SUFFICES ASSUME k.whole, k.alone, ~k.short, k.status = 0
               PROVE  \A i \in 1 .. k.taken :
                        /\ g[k.name] # NoFile
                        /\ k.offset + i <= Len(g[k.name])
                        /\ g[k.name][k.offset + i] = Byte(w, k.offset + i)
  BY DEF Landed
<1>2. /\ j.offset \in Nat /\ j.size \in Nat /\ j.left \in Nat /\ j.at \in Nat /\ j.taken \in Nat
      /\ j.payload \in Nat /\ j.name \in Names /\ n \in Nat /\ n <= j.left
  BY JobKinds, ChunkFits
<1>3. /\ k.whole = j.whole /\ k.name = j.name /\ k.offset = j.offset /\ k.alone = j.alone
      /\ k.taken = j.taken + n /\ k.status = Failed(j, out.result)
      /\ k.short = (j.short \/ out.result \in 0 .. n - 1)
  BY DEF WriteFields
<1>4. /\ j.status = 0 /\ j.taken + j.left = j.size /\ j.at = j.offset + j.taken
      /\ j.size <= j.payload
  BY <1>1, <1>3 DEF WriteSoFar, JobOK
<1>5. c # NoFile /\ out.result = n /\ out.file = o
  <2>1. ~(out.result < 0)
    <3>1. SUFFICES ASSUME out.result < 0 PROVE FALSE
      OBVIOUS
    <3>2. k.status = -out.result
      BY <1>3, <3>1 DEF Failed
    <3> QED
      BY <1>1, <3>1, <3>2
  <2>2. out.result \notin 0 .. n - 1
    BY <1>1, <1>3, Zenon
  <2>3. c # NoFile /\ out.result \in 0 .. n /\ out.file = Overwritten(c, j.at, data, out.result)
    BY <2>1 DEF Outcome, ENOENT, ENOSPC, EMFILE
  <2>4. out.result = n
    BY <1>2, <2>2, <2>3
  <2> QED
    BY <2>3, <2>4
<1>6. /\ IsFile(c) /\ Len(c) \in Nat
  BY <1>2, <1>5, FileLengths
<1>7. data \in [1 .. n -> FileByte]
  BY <1>2, PayloadBytes
<1>8. /\ IsFile(o) /\ Len(c) <= Len(o) /\ (n > 0 => j.at + n <= Len(o))
      /\ \A i \in 1 .. n : o[j.at + i] = data[i]
      /\ \A i \in 1 .. Len(c) : ~(j.at < i /\ i <= j.at + n) => o[i] = c[i]
  <2>1. n \in 0 .. n
    BY <1>2
  <2>2. WritesInside(c, j.at, data, n, o)
    <3> HIDE DEF n, c, data
    <3> QED
      BY <1>2, <1>6, <1>7, <2>1, OverwrittenBytes
  <2> QED
    BY <2>2 DEF WritesInside
<1>9. o # NoFile /\ Len(o) \in Nat
  BY <1>8, FileIsNotNoFile
<1>10. g[j.name] = o
  BY <1>2, <1>5 DEF Contents
<1>11. ASSUME NEW i \in 1 .. j.taken + n
       PROVE  j.offset + i <= Len(o) /\ o[j.offset + i] = Byte(w, j.offset + i)
  <2>1. CASE i <= j.taken
    <3>0. i \in 1 .. j.taken
      <4> HIDE DEF n
      <4> QED
        BY <1>2, <2>1
    <3>1. /\ j.offset + i <= Len(c) /\ c[j.offset + i] = Byte(w, j.offset + i)
      <4>1. j.whole /\ j.alone /\ ~j.short /\ j.status = 0
        BY <1>1, <1>3, <1>4, Zenon
      <4> QED
        BY <3>0, <4>1, Zenon DEF Landed
    <3> HIDE DEF o, c, n
    <3>2. j.offset + i \in 1 .. Len(c) /\ ~(j.at < j.offset + i)
      BY <1>2, <1>4, <1>6, <2>1, <3>1, SMTT(30)
    <3> QED
      BY <1>6, <1>8, <1>9, <3>1, <3>2
  <2>2. CASE ~(i <= j.taken)
    <3>1. /\ i - j.taken \in 1 .. n /\ j.at + (i - j.taken) = j.offset + i
          /\ j.taken + (i - j.taken) <= j.payload /\ n > 0 /\ j.offset + i <= j.at + n
          /\ j.offset + j.taken + (i - j.taken) = j.offset + i
      <4> HIDE DEF n
      <4> QED
        BY <1>2, <1>4, <2>2
    <3>2. data[i - j.taken] = Byte(w, j.offset + i)
      BY <3>1 DEF Payload
    <3>3. o[j.at + (i - j.taken)] = data[i - j.taken]
      BY <1>8, <3>1
    <3>4. j.offset + i <= Len(o)
      <4> HIDE DEF n, o
      <4> QED
        BY <1>2, <1>8, <1>9, <3>1, SMTT(30)
    <3> QED
      BY <3>1, <3>2, <3>3, <3>4
  <2> QED
    BY <2>1, <2>2
<1> QED
  BY <1>3, <1>9, <1>10, <1>11

(* What one WriteChunk does, in the terms of the lemmas. *)
ChunkWritten(w, j, out, k, more) ==
  /\ out \in write(files[j.name], j.at, Payload(w, j, Chunk(j)), WritesFail, OpensFail)
  /\ k = AfterWrite(j, out.result) /\ more = MoreToWrite(k)
  /\ files' = [files EXCEPT ![j.name] = out.file]
  /\ job'   = [v \in Workers |->
                 IF v = w THEN (IF more THEN k ELSE Answered(k, k.status))
                 ELSE IF job[v].asked.op = "write" /\ job[v].name = j.name
                      THEN [job[v] EXCEPT !.alone = FALSE]
                      ELSE job[v]]
  /\ rest'  = [rest EXCEPT ![w] = If(~more /\ j.whole, k.size - k.taken)]
  /\ pc'    = [pc EXCEPT ![w] = IF more THEN "write" ELSE "idle"]

(* What is known of a write before its next chunk, and of the files after it. *)
LEMMA WriteKnown ==
  ASSUME IInv, NEW w \in Workers, pc[w] = "write"
  PROVE  LET j == job[w] IN
         /\ j \in FileJobs /\ j.name \in Names /\ rest[w] = 0 /\ files \in Contents
         /\ j.asked.op = "write" /\ JobOK(j) /\ GrowthOK("write", j, files)
         /\ WriteSoFar(j) /\ Landed(w, j, files)
         /\ j.offset \in Nat /\ j.size \in Nat /\ j.at \in Nat /\ j.taken \in Nat
         /\ j.left \in Nat /\ Chunk(j) \in Nat /\ Chunk(j) <= j.left
         /\ \A out \in write(files[j.name], j.at, Payload(w, j, Chunk(j)), WritesFail, OpensFail) :
              Outcome(files[j.name], j.at, Payload(w, j, Chunk(j)), Chunk(j), out)
<1> DEFINE j == job[w]
<1>1. /\ WorkerOK(w, "write", j, rest[w], files) /\ j \in FileJobs \cup OtherJobs
      /\ files \in Contents
  BY WhatIsKnown
<1>2. /\ rest[w] = 0 /\ j.asked.op = "write" /\ WriteSoFar(j) /\ Landed(w, j, files)
  BY <1>1 DEF WorkerOK, PcOK, WriteOK, Working
<1>3. j \in FileJobs /\ JobOK(j) /\ GrowthOK("write", j, files)
  BY <1>1, <1>2, JobKinds DEF FileOps, WorkerOK
<1>4. /\ j.name \in Names /\ j.offset \in Nat /\ j.size \in Nat /\ j.at \in Nat
      /\ j.taken \in Nat /\ j.left \in Nat /\ Chunk(j) \in Nat /\ Chunk(j) <= j.left
  BY <1>3, JobKinds, ChunkFits
<1> HIDE DEF j
<1>5. ASSUME NEW out \in write(files[j.name], j.at, Payload(w, j, Chunk(j)), WritesFail, OpensFail)
      PROVE  Outcome(files[j.name], j.at, Payload(w, j, Chunk(j)), Chunk(j), out)
  <2>1. Payload(w, j, Chunk(j)) \in [1 .. Chunk(j) -> FileByte]
    BY <1>4, PayloadBytes
  <2> QED
    BY <1>4, <1>5, <2>1, WriteOutcome
<1> QED
  BY <1>1, <1>2, <1>3, <1>4, <1>5 DEF j

(* The files after a chunk was written. *)
LEMMA ChunkChangesFiles ==
  ASSUME IInv, NEW w \in Workers, pc[w] = "write", NEW out, NEW k, NEW more,
         ChunkWritten(w, job[w], out, k, more)
  PROVE  LET j == job[w] IN
         /\ FilesInv' /\ Grows(files, files')
         /\ out.result \in Int /\ (Chunk(j) > 0 => out.result # 0)
         /\ \A m \in Names : m # j.name => files'[m] = files[m]
         /\ files[j.name] # NoFile =>
              \A i \in DOMAIN files[j.name] : files'[j.name][i] # files[j.name][i] =>
                j.offset < i /\ i <= j.offset + j.size
<1> DEFINE j == job[w]
           n == Chunk(j)
           c == files[j.name]
           data == Payload(w, j, n)
<1>1. /\ j \in FileJobs /\ j.name \in Names /\ files \in Contents
      /\ j.offset \in Nat /\ j.size \in Nat /\ j.at \in Nat /\ j.taken \in Nat
      /\ j.left \in Nat /\ n \in Nat /\ n <= j.left
      /\ j.taken + j.left = j.size /\ j.at = j.offset + j.taken
  BY WriteKnown DEF WriteSoFar
<1>2. Outcome(c, j.at, data, n, out)
  BY WriteKnown DEF ChunkWritten
<1>3. data \in [1 .. n -> FileByte] /\ InPlace(data, j.at)
  <2>1. /\ data \in [1 .. n -> FileByte]
        /\ \A i \in 1 .. n : data[i] # Zero => data[i][2] = j.offset + j.taken + i
    BY <1>1, PayloadBytes, ZenonT(60)
  <2>2. DOMAIN data = 1 .. n
    BY <2>1
  <2> HIDE DEF data, n, j
  <2> QED
    BY <1>1, <2>1, <2>2 DEF InPlace
<1>4. files' = [files EXCEPT ![j.name] = out.file]
  BY DEF ChunkWritten
<1>0. out.result \in Int /\ OnlyNewBytes(files, files', j.name, j.at, data, n)
  <2> HIDE DEF data, n, j
  <2>1. /\ out.result \in Int
        /\ OnlyNewBytes(files, [files EXCEPT ![j.name] = out.file], j.name, j.at, data, n)
    BY <1>1, <1>2, <1>3, FilesWritten
  <2> QED
    BY <1>4, <2>1
<1> HIDE DEF data, n, c, j
<1>5. /\ Grows(files, files') /\ out.result \in Int
      /\ files[j.name] = NoFile => files'[j.name] = NoFile
      /\ \A m \in Names : m # j.name => files'[m] = files[m]
      /\ c # NoFile =>
           \A i \in DOMAIN c : files'[j.name][i] # c[i] => j.at < i /\ i <= j.at + n
      /\ InPlace(c, 0) /\ InPlace(data, j.at) =>
           (files'[j.name] # NoFile => InPlace(files'[j.name], 0))
  BY <1>0 DEF OnlyNewBytes, c
<1>6. n > 0 => out.result # 0
  <2>1. -ENOENT # 0 /\ -ENOSPC # 0 /\ -EMFILE # 0
    BY DEF ENOENT, ENOSPC, EMFILE
  <2> QED
    BY <1>1, <1>2, <2>1 DEF Outcome
<1>7. ASSUME NEW i \in DOMAIN c, c # NoFile, files'[j.name][i] # c[i]
      PROVE  j.offset < i /\ i <= j.offset + j.size
  <2>1. j.at < i /\ i <= j.at + n /\ i \in Nat
    <3>1. c \in Seq(FileByte)
      BY <1>1, <1>7, FileLengths DEF IsFile, c
    <3>2. i \in Nat
      BY <3>1
    <3> QED
      BY <1>5, <1>7, <3>2
  <2> QED
    BY <1>1, <2>1
<1>8. FilesInv'
  <2>1. files' \in Contents
    BY <1>5 DEF Grows
  <2>2. files'[<<>>] = NoFile
    BY <1>5, NamesAssumption DEF IInv, FilesInv
  <2>3. ASSUME NEW m \in Names, files'[m] # NoFile PROVE InPlace(files'[m], 0)
    <3>1. CASE m = j.name
      <4>1. c # NoFile
        BY <1>5, <2>3, <3>1 DEF c
      <4>2. InPlace(c, 0)
        BY <1>1, <4>1 DEF IInv, FilesInv, c
      <4> QED
        BY <1>3, <1>5, <2>3, <3>1, <4>2
    <3>2. CASE m # j.name
      BY <1>5, <2>3, <3>2 DEF IInv, FilesInv
    <3> QED
      BY <3>1, <3>2
  <2> QED
    BY <2>1, <2>2, <2>3 DEF FilesInv, Contents
<1> QED
  BY <1>5, <1>6, <1>7, <1>8 DEF n, c, j

(* The others, who may have written to the same file. *)
LEMMA OthersAfterChunk ==
  ASSUME IInv, NEW w \in Workers, pc[w] = "write", NEW out, NEW k, NEW more,
         ChunkWritten(w, job[w], out, k, more), NEW v \in Workers \ {w}
  PROVE  job'[v] \in FileJobs \cup OtherJobs /\ WorkerOK(v, pc'[v], job'[v], rest'[v], files')
<1>1. pc'[v] = pc[v] /\ rest'[v] = rest[v]
  BY DEF ChunkWritten, IInv, TypesInv
<1>2. Grows(files, files') /\ \A m \in Names : m # job[w].name => files'[m] = files[m]
  BY ChunkChangesFiles
<1>3. WorkerOK(v, pc[v], job[v], rest[v], files) /\ job[v] \in FileJobs \cup OtherJobs
  BY WhatIsKnown
<1>4. CASE job[v].asked.op = "write" /\ job[v].name = job[w].name
  <2>1. job'[v] = [job[v] EXCEPT !.alone = FALSE]
    BY <1>4 DEF ChunkWritten
  <2>2. job[v] \in FileJobs
    BY <1>3, <1>4, JobKinds DEF FileOps
  <2> QED
    BY <1>1, <1>2, <1>3, <1>4, <2>1, <2>2, NotAloneOK
<1>5. CASE ~(job[v].asked.op = "write" /\ job[v].name = job[w].name)
  <2>1. job'[v] = job[v]
    BY <1>5 DEF ChunkWritten
  <2>2. job[v].asked.op = "write" => files'[job[v].name] = files[job[v].name]
    BY <1>2, <1>3, <1>5, JobKinds DEF FileOps
  <2> QED
    BY <1>1, <1>2, <1>3, <2>1, <2>2, NotDisturbed
<1> QED
  BY <1>4, <1>5

LEMMA WriteChunkStep ==
  ASSUME IInv, NEW w \in Workers, WriteChunk(w)
  PROVE  IInv'
<1> DEFINE j == job[w]
<1>1. pc[w] = "write" /\ UNCHANGED <<stream, open, calls>>
  BY DEF WriteChunk, conn
<1>2. PICK out, k, more : ChunkWritten(w, j, out, k, more)
  <2>1. PICK out \in write(files[j.name], j.at, Payload(w, j, Chunk(j)), WritesFail, OpensFail) :
          ChunkWritten(w, j, out, AfterWrite(j, out.result), MoreToWrite(AfterWrite(j, out.result)))
    BY Zenon DEF WriteChunk, ChunkWritten
  <2> QED
    BY <2>1
<1>3. /\ j \in FileJobs /\ j.name \in Names /\ rest[w] = 0 /\ files \in Contents
      /\ j.asked.op = "write" /\ JobOK(j) /\ GrowthOK("write", j, files)
      /\ WriteSoFar(j) /\ Landed(w, j, files)
      /\ Outcome(files[j.name], j.at, Payload(w, j, Chunk(j)), Chunk(j), out)
  BY <1>1, <1>2, WriteKnown DEF ChunkWritten
<1>4. /\ FilesInv' /\ Grows(files, files')
      /\ out.result \in Int /\ (Chunk(j) > 0 => out.result # 0)
  BY <1>1, <1>2, ChunkChangesFiles
<1> DEFINE l == IF more THEN k ELSE Answered(k, k.status)
           t == If(~more /\ j.whole, k.size - k.taken)
           p == IF more THEN "write" ELSE "idle"
<1>5. job'[w] = l /\ rest'[w] = t /\ pc'[w] = p /\ k = AfterWrite(j, out.result)
  BY <1>2 DEF ChunkWritten, IInv, TypesInv
<1>6. more = MoreToWrite(k) /\ files' = [files EXCEPT ![j.name] = out.file]
  BY <1>2 DEF ChunkWritten
<1> HIDE DEF j
<1>7. k \in FileJobs /\ WriteFields(j, out.result, k)
  BY <1>3, <1>4, <1>5, AfterWriteFields
<1>8. /\ JobOK(k) /\ k.replies = 0
      /\ MoreToWrite(k) => WriteSoFar(k)
      /\ ~MoreToWrite(k) /\ k.whole => \/ k.taken = k.size
                                       \/ k.status # 0 /\ k.size > BufferSize
  BY <1>3, <1>4, <1>7, WriteGoesOn
<1>9. Landed(w, k, files')
  BY <1>3, <1>4, <1>6, <1>7, ChunkLands
<1>10. k.asked = j.asked /\ k.name = j.name /\ k.start = j.start /\ k.whole = j.whole
  BY <1>7 DEF WriteFields
<1>11. k.size \in Nat /\ k.taken \in Nat /\ k.status \in Nat
  BY <1>7, JobKinds
<1>12. GrowthOK("write", k, files') /\ GrowthOK("idle", k, files')
  <2>1. SUFFICES ASSUME j.start # NoFile
                 PROVE  files'[j.name] # NoFile /\ j.start <= Len(files'[j.name])
    BY <1>10 DEF GrowthOK
  <2>2. files[j.name] # NoFile /\ j.start <= Len(files[j.name])
    BY <1>3, <2>1 DEF GrowthOK
  <2>3. /\ files'[j.name] # NoFile /\ Len(files[j.name]) <= Len(files'[j.name])
        /\ Len(files[j.name]) \in Nat /\ Len(files'[j.name]) \in Nat /\ j.start \in Nat
    BY <1>3, <1>4, <2>1, <2>2, FileLengths, JobKinds DEF Grows
  <2> QED
    BY <2>2, <2>3
<1>13. l \in FileJobs /\ t \in Int /\ p \in Places /\ WorkerOK(w, p, l, t, files')
  <2>1. CASE more
    <3>1. l = k /\ t = 0 /\ p = "write" /\ MoreToWrite(k)
      BY <1>6, <2>1 DEF If
    <3> HIDE DEF l, t, p
    <3>2. PcOK("write", k, 0) /\ RestOK(k, 0)
      BY <1>3, <1>10 DEF PcOK, RestOK
    <3>3. WriteOK(w, "write", k, files')
      BY <1>8, <1>9, <3>1 DEF WriteOK, Working
    <3>4. WorkerOK(w, "write", k, 0, files')
      BY <1>3, <1>8, <1>10, <1>12, <3>2, <3>3 DEF WorkerOK
    <3> QED
      BY <1>7, <3>1, <3>4 DEF Places, Working
  <2>2. CASE ~more
    <3>1. l = Answered(k, k.status) /\ p = "idle" /\ ~MoreToWrite(k)
          /\ t = IF j.whole THEN k.size - k.taken ELSE 0
      <4>1. ~MoreToWrite(k)
        BY <1>6, <2>2, Zenon
      <4> QED
        BY <2>2, <4>1 DEF If
    <3>2. /\ l \in FileJobs /\ l.asked = k.asked /\ l.whole = k.whole /\ l.name = k.name
          /\ l.offset = k.offset /\ l.size = k.size /\ l.payload = k.payload
          /\ l.alive = k.alive /\ l.taken = k.taken /\ l.left = k.left /\ l.at = k.at
          /\ l.status = k.status /\ l.replies = 1 /\ l.start = k.start
          /\ l.short = k.short /\ l.alone = k.alone
      BY <1>7, <1>8, <1>11, <3>1, AnsweredFields
    <3> HIDE DEF l, t, p
    <3>3. t \in Int /\ (t # 0 => k.whole /\ k.taken # k.size)
      BY <1>10, <1>11, <3>1
    <3>4. PcOK("idle", l, t) /\ RestOK(l, t)
      BY <1>3, <1>8, <1>10, <3>1, <3>2, <3>3 DEF PcOK, RestOK, Working
    <3>5. JobOK(l) /\ GrowthOK("idle", l, files') /\ Landed(w, l, files')
      BY <1>8, <1>9, <1>12, <3>2 DEF JobOK, GrowthOK, Landed
    <3>6. WriteDone(l)
      BY <1>8, <3>1, <3>2 DEF WriteDone
    <3>7. WriteOK(w, "idle", l, files')
      BY <3>5, <3>6 DEF WriteOK, Working
    <3>8. WorkerOK(w, "idle", l, t, files')
      BY <1>3, <1>10, <3>2, <3>4, <3>5, <3>7 DEF WorkerOK
    <3> QED
      BY <3>1, <3>2, <3>3, <3>8 DEF Places
  <2> QED
    BY <2>1, <2>2
<1> HIDE DEF l, t, p
<1>14. ASSUME NEW v \in Workers \ {w}
       PROVE  job'[v] \in FileJobs \cup OtherJobs /\ WorkerOK(v, pc'[v], job'[v], rest'[v], files')
  BY <1>1, <1>2, OthersAfterChunk DEF j
<1>15. ASSUME NEW v \in Workers
       PROVE  job'[v] \in FileJobs \cup OtherJobs /\ WorkerOK(v, pc'[v], job'[v], rest'[v], files')
  <2>1. CASE v = w
    BY <1>5, <1>13, <2>1
  <2>2. CASE v # w
    BY <1>14, <2>2
  <2> QED
    BY <2>1, <2>2
<1>16. WorkersInv'
  BY <1>15 DEF WorkersInv
<1>17. TypesInv'
  <2>1. pc' = [pc EXCEPT ![w] = p] /\ rest' = [rest EXCEPT ![w] = t]
    BY <1>2 DEF ChunkWritten, p, t, j
  <2>2. pc' \in [Workers -> Places] /\ rest' \in [Workers -> Int]
    BY <1>13, <2>1 DEF IInv, TypesInv, Places
  <2>3. job' = [v \in Workers |-> job'[v]]
    BY <1>2 DEF ChunkWritten
  <2>4. job' \in [Workers -> FileJobs \cup OtherJobs]
    BY <1>15, <2>3
  <2> QED
    BY <2>2, <2>4 DEF TypesInv, Places
<1>18. StreamInv'
  BY <1>1 DEF IInv, StreamInv
<1> QED
  BY <1>4, <1>16, <1>17, <1>18 DEF IInv

-----------------------------------------------------------------------------
(* The inductive invariant.                                                *)

LEMMA InitIInv ==
  ASSUME Init
  PROVE  IInv
<1>1. ASSUME NEW n \in Names
      PROVE  files[n] \in Seq(FileByte) \cup {NoFile} /\ (files[n] # NoFile => InPlace(files[n], 0))
  <2>1. CASE Lengths[n] = NoFile
    BY <2>1 DEF Init
  <2>2. CASE Lengths[n] # NoFile
    <3>1. Lengths[n] \in Nat /\ files[n] = [i \in 1 .. Lengths[n] |-> Byte("old", i)]
      BY <2>2, LengthsAssumption DEF Init
    <3>2. \A i \in 1 .. Lengths[n] : Byte("old", i) \in FileByte /\ Byte("old", i)[2] = 0 + i
      BY <3>1 DEF Byte, FileByte
    <3>3. files[n] \in Seq(FileByte)
      BY <3>1, <3>2
    <3>4. InPlace(files[n], 0)
      BY <3>1, <3>2 DEF InPlace
    <3> QED
      BY <3>3, <3>4
  <2> QED
    BY <2>1, <2>2
<1>2. FilesInv
  <2>1. files = [n \in Names |-> files[n]]
    BY DEF Init
  <2>2. files[<<>>] = NoFile
    BY NamesAssumption, LengthsAssumption DEF Init
  <2> QED
    BY <1>1, <2>1, <2>2 DEF FilesInv
<1>3. StreamInv
  BY BoundsAssumption DEF Init, StreamInv
<1>4. NoJob \in OtherJobs /\ NoJob \notin FileJobs /\ NoJob.asked.op = "none"
  BY JobKinds DEF OtherJobs, NoJob, FileOps
<1>5. TypesInv
  BY <1>4 DEF Init, TypesInv
<1>6. WorkersInv
  BY <1>4 DEF Init, WorkersInv, WorkerOK, PcOK, RestOK, Working
<1> QED
  BY <1>2, <1>3, <1>5, <1>6 DEF IInv

LEMMA NextIInv ==
  ASSUME IInv, [Next]_vars
  PROVE  IInv'
<1>1. CASE UNCHANGED vars
  BY <1>1 DEF IInv, FilesInv, StreamInv, TypesInv, WorkersInv, vars, conn
<1>2. CASE Next
  <2>1. PICK w \in Workers : Send(w) \/ SendPart(w) \/ HangUp(w) \/ WorkerStep(w)
    BY <1>2 DEF Next
  <2>2. CASE Send(w) \/ SendPart(w) \/ HangUp(w)
    BY <2>2, ClientStep
  <2>3. CASE ReceiveEnd(w) \/ GoAstray(w)
    BY <2>3, LeaveStep
  <2>4. CASE Receive(w)
    BY <2>4, ReceiveStep
  <2>5. CASE CreateFile(w)
    BY <2>5, CreateFileStep
  <2>6. CASE StatFile(w)
    BY <2>6, StatFileStep
  <2>7. CASE AnswerSize(w)
    BY <2>7, AnswerSizeStep
  <2>8. CASE RefuseRead(w)
    BY <2>8, RefuseReadStep
  <2>9. CASE StartRead(w)
    BY <2>9, StartReadStep
  <2>10. CASE ReadChunk(w)
    BY <2>10, ReadChunkStep
  <2>11. CASE WriteChunk(w)
    BY <2>11, WriteChunkStep
  <2> QED
    BY <2>1, <2>2, <2>3, <2>4, <2>5, <2>6, <2>7, <2>8, <2>9, <2>10, <2>11 DEF WorkerStep
<1> QED
  BY <1>1, <1>2

(* The parts of the invariant hold in every state: whatever the workers do *)
(* at the same time, each knows of its own request what its part says.     *)
THEOREM Invariance == Spec => []IInv
<1>1. Init => IInv
  BY InitIInv
<1>2. IInv /\ [Next]_vars => IInv'
  BY NextIInv
<1> QED
  BY <1>1, <1>2, PTL DEF Spec

-----------------------------------------------------------------------------
(* What the invariant says of the answers.                                 *)

LEMMA BusyIsWorking == \A w : Busy(w) <=> pc[w] \in Working
  BY DEF Busy, Working

(* The local variables of server_run keep to their types, and a chunk never *)
(* reaches behind what was asked for.                                      *)
THEOREM TypesAreRight == Spec => []TypeOK
<1>1. ASSUME IInv PROVE TypeOK
  <2>1. /\ files \in [Names -> Seq(FileByte) \cup {NoFile}]
        /\ open \in [Workers -> BOOLEAN] /\ calls \in 0 .. MaxCalls
    BY <1>1 DEF IInv, FilesInv, StreamInv
  <2>2. ASSUME NEW w \in Workers
        PROVE  /\ pc[w] \in {"idle", "done", "astray"} \/ Busy(w)
               /\ job[w] = NoJob \/ job[w].asked \in Requests
               /\ "name" \in DOMAIN job[w] => FileJob(job[w])
    <3>1. /\ pc[w] \in Places /\ job[w] \in FileJobs \cup OtherJobs
          /\ WorkerOK(w, pc[w], job[w], rest[w], files)
      BY <1>1, WhatIsKnown
    <3>2. pc[w] \in {"idle", "done", "astray"} \/ Busy(w)
      BY <3>1, BusyIsWorking DEF Places
    <3>3. CASE job[w] \in FileJobs
      <4>1. JobOK(job[w])
        BY <3>1, <3>3 DEF WorkerOK
      <4>2. FileJob(job[w])
        BY <3>3, <4>1, JobKinds DEF FileJob, JobOK
      <4> QED
        BY <3>2, <3>3, <4>2, JobKinds
    <3>4. CASE job[w] \in OtherJobs
      <4>1. job[w] = NoJob \/ job[w].asked \in Requests
        BY <3>4 DEF OtherJobs
      <4>2. DOMAIN job[w] = {"asked"}
        BY <3>4 DEF OtherJobs, NoJob
      <4> QED
        BY <3>2, <4>1, <4>2
    <3> QED
      BY <3>1, <3>3, <3>4
  <2> QED
    BY <2>1, <2>2 DEF TypeOK
<1> QED
  BY <1>1, Invariance, PTL

(* A worker finds the next request where the client put it: for arithmetic *)
(* with every combination of flags and operands, for get, set and delete   *)
(* without flags, and for requests on files, whole or cut, unless a name   *)
(* was too long or a write of several chunks failed.                       *)
THEOREM RequestsAreFound == Spec => []NextRequestIsFound
<1>1. ASSUME IInv PROVE NextRequestIsFound
  BY <1>1, WhatIsKnown DEF NextRequestIsFound, WorkerOK, RestOK
<1> QED
  BY <1>1, Invariance, PTL

(* A read inside the file is answered in full, whatever others write       *)
(* between its chunks, and for every number of chunks the counter can count. *)
THEOREM ReadsAreComplete == Spec => []ReadIsComplete
<1>1. ASSUME IInv PROVE ReadIsComplete
  BY <1>1, WhatIsKnown, BusyIsWorking DEF ReadIsComplete, HasAnswered, WorkerOK, ReadOK, ReadDone
<1> QED
  BY <1>1, Invariance, PTL

(* No byte is ever at a place it was not meant for, in a file or in what a  *)
(* client that reads inside a file is sent.                                *)
THEOREM BytesStayInPlace == Spec => []BytesAreInPlace
<1>1. ASSUME IInv PROVE BytesAreInPlace
  <2>1. ASSUME NEW n \in Names, files[n] # NoFile, NEW i \in DOMAIN files[n]
        PROVE  files[n][i] \in {Zero} \cup FileByte /\ (files[n][i] # Zero => files[n][i][2] = i)
    <3>1. files[n] \in Seq(FileByte) /\ InPlace(files[n], 0)
      BY <1>1, <2>1 DEF IInv, FilesInv
    <3>2. i \in Nat /\ files[n][i] \in FileByte
      BY <3>1, <2>1
    <3> QED
      BY <2>1, <3>1, <3>2 DEF InPlace
  <2>2. ASSUME NEW w \in Workers, job[w].asked.op = "read", Inside(job[w])
        PROVE  \A i \in DOMAIN job[w].sent : job[w].sent[i] # Zero =>
                 job[w].sent[i][2] = job[w].offset + i
    BY <1>1, <2>2, WhatIsKnown DEF WorkerOK, ReadOK, InPlace
  <2> QED
    BY <2>1, <2>2 DEF BytesAreInPlace
<1> QED
  BY <1>1, Invariance, PTL

(* What a write that was answered with 0 was given is in the file, chunk    *)
(* after chunk, if nobody else wrote to it meanwhile or since.             *)
THEOREM WritesLand == Spec => []WriteHasLanded
<1>1. ASSUME IInv PROVE WriteHasLanded
  <2>1. SUFFICES ASSUME NEW w \in Workers, HasAnswered(w, "write"), job[w].status = 0,
                        job[w].alone, ~job[w].short, NEW i \in 1 .. job[w].size
                 PROVE  /\ job[w].offset + i <= Len(files[job[w].name])
                        /\ files[job[w].name][job[w].offset + i] = Byte(w, job[w].offset + i)
    BY DEF WriteHasLanded
  <2>2. WriteOK(w, pc[w], job[w], files)
    BY <1>1, <2>1, WhatIsKnown DEF WorkerOK, HasAnswered
  <2>3. job[w].whole /\ job[w].taken = job[w].size
    BY <2>1, <2>2, BusyIsWorking DEF WriteOK, WriteDone, HasAnswered
  <2> QED
    BY <2>1, <2>2, <2>3 DEF WriteOK, Landed
<1> QED
  BY <1>1, Invariance, PTL

(* The size that is answered lies between the size when the request came    *)
(* and the size now.                                                       *)
THEOREM SizesAreReal == Spec => []SizeIsReal
<1>1. ASSUME IInv PROVE SizeIsReal
  BY <1>1, WhatIsKnown, BusyIsWorking DEF SizeIsReal, HasAnswered, WorkerOK, SizeOK
<1> QED
  BY <1>1, Invariance, PTL

(* A request on a file has one answer; a second header is only possible for *)
(* a read of several chunks beyond the end of the file.                    *)
THEOREM AnswersAreSingle == Spec => []AnsweredOnce
<1>1. ASSUME IInv PROVE AnsweredOnce
  <2>1. SUFFICES ASSUME NEW w \in Workers, ~Busy(w), job[w].asked.op \in FileOps
                 PROVE  job[w].replies = 1 \/ (job[w].asked.op = "read" /\ ~Inside(job[w])
                                               /\ job[w].size > BufferSize)
    BY DEF AnsweredOnce, FileOps
  <2>2. /\ WorkerOK(w, pc[w], job[w], rest[w], files) /\ pc[w] \notin Working
        /\ job[w] \in FileJobs \cup OtherJobs
    BY <1>1, <2>1, WhatIsKnown, BusyIsWorking
  <2>3. CASE job[w].asked.op = "read"
    <3>1. ReadDone(job[w])
      BY <2>2, <2>3 DEF WorkerOK, ReadOK
    <3>2. job[w].size \in Nat
      BY <2>1, <2>2, JobKinds
    <3> QED
      BY <2>3, <3>1, <3>2, BufferAssumption DEF ReadDone
  <2>4. CASE job[w].asked.op # "read"
    BY <2>1, <2>2, <2>4 DEF FileOps, WorkerOK, SizeOK, CreateOK, WriteOK, WriteDone
  <2> QED
    BY <2>3, <2>4
<1> QED
  BY <1>1, Invariance, PTL

(* No step of any worker makes a file vanish or shorter, or changes a byte  *)
(* outside the part that some write in progress was told to write.         *)
THEOREM BytesAreKept == Spec => OnlyAskedBytesChange
<1> DEFINE Kept ==
             \A n \in Names : files[n] # NoFile =>
               /\ files'[n] # NoFile
               /\ Len(files[n]) <= Len(files'[n])
               /\ \A i \in DOMAIN files[n] : files'[n][i] # files[n][i] =>
                    \E w \in Workers :
                      /\ pc[w] = "write" /\ job[w].name = n
                      /\ job[w].offset < i /\ i <= job[w].offset + job[w].size
<1>1. ASSUME IInv, files' = files PROVE Kept
  BY <1>1, WhatIsKnown, FileLengths
<1>2. ASSUME IInv, NEW w \in Workers, CreateFile(w) PROVE Kept
  <2>1. /\ pc[w] = "create" /\ files \in Contents
        /\ WorkerOK(w, pc[w], job[w], rest[w], files) /\ job[w] \in FileJobs \cup OtherJobs
    BY <1>2, WhatIsKnown DEF CreateFile, Go
  <2>2. job[w].name \in Names
    BY <2>1, JobKinds DEF WorkerOK, PcOK, FileOps
  <2>3. \A n \in Names : files[n] # NoFile => files'[n] = files[n]
    <3>1. files[<<>>] = NoFile
      BY <1>2 DEF IInv, FilesInv
    <3> QED
      BY <1>2, <2>1, <2>2, <3>1 DEF CreateFile, create, Outcomes, Contents
  <2> QED
    BY <2>1, <2>3, FileLengths
<1>3. ASSUME IInv, NEW w \in Workers, WriteChunk(w) PROVE Kept
  <2> DEFINE j == job[w]
  <2>1. pc[w] = "write"
    BY <1>3 DEF WriteChunk
  <2>2. PICK out, k, more : ChunkWritten(w, j, out, k, more)
    <3>1. PICK out \in write(files[j.name], j.at, Payload(w, j, Chunk(j)), WritesFail, OpensFail) :
            ChunkWritten(w, j, out, AfterWrite(j, out.result),
                         MoreToWrite(AfterWrite(j, out.result)))
      BY <1>3, Zenon DEF WriteChunk, ChunkWritten
    <3> QED
      BY <3>1
  <2>3. /\ Grows(files, files')
        /\ \A m \in Names : m # j.name => files'[m] = files[m]
        /\ files[j.name] # NoFile =>
             \A i \in DOMAIN files[j.name] : files'[j.name][i] # files[j.name][i] =>
               j.offset < i /\ i <= j.offset + j.size
    BY <1>3, <2>1, <2>2, ChunkChangesFiles
  <2> QED
    BY <2>1, <2>3 DEF Grows
<1>4. ASSUME IInv, [Next]_vars PROVE [Kept]_vars
  <2>1. CASE UNCHANGED vars
    BY <2>1
  <2>2. CASE Next
    <3>1. PICK w \in Workers : Send(w) \/ SendPart(w) \/ HangUp(w) \/ WorkerStep(w)
      BY <2>2 DEF Next
    <3>2. files' = files \/ CreateFile(w) \/ WriteChunk(w)
      BY <3>1 DEF WorkerStep, Send, SendPart, Sent, HangUp, ReceiveEnd, GoAstray, Receive,
                  RunElsewhere, Begin, Received, StatFile, AnswerSize, RefuseRead, StartRead,
                  ReadChunk
    <3> QED
      BY <1>1, <1>2, <1>3, <1>4, <3>2
  <2> QED
    BY <1>4, <2>1, <2>2
<1>5. IInv /\ [Next]_vars => [Kept]_vars
  BY <1>4
<1>6. Spec => [][Kept]_vars
  BY <1>5, Invariance, PTL DEF Spec
<1> QED
  BY <1>6 DEF OnlyAskedBytesChange
=============================================================================
