-------------------------- MODULE RpcRequestProofs --------------------------
(***************************************************************************)
(* The requests on variables for every number of workers, every set of     *)
(* requests and every number of iterations: kvs_mutex protects each one as *)
(* a whole, and each takes effect at one moment, as AtomicRequests has it. *)
(***************************************************************************)
EXTENDS RpcRequest, MathFunctionsProofs, Induction

-----------------------------------------------------------------------------
(* The inductive invariant: what a worker knows at each place of           *)
(* server_run.  It is stated of the store, which stays what it is while    *)
(* the worker is in its section.                                           *)

\* The request is of the kind that gets there.
AtItsPlace(w) ==
  LET r == req[w] IN
  /\ pc[w] = "idle" <=> r = None
  /\ pc[w] \in {"operand", "loop", "end", "compute", "insert"} => r.op \in Ops
  /\ pc[w] \in {"set", "delete", "get"} => r.op = pc[w]
  /\ pc[w] \in Section \cup {"lock"} => UsesStore(r)
  /\ pc[w] = "insert" => r.res # NULL
  /\ pc[w] \in {"lock", "operand", "loop", "end", "set", "delete", "get"} => status[w] = 0
  /\ pc[w] = "lock" => side[w] = "a"

Value(w, s) == Atomic!OperandOf(store, req[w][s], req[w].recursive)

Resolved(w, s) == Value(w, s) = [status |-> 0, value |-> val[w][s]]

\* The first operand is done before the second one is begun.
OperandsInOrder(w) ==
  pc[w] \in {"operand", "loop", "end"} /\ side[w] = "b" => Resolved(w, "a")

\* The loop has followed the chain for iter names, none of them NULL.
ChainOf(w) == Atomic!Chain(store, Operand(w).name)

OnTheChain(w) ==
  pc[w] \in {"loop", "end"} =>
    /\ Operand(w).flag = 1 /\ req[w].recursive
    /\ Lookup(Operand(w).name).flag = 1
    /\ \A n \in 0 .. Iterations : n < iter[w] => ChainOf(w)[n] # NULL
    /\ iter[w] <= Iterations => temp[w] = ChainOf(w)[iter[w]]

InTheLoop(w) ==
  pc[w] = "loop" => temp[w] # NULL /\ (iter[w] = 0 \/ iter[w] < Iterations)

BehindTheLoop(w) ==
  pc[w] = "end" =>
    /\ iter[w] > 0
    /\ iter[w] <= Iterations => var[w] = ChainOf(w)[iter[w] - 1]
    /\ temp[w] = NULL \/ iter[w] >= Iterations

\* Both operands have a value, or one has none.
OperandsAreKnown(w) ==
  pc[w] = "compute" =>
    \/ status[w] = 0 /\ Resolved(w, "a") /\ Resolved(w, "b")
    \/ status[w] # 0 /\ Value(w, "a").status = status[w]
    \/ status[w] # 0 /\ Value(w, "a").status = 0 /\ Value(w, "b").status = status[w]

ResultIsKnown(w) ==
  pc[w] = "insert" =>
    /\ status[w] = 0
    /\ Atomic!Answer(store, req[w]) = [status |-> 0, result |-> result[w]]

\* The pointer that a get request has read leads to the name, or to memory
\* that was changed.
NameIsKnown(w) ==
  pc[w] \in {"unlock", "reply"} /\ req[w].op = "get" /\ status[w] = 0 =>
    \/ name[w] = Unknown
    \/ name[w] \in Keys /\ name[w] = req[w].a.name /\ store[name[w]].flag = 1

Knows(w) ==
  /\ AtItsPlace(w) /\ OperandsInOrder(w)
  /\ OnTheChain(w) /\ InTheLoop(w) /\ BehindTheLoop(w)
  /\ OperandsAreKnown(w) /\ ResultIsKnown(w) /\ NameIsKnown(w)

IInv == TypeOK /\ MutexIsHeldInSections /\ \A w \in Workers : Knows(w)

-----------------------------------------------------------------------------
(* Requests, lookups and operands.                                         *)

LEMMA Numbers ==
  /\ Values = Ints /\ Ints \subseteq Int /\ 0 \in Ints /\ 0 \in Int
  /\ EOVERFLOW \in Int /\ EINVAL \in Int /\ EOVERFLOW # 0 /\ EINVAL # 0
  /\ Iterations \in Nat /\ MaxCalls \in Nat /\ Free \notin Workers
BY NumbersAssumption, IntsAreIntegers, ErrnosAreInts, BoundsAssumption, WorkersAssumption

\* The keys and NULL: what a name of a request is.
Names == Keys \cup {NULL}

LEMMA RequestTypes ==
  ASSUME NEW r \in Requests
  PROVE  /\ r # None
         /\ r.op \in Ops \cup {"get", "set", "delete"}
         /\ r.op \in Ops => r \in Arithmetics
         /\ r.op = "get" => r \in Gets
         /\ r.op = "set" => r \in Sets
         /\ r.op = "delete" => r \in Deletes
<1>1. r \in Arithmetics \cup Gets \cup Sets \cup Deletes /\ r # None
  BY RequestsAssumption, NothingAssumption
<1>2. r \in Arithmetics => r.op \in Ops
  BY DEF Arithmetics
<1>3. r \in Gets => r.op = "get"
  BY DEF Gets
<1>4. r \in Sets => r.op = "set"
  BY DEF Sets
<1>5. r \in Deletes => r.op = "delete"
  BY DEF Deletes
<1> QED
  BY <1>1, <1>2, <1>3, <1>4, <1>5 DEF Ops

(* An operand is a number or a name, which may be NULL. *)
LEMMA OperandTypes ==
  ASSUME NEW r \in Arithmetics, NEW s \in {"a", "b"}
  PROVE  /\ r.op \in Ops /\ r.res \in Names /\ r.recursive \in BOOLEAN
         /\ \/ r[s].flag = 0 /\ r[s].value \in Ints
            \/ r[s].flag = 1 /\ r[s].name \in Names
<1>1. r[s] \in Binding \cup {Name(NULL)}
  BY DEF Arithmetics
<1>2. r.op \in Ops /\ r.res \in Names /\ r.recursive \in BOOLEAN
  BY DEF Arithmetics, Names
<1>3. CASE \E v \in Values : r[s] = Number(v)
  BY <1>2, <1>3, Numbers DEF Number
<1>4. CASE \E k \in Names : r[s] = Name(k)
  BY <1>2, <1>4 DEF Name
<1> QED
  BY <1>1, <1>3, <1>4 DEF Binding, Names

LEMMA LookupTypes ==
  ASSUME NEW b \in Bound
  PROVE  LET found == LookupOf(b) IN
         \/ /\ b = Absent /\ b.flag = ENOENT
            /\ found.check = ENOENT /\ found.flag = ENOENT
            /\ found.name = NULL /\ found.value = ENOENT
         \/ /\ b # Absent /\ b.flag = 0 /\ b = Number(b.value)
            /\ found.check = 0 /\ found.flag = 0
            /\ found.name = NULL /\ found.value = b.value /\ b.value \in Ints
         \/ /\ b # Absent /\ b.flag = 1 /\ b = Name(b.name)
            /\ found.check = 0 /\ found.flag = 1
            /\ found.name = b.name /\ b.name \in Keys /\ found.name # NULL
            /\ found.value = EFAULT
<1>1. CASE b = Absent
  BY <1>1 DEF LookupOf, Absent, ENOENT, EFAULT
<1>2. CASE \E v \in Values : b = Number(v)
  BY <1>2, Numbers DEF LookupOf, Absent, Number, ENOENT, EFAULT
<1>3. CASE \E k \in Keys : b = Name(k)
  BY <1>3, NullAssumption DEF LookupOf, Absent, Name, ENOENT, EFAULT
<1> QED
  BY <1>1, <1>2, <1>3 DEF Bound, Binding

\* What a lookup of k looks at.
BoundTo(m, k) == IF k = NULL THEN Absent ELSE m[k]

LEMMA BoundTypes ==
  ASSUME NEW m \in Map, NEW k \in Names
  PROVE  BoundTo(m, k) \in Bound
BY DEF BoundTo, Map, Bound, Names

(* The operators of AtomicRequests are those of the modules it extends. *)
LEMMA SameLookups ==
  ASSUME NEW m, NEW k
  PROVE  /\ Atomic!BindingAt(m, k) = BoundTo(m, k)
         /\ Atomic!NameAt(m, k) = LookupOf(BoundTo(m, k)).name
BY DEF Atomic!BindingAt, Atomic!NameAt, BoundTo, Atomic!LookupOf, LookupOf,
       Atomic!Absent, Absent, Atomic!ENOENT, ENOENT, Atomic!EFAULT, EFAULT

LEMMA SameFunctions ==
  ASSUME NEW f, NEW x, NEW y, NEW z
  PROVE  /\ Atomic!Called(f, x, y) = Called(f, x, y)
         /\ Atomic!StatusOf(f, x, y, z) = StatusOf(f, x, y, z)
BY DEF Atomic!Called, Called, Atomic!Add, Add, Atomic!Sub, Sub, Atomic!Mul, Mul,
       Atomic!MulOverflows, MulOverflows, Atomic!Divide, Divide, Atomic!Mod, Mod,
       Atomic!Quotient, Quotient, Atomic!Remainder, Remainder, Atomic!Abs, Abs,
       Atomic!Wrap, Wrap, Atomic!MinInt, MinInt, Atomic!StatusOf, StatusOf,
       Atomic!Divides, Divides, Atomic!Exact, Exact

(* The chain of names that begins at k. *)
LEMMA ChainFollowsNames ==
  ASSUME NEW m \in Map, NEW k \in Names
  PROVE  /\ \A n \in 0 .. Iterations : Atomic!Chain(m, k)[n] \in Names
         /\ Atomic!Chain(m, k)[0] = k
         /\ \A n \in 1 .. Iterations : Atomic!Chain(m, k)[n] =
              LookupOf(BoundTo(m, Atomic!Chain(m, k)[n-1])).name
<1> DEFINE next == [x \in Names |-> Atomic!NameAt(m, x)]
    step == [n \in 1 .. Iterations |-> next]
    hop == Atomic!Chain(m, k)
<1>1. next \in [Names -> Names]
  <2>1. ASSUME NEW x \in Names PROVE Atomic!NameAt(m, x) \in Names
    BY BoundTypes, LookupTypes, SameLookups DEF Names
  <2> QED
    BY <2>1
<1>2. PICK g : Recursion(g, Iterations, Names, k, step)
  <2>1. step \in Steps(Iterations, Names) /\ Iterations \in Nat
    BY <1>1, Numbers DEF Steps
  <2> HIDE DEF step
  <2> QED
    BY <2>1, RecursionOverNumbers
<1>3. \A n \in 1 .. Iterations : n - 1 \in 0 .. Iterations /\ n # 0 /\ n \in 0 .. Iterations
  BY Numbers
<1>4. g = [n \in 0 .. Iterations |-> IF n = 0 THEN k ELSE Atomic!NameAt(m, g[n-1])]
  <2>1. ASSUME NEW n \in 0 .. Iterations
        PROVE  g[n] = IF n = 0 THEN k ELSE Atomic!NameAt(m, g[n-1])
    <3>1. CASE n # 0
      <4>1. n \in 1 .. Iterations
        BY <3>1, Numbers
      <4>2. step[n][g[n-1]] = Atomic!NameAt(m, g[n-1])
        BY <1>2, <1>3, <4>1 DEF Recursion
      <4> QED
        BY <1>2, <3>1, <4>1, <4>2 DEF Recursion
    <3> QED
      BY <1>2, <3>1 DEF Recursion
  <2> QED
    BY <1>2, <2>1 DEF Recursion
<1>5. hop = [n \in 0 .. Iterations |-> IF n = 0 THEN k ELSE Atomic!NameAt(m, hop[n-1])]
  BY <1>4, Zenon DEF Atomic!Chain
<1> HIDE DEF hop
<1>6. hop[0] = k /\ \A n \in 1 .. Iterations : hop[n] = Atomic!NameAt(m, hop[n-1])
  BY <1>3, <1>5, Numbers
<1>7. \A n \in 0 .. Iterations : hop[n] \in Names
  <2> DEFINE P == {n \in Nat : n <= Iterations => hop[n] \in Names}
  <2>1. 0 \in P
    BY <1>6, Numbers
  <2>2. ASSUME NEW n \in P PROVE n + 1 \in P
    <3>1. SUFFICES ASSUME n + 1 <= Iterations PROVE hop[n + 1] \in Names
      OBVIOUS
    <3>2. n + 1 \in 1 .. Iterations /\ (n + 1) - 1 = n /\ hop[n] \in Names
      BY <3>1, Numbers
    <3>3. hop[n + 1] = next[hop[n]]
      BY <1>6, <3>2
    <3> QED
      BY <1>1, <3>2, <3>3
  <2>3. P \in SUBSET Nat
    OBVIOUS
  <2>4. P = Nat
    <3> HIDE DEF P
    <3> QED
      BY <2>1, <2>2, <2>3, NumberInduction
  <2> QED
    BY <2>4, Numbers
<1> QED
  BY <1>6, <1>7, SameLookups DEF hop

LEMMA LiteralOperand ==
  ASSUME NEW m, NEW o, NEW recursive, o.flag = 0
  PROVE  Atomic!OperandOf(m, o, recursive) = [status |-> 0, value |-> o.value]
BY DEF Atomic!OperandOf

\* What the three lookups make of a name that is bound to no other name.
LEMMA NamedOperand ==
  ASSUME NEW m \in Map, NEW o, NEW recursive, o.flag = 1, o.name \in Names
  PROVE  LET found == LookupOf(BoundTo(m, o.name))
             x == Atomic!OperandOf(m, o, recursive) IN
         /\ found.check # 0 => x.status = found.check
         /\ found.flag = 0 => x = [status |-> 0, value |-> found.value]
         /\ found.flag = 1 /\ ~recursive => x.status = EFAULT
<1> DEFINE b == BoundTo(m, o.name)
<1>1. b \in Bound /\ Atomic!BindingAt(m, o.name) = b
  BY BoundTypes, SameLookups
<1> HIDE DEF b
<1>2. b.flag # 1 => Atomic!OperandOf(m, o, recursive) = Atomic!Valued(b)
  BY <1>1 DEF Atomic!OperandOf
<1>3. b.flag = 1 /\ ~recursive =>
        Atomic!OperandOf(m, o, recursive) = [status |-> EFAULT, value |-> 0]
  BY <1>1 DEF Atomic!OperandOf, Atomic!EFAULT, EFAULT
<1>4. /\ b = Absent => Atomic!Valued(b).status = ENOENT
      /\ b # Absent => Atomic!Valued(b) = [status |-> 0, value |-> b.value]
  BY DEF Atomic!Valued, Atomic!Absent, Absent, Atomic!ENOENT, ENOENT
<1>5. 0 # 1 /\ ENOENT # 1 /\ ENOENT # 0
  BY DEF ENOENT
<1> QED
  BY <1>1, <1>2, <1>3, <1>4, <1>5, LookupTypes DEF b

\* What the loop makes of a chain: the number at its end, unless there is none
\* or the end is too far away.
LoopValue(m, chain, x) ==
  /\ \A n \in 1 .. Iterations - 1 :
       chain[n] = NULL /\ (\A j \in 1 .. n - 1 : chain[j] # NULL) =>
         LET found == LookupOf(BoundTo(m, chain[n-1])) IN
         /\ found.check # 0 => x.status = found.check
         /\ found.check = 0 => x = [status |-> 0, value |-> found.value]
  /\ (\A n \in 1 .. Iterations - 1 : chain[n] # NULL) => x.status = ELOOP

LEMMA ChainedOperand ==
  ASSUME NEW m \in Map, NEW o, NEW recursive, o.flag = 1, o.name \in Names,
         LookupOf(BoundTo(m, o.name)).flag = 1, recursive = TRUE
  PROVE  LoopValue(m, Atomic!Chain(m, o.name), Atomic!OperandOf(m, o, recursive))
<1> DEFINE chain == Atomic!Chain(m, o.name)
    x == Atomic!OperandOf(m, o, recursive)
    ends == Atomic!Ends(m, o.name)
<1>1. BoundTo(m, o.name).flag = 1
  <2>1. BoundTo(m, o.name) \in Bound
    BY BoundTypes
  <2> QED
    BY <2>1, LookupTypes DEF ENOENT
<1>2. x = IF ends = {} THEN [status |-> ELOOP, value |-> 0]
          ELSE Atomic!Valued(BoundTo(m, chain[Atomic!Min(ends) - 1]))
  BY <1>1, SameLookups DEF Atomic!OperandOf, Atomic!ELOOP, ELOOP
<1>3. ends = {n \in 1 .. Iterations - 1 : chain[n] = NULL}
  BY DEF Atomic!Ends
<1> HIDE DEF chain, x, ends
<1>4. ASSUME NEW n \in 1 .. Iterations - 1, chain[n] = NULL,
             \A j \in 1 .. n - 1 : chain[j] # NULL
      PROVE  LET found == LookupOf(BoundTo(m, chain[n-1])) IN
             /\ found.check # 0 => x.status = found.check
             /\ found.check = 0 => x = [status |-> 0, value |-> found.value]
  <2>1. n \in ends /\ \A j \in ends : n <= j
    BY <1>3, <1>4, Numbers
  <2>2. \A i \in ends : i \in Int /\ n \in Int
    BY <1>3, Numbers
  <2>3. PICK i \in ends : i = Atomic!Min(ends) /\ \A j \in ends : i <= j
    BY <2>1 DEF Atomic!Min
  <2>4. Atomic!Min(ends) = n
    BY <2>1, <2>2, <2>3
  <2> DEFINE b == BoundTo(m, chain[n-1])
  <2>5. x = Atomic!Valued(b)
    BY <1>2, <2>1, <2>4
  <2>6. b \in Bound
    <3>1. chain[n-1] \in Names
      BY ChainFollowsNames, Numbers DEF chain
    <3> QED
      BY <3>1, BoundTypes
  <2>7. LookupOf(b).name = NULL
    <3>1. n \in 1 .. Iterations
      BY Numbers
    <3>2. chain[n] = LookupOf(b).name
      BY <3>1, ChainFollowsNames DEF chain
    <3> QED
      BY <1>4, <3>2
  <2> HIDE DEF b
  <2>8. /\ b = Absent => Atomic!Valued(b).status = ENOENT
        /\ b # Absent => Atomic!Valued(b) = [status |-> 0, value |-> b.value]
    BY DEF Atomic!Valued, Atomic!Absent, Absent, Atomic!ENOENT, ENOENT
  <2>9. ENOENT # 0
    BY DEF ENOENT
  <2>10. /\ LookupOf(b).check # 0 => x.status = LookupOf(b).check
         /\ LookupOf(b).check = 0 => x = [status |-> 0, value |-> LookupOf(b).value]
    BY <2>5, <2>6, <2>7, <2>8, <2>9, LookupTypes
  <2> QED
    BY <2>10 DEF b
<1>5. (\A n \in 1 .. Iterations - 1 : chain[n] # NULL) => x.status = ELOOP
  BY <1>2, <1>3
<1> QED
  BY <1>4, <1>5 DEF chain, x, LoopValue

-----------------------------------------------------------------------------
(* Steps.                                                                  *)

\* What a step of another worker leaves alone.
Untouched(v) ==
  /\ pc'[v] = pc[v] /\ req'[v] = req[v] /\ side'[v] = side[v]
  /\ var'[v] = var[v] /\ temp'[v] = temp[v] /\ iter'[v] = iter[v]
  /\ val'[v] = val[v] /\ status'[v] = status[v] /\ result'[v] = result[v]

\* A pointer to a name is still good, or known to be stale.
NameStays(v) ==
  /\ name'[v] = name[v] \/ name'[v] = Unknown
  /\ name'[v] \in Keys => store'[name'[v]] = store[name'[v]]

(* What a request without variables computes with does not depend on the   *)
(* store.                                                                  *)
LEMMA OperandsWithoutStore ==
  ASSUME NEW r \in Requests, r.op \in Ops, ~ UsesStore(r), NEW s \in {"a", "b"}, NEW m
  PROVE  Atomic!OperandOf(m, r[s], r.recursive) = [status |-> 0, value |-> r[s].value]
<1>1. r \in Arithmetics
  BY RequestTypes
<1>2. r.a.flag # 1 /\ r.b.flag # 1
  BY DEF UsesStore
<1>3. r["a"] = r.a /\ r["b"] = r.b
  OBVIOUS
<1>4. r[s].flag = 0
  BY <1>1, <1>2, <1>3, OperandTypes
<1> QED
  BY <1>4, LiteralOperand

(* What a worker knows stays true while others take steps. *)
LEMMA OthersKnow ==
  ASSUME TypeOK, NEW v \in Workers, Knows(v), Untouched(v), NameStays(v),
         store' = store \/ ~ InSection(v)
  PROVE  Knows(v)'
<1>1. AtItsPlace(v)'
  BY DEF Knows, AtItsPlace, Untouched
<1>2. NameIsKnown(v)'
  BY NothingAssumption DEF Knows, NameIsKnown, Untouched, NameStays
<1>3. CASE store' = store
  <2>1. \A s \in {"a", "b"} : Value(v, s)' = Value(v, s) /\ (Resolved(v, s)' <=> Resolved(v, s))
    BY <1>3 DEF Value, Resolved, Untouched
  <2>2. OperandsInOrder(v)' /\ OperandsAreKnown(v)'
    BY <2>1 DEF Knows, OperandsInOrder, OperandsAreKnown, Untouched
  <2>3. Operand(v)' = Operand(v)
    BY DEF Operand, Untouched
  <2>4. ChainOf(v)' = ChainOf(v) /\ Lookup(Operand(v).name)' = Lookup(Operand(v).name)
    BY <1>3, <2>3 DEF ChainOf, Lookup
  <2>5. OnTheChain(v)'
    BY <2>3, <2>4 DEF Knows, OnTheChain, Untouched
  <2>6. InTheLoop(v)' /\ BehindTheLoop(v)'
    BY <2>4 DEF Knows, InTheLoop, BehindTheLoop, Untouched
  <2>7. ResultIsKnown(v)'
    BY <1>3 DEF Knows, ResultIsKnown, Untouched
  <2> QED
    BY <1>1, <1>2, <2>2, <2>5, <2>6, <2>7 DEF Knows
<1>4. CASE ~ InSection(v)
  <2>1. pc[v] \notin Section /\ pc'[v] = pc[v]
    BY <1>4 DEF InSection, Untouched
  <2>2. /\ OperandsInOrder(v)' /\ OnTheChain(v)' /\ InTheLoop(v)'
        /\ BehindTheLoop(v)' /\ ResultIsKnown(v)'
    BY <2>1 DEF Section, OperandsInOrder, OnTheChain, InTheLoop, BehindTheLoop, ResultIsKnown
  <2>3. OperandsAreKnown(v)'
    <3>1. SUFFICES ASSUME pc[v] = "compute" PROVE OperandsAreKnown(v)'
      BY <2>1 DEF OperandsAreKnown
    <3>2. req[v] \in Requests /\ req[v].op \in Ops /\ ~ UsesStore(req[v])
      BY <1>4, <3>1 DEF TypeOK, InSection, Knows, AtItsPlace
    <3>3. \A s \in {"a", "b"} : Value(v, s)' = Value(v, s)
      BY <3>2, OperandsWithoutStore, ZenonT(60) DEF Value, Untouched
    <3>4. \A s \in {"a", "b"} : Resolved(v, s)' <=> Resolved(v, s)
      BY <3>3 DEF Resolved, Untouched
    <3> QED
      BY <3>3, <3>4 DEF Knows, OperandsAreKnown, Untouched
  <2> QED
    BY <1>1, <1>2, <2>2, <2>3 DEF Knows
<1> QED
  BY <1>3, <1>4

(* A step of w keeps the invariant if it does so for w. *)
LEMMA StepOfOne ==
  ASSUME IInv, NEW w \in Workers, TypeOK', Knows(w)',
         \A v \in Workers \ {w} : Untouched(v) /\ NameStays(v) /\ (owner' = v <=> owner = v),
         InSection(w)' <=> owner' = w,
         store' = store \/ owner = w
  PROVE  IInv'
<1>1. ASSUME NEW v \in Workers
      PROVE  Knows(v)' /\ (InSection(v)' <=> owner' = v)
  <2>1. CASE v = w
    BY <2>1
  <2>2. CASE v # w
    <3>1. Untouched(v) /\ NameStays(v) /\ (owner' = v <=> owner = v)
      BY <2>2
    <3>2. InSection(v)' <=> InSection(v)
      BY <3>1 DEF InSection, Untouched
    <3>3. TypeOK /\ Knows(v) /\ (InSection(v) <=> owner = v)
      BY DEF IInv, MutexIsHeldInSections
    <3>4. store' = store \/ ~ InSection(v)
      BY <2>2, <3>3
    <3>5. Knows(v)'
      BY <3>1, <3>3, <3>4, OthersKnow
    <3> QED
      BY <3>1, <3>2, <3>3, <3>5
  <2> QED
    BY <2>1, <2>2
<1>2. (\A v \in Workers : Knows(v))' /\ MutexIsHeldInSections'
  BY <1>1 DEF MutexIsHeldInSections
<1> QED
  BY <1>2 DEF IInv

LEMMA InitKnows == Init => IInv
<1> SUFFICES ASSUME Init PROVE IInv
  OBVIOUS
<1>1. EmptyMap \in Map
  BY DEF EmptyMap, Map, Bound
<1>2. TypeOK
  BY <1>1, Numbers DEF Init, TypeOK, Section
<1>3. MutexIsHeldInSections
  BY Numbers DEF Init, MutexIsHeldInSections, InSection, Section
<1>4. ASSUME NEW w \in Workers PROVE Knows(w)
  BY DEF Init, Knows, AtItsPlace, OperandsInOrder, OnTheChain, InTheLoop, BehindTheLoop,
         OperandsAreKnown, ResultIsKnown, NameIsKnown, Section
<1> QED
  BY <1>2, <1>3, <1>4 DEF IInv

LEMMA ReceiveStep ==
  ASSUME IInv, NEW w \in Workers, Receive(w)
  PROVE  IInv'
<1>1. PICK r \in Requests :
        /\ req' = [req EXCEPT ![w] = r]
        /\ pc'  = [pc EXCEPT ![w] = IF UsesStore(r) THEN "lock" ELSE "compute"]
        /\ val' = [val EXCEPT ![w] =
                     IF r.op \in Ops THEN [a |-> Literal(r.a), b |-> Literal(r.b)] ELSE @]
  BY DEF Receive
<1>2. TypeOK /\ Knows(w) /\ (InSection(w) <=> owner = w)
  BY DEF IInv, MutexIsHeldInSections
<1>3. /\ pc[w] = "idle" /\ calls < MaxCalls /\ calls' = calls + 1
      /\ side' = [side EXCEPT ![w] = "a"] /\ status' = [status EXCEPT ![w] = 0]
      /\ result' = [result EXCEPT ![w] = 0] /\ name' = [name EXCEPT ![w] = NULL]
      /\ UNCHANGED <<store, owner, var, temp, iter>>
  BY DEF Receive, loop
<1>4. r.op \in Ops => Literal(r.a) \in Ints /\ Literal(r.b) \in Ints
  <2>1. r["a"] = r.a /\ r["b"] = r.b
    OBVIOUS
  <2> QED
    BY <2>1, RequestTypes, OperandTypes, Numbers DEF Literal
<1>5. TypeOK'
  BY <1>1, <1>2, <1>3, <1>4, Numbers DEF TypeOK
<1>6. \A v \in Workers \ {w} : Untouched(v) /\ NameStays(v) /\ (owner' = v <=> owner = v)
  BY <1>1, <1>2, <1>3 DEF Untouched, NameStays, TypeOK
<1>7. /\ pc'[w] = IF UsesStore(r) THEN "lock" ELSE "compute"
      /\ req'[w] = r /\ side'[w] = "a" /\ status'[w] = 0
      /\ r.op \in Ops => val'[w] = [a |-> Literal(r.a), b |-> Literal(r.b)]
  BY <1>1, <1>2, <1>3 DEF TypeOK
<1>8. ~ UsesStore(r) => r.op \in Ops
  BY DEF UsesStore
<1>9. InSection(w)' <=> owner' = w
  BY <1>2, <1>3, <1>7 DEF InSection, Section
<1>10. Knows(w)'
  <2>1. AtItsPlace(w)'
    BY <1>7, <1>8, RequestTypes DEF AtItsPlace, Section
  <2>2. /\ OperandsInOrder(w)' /\ OnTheChain(w)' /\ InTheLoop(w)'
        /\ BehindTheLoop(w)' /\ ResultIsKnown(w)' /\ NameIsKnown(w)'
    BY <1>7 DEF OperandsInOrder, OnTheChain, InTheLoop, BehindTheLoop, ResultIsKnown, NameIsKnown
  <2>3. OperandsAreKnown(w)'
    <3>1. CASE UsesStore(r)
      BY <1>7, <3>1 DEF OperandsAreKnown
    <3>2. CASE ~ UsesStore(r)
      <4>1. r.op \in Ops /\ r.a.flag # 1 /\ r.b.flag # 1 /\ r["a"] = r.a /\ r["b"] = r.b
        BY <1>8, <3>2 DEF UsesStore
      <4>2. r.a.flag = 0 /\ r.b.flag = 0
        BY <4>1, RequestTypes, OperandTypes
      <4>3. \A s \in {"a", "b"} : Value(w, s)' = [status |-> 0, value |-> r[s].value]
        BY <1>7, <3>2, <4>1, OperandsWithoutStore DEF Value
      <4>4. \A s \in {"a", "b"} : val'[w][s] = r[s].value
        BY <1>7, <4>1, <4>2 DEF Literal
      <4>5. Resolved(w, "a")' /\ Resolved(w, "b")'
        BY <4>3, <4>4 DEF Resolved
      <4> QED
        BY <1>7, <4>5 DEF OperandsAreKnown
    <3> QED
      BY <3>1, <3>2
  <2> QED
    BY <2>1, <2>2, <2>3 DEF Knows
<1> QED
  BY <1>3, <1>5, <1>6, <1>9, <1>10, StepOfOne

LEMMA LockStep ==
  ASSUME IInv, NEW w \in Workers, Lock(w)
  PROVE  IInv'
<1> DEFINE to == IF req[w].op \in Ops THEN "operand" ELSE req[w].op
<1>1. TypeOK /\ Knows(w)
  BY DEF IInv
<1>2. /\ owner = Free /\ owner' = w
      /\ pc[w] = "lock" /\ pc' = [pc EXCEPT ![w] = to]
      /\ UNCHANGED <<store, calls, req, side, var, temp, iter, val, status, result, name>>
  BY DEF Lock, Go, loop, reply
<1>3. req[w] \in Requests /\ UsesStore(req[w]) /\ status[w] = 0 /\ side[w] = "a"
  BY <1>1, <1>2 DEF TypeOK, Knows, AtItsPlace
<1>4. to \in {"operand", "get", "set", "delete"}
  BY <1>3, RequestTypes
<1>5. TypeOK'
  BY <1>1, <1>2, <1>4 DEF TypeOK, Section
<1>6. \A v \in Workers \ {w} : Untouched(v) /\ NameStays(v) /\ (owner' = v <=> owner = v)
  BY <1>1, <1>2, Numbers DEF Untouched, NameStays, TypeOK
<1>7. pc'[w] = to /\ req'[w] = req[w] /\ status'[w] = 0 /\ side'[w] = "a"
  BY <1>1, <1>2, <1>3 DEF TypeOK
<1>8. InSection(w)' <=> owner' = w
  BY <1>2, <1>4, <1>7 DEF InSection, Section
<1>9. Knows(w)'
  <2>1. AtItsPlace(w)'
    BY <1>3, <1>4, <1>7, RequestTypes DEF AtItsPlace, Section
  <2>2. /\ OperandsInOrder(w)' /\ OnTheChain(w)' /\ InTheLoop(w)'
        /\ BehindTheLoop(w)' /\ ResultIsKnown(w)' /\ NameIsKnown(w)' /\ OperandsAreKnown(w)'
    BY <1>4, <1>7 DEF OperandsInOrder, OnTheChain, InTheLoop, BehindTheLoop, ResultIsKnown,
                      NameIsKnown, OperandsAreKnown
  <2> QED
    BY <2>1, <2>2 DEF Knows
<1> QED
  BY <1>2, <1>5, <1>6, <1>8, <1>9, StepOfOne

LEMMA UnlockStep ==
  ASSUME IInv, NEW w \in Workers, Unlock(w)
  PROVE  IInv'
<1>1. TypeOK /\ Knows(w) /\ (InSection(w) <=> owner = w)
  BY DEF IInv, MutexIsHeldInSections
<1>2. /\ owner' = Free /\ pc[w] = "unlock" /\ pc' = [pc EXCEPT ![w] = "reply"]
      /\ UNCHANGED <<store, calls, req, side, var, temp, iter, val, status, result, name>>
  BY DEF Unlock, Go, loop, reply
<1>3. owner = w
  BY <1>1, <1>2 DEF InSection, Section
<1>4. TypeOK'
  BY <1>1, <1>2 DEF TypeOK, Section
<1>5. \A v \in Workers \ {w} : Untouched(v) /\ NameStays(v) /\ (owner' = v <=> owner = v)
  BY <1>1, <1>2, <1>3, Numbers DEF Untouched, NameStays, TypeOK
<1>6. pc'[w] = "reply"
  BY <1>1, <1>2 DEF TypeOK
<1>7. InSection(w)' <=> owner' = w
  BY <1>2, <1>6, Numbers DEF InSection, Section
<1>8. Knows(w)'
  <2>1. AtItsPlace(w)' /\ NameIsKnown(w)'
    BY <1>1, <1>2, <1>6 DEF Knows, AtItsPlace, NameIsKnown, Section
  <2>2. /\ OperandsInOrder(w)' /\ OnTheChain(w)' /\ InTheLoop(w)'
        /\ BehindTheLoop(w)' /\ ResultIsKnown(w)' /\ OperandsAreKnown(w)'
    BY <1>6 DEF OperandsInOrder, OnTheChain, InTheLoop, BehindTheLoop, ResultIsKnown,
                OperandsAreKnown
  <2> QED
    BY <2>1, <2>2 DEF Knows
<1> QED
  BY <1>2, <1>4, <1>5, <1>7, <1>8, StepOfOne

LEMMA ReplyStep ==
  ASSUME IInv, NEW w \in Workers, Reply(w)
  PROVE  IInv'
<1>1. TypeOK /\ Knows(w) /\ (InSection(w) <=> owner = w)
  BY DEF IInv, MutexIsHeldInSections
<1>2. /\ pc[w] = "reply" /\ pc' = [pc EXCEPT ![w] = "idle"]
      /\ req' = [req EXCEPT ![w] = None] /\ name' = [name EXCEPT ![w] = NULL]
      /\ UNCHANGED <<store, owner, calls, side, var, temp, iter, val, status, result>>
  BY DEF Reply, Go, loop, reply
<1>3. TypeOK'
  BY <1>1, <1>2 DEF TypeOK
<1>4. \A v \in Workers \ {w} : Untouched(v) /\ NameStays(v) /\ (owner' = v <=> owner = v)
  BY <1>1, <1>2 DEF Untouched, NameStays, TypeOK
<1>5. pc'[w] = "idle" /\ req'[w] = None
  BY <1>1, <1>2 DEF TypeOK
<1>6. InSection(w)' <=> owner' = w
  BY <1>1, <1>2, <1>5 DEF InSection, Section
<1>7. Knows(w)'
  BY <1>5 DEF Knows, AtItsPlace, NameIsKnown, OperandsInOrder, OnTheChain, InTheLoop,
              BehindTheLoop, ResultIsKnown, OperandsAreKnown, Section
<1> QED
  BY <1>2, <1>3, <1>4, <1>6, <1>7, StepOfOne

-----------------------------------------------------------------------------
(* Steps of an arithmetic request.                                         *)

LEMMA LookupIs ==
  ASSUME TypeOK, NEW k \in Names
  PROVE  Lookup(k) = LookupOf(BoundTo(store, k)) /\ BoundTo(store, k) \in Bound
<1>1. store \in Map
  BY DEF TypeOK
<1> QED
  BY <1>1, BoundTypes DEF Lookup, BoundTo

\* Where operands are resolved.
LEMMA ResolvingIs ==
  ASSUME IInv, NEW w \in Workers, pc[w] \in {"operand", "loop", "end"}
  PROVE  /\ TypeOK /\ Knows(w) /\ owner = w /\ store \in Map
         /\ req[w] \in Arithmetics /\ UsesStore(req[w]) /\ status[w] = 0
         /\ side[w] \in {"a", "b"}
         /\ \/ Operand(w).flag = 0 /\ Operand(w).value \in Ints
            \/ Operand(w).flag = 1 /\ Operand(w).name \in Names
         /\ Value(w, side[w]) = Atomic!OperandOf(store, Operand(w), req[w].recursive)
         /\ req[w].recursive \in BOOLEAN
<1>1. TypeOK /\ Knows(w) /\ (InSection(w) <=> owner = w)
  BY DEF IInv, MutexIsHeldInSections
<1>2. owner = w /\ store \in Map /\ side[w] \in {"a", "b"}
  BY <1>1 DEF TypeOK, InSection, Section
<1>3. /\ req[w] \in Requests \cup {None} /\ req[w] # None /\ req[w].op \in Ops
      /\ UsesStore(req[w]) /\ status[w] = 0
  BY <1>1 DEF TypeOK, Knows, AtItsPlace, Section
<1>4. req[w] \in Arithmetics
  BY <1>3, RequestTypes
<1> QED
  BY <1>1, <1>2, <1>3, <1>4, OperandTypes DEF Operand, Value

LEMMA FailStep ==
  ASSUME IInv, NEW w \in Workers, pc[w] \in {"operand", "end"},
         NEW s \in {ENOENT, EFAULT, ELOOP}, Fail(w, s), Value(w, side[w]).status = s,
         UNCHANGED <<store, owner, calls, req, loop, result, name>>
  PROVE  IInv'
<1>1. /\ TypeOK /\ Knows(w) /\ owner = w /\ side[w] \in {"a", "b"}
      /\ UsesStore(req[w]) /\ s # 0
  BY ResolvingIs DEF ENOENT, EFAULT, ELOOP
<1>2. /\ pc' = [pc EXCEPT ![w] = "compute"] /\ status' = [status EXCEPT ![w] = s]
      /\ UNCHANGED <<store, owner, calls, req, side, var, temp, iter, val, result, name>>
  BY DEF Fail, loop
<1>3. TypeOK'
  BY <1>1, <1>2 DEF TypeOK
<1>4. \A v \in Workers \ {w} : Untouched(v) /\ NameStays(v) /\ (owner' = v <=> owner = v)
  BY <1>1, <1>2 DEF Untouched, NameStays, TypeOK
<1>5. pc'[w] = "compute" /\ status'[w] = s /\ req' = req /\ store' = store
  BY <1>1, <1>2 DEF TypeOK
<1>6. InSection(w)' <=> owner' = w
  BY <1>1, <1>2, <1>5 DEF InSection
<1>7. Knows(w)'
  <2>1. AtItsPlace(w)'
    BY <1>1, <1>5 DEF Knows, AtItsPlace, Section
  <2>2. /\ OperandsInOrder(w)' /\ OnTheChain(w)' /\ InTheLoop(w)'
        /\ BehindTheLoop(w)' /\ ResultIsKnown(w)' /\ NameIsKnown(w)'
    BY <1>5 DEF OperandsInOrder, OnTheChain, InTheLoop, BehindTheLoop, ResultIsKnown, NameIsKnown
  <2>3. \A x \in {"a", "b"} : Value(w, x)' = Value(w, x)
    BY <1>5 DEF Value
  <2>4. side[w] = "b" => Value(w, "a").status = 0
    BY DEF IInv, Knows, OperandsInOrder, Resolved
  <2>5. OperandsAreKnown(w)'
    BY <1>1, <1>5, <2>3, <2>4 DEF OperandsAreKnown
  <2> QED
    BY <2>1, <2>2, <2>5 DEF Knows
<1> QED
  BY <1>2, <1>3, <1>4, <1>6, <1>7, StepOfOne

LEMMA TakeStep ==
  ASSUME IInv, NEW w \in Workers, pc[w] \in {"operand", "end"},
         NEW x \in Ints, Take(w, x), Value(w, side[w]) = [status |-> 0, value |-> x],
         UNCHANGED <<store, owner, calls, req, loop, result, name>>
  PROVE  IInv'
<1>1. /\ TypeOK /\ Knows(w) /\ owner = w /\ side[w] \in {"a", "b"}
      /\ UsesStore(req[w]) /\ status[w] = 0
  BY ResolvingIs
<1> DEFINE to == IF side[w] = "a" THEN "operand" ELSE "compute"
<1>2. /\ pc' = [pc EXCEPT ![w] = to] /\ side' = [side EXCEPT ![w] = "b"]
      /\ val' = [val EXCEPT ![w][side[w]] = x]
      /\ UNCHANGED <<store, owner, calls, req, var, temp, iter, status, result, name>>
  BY DEF Take, loop
<1>3. val \in [Workers -> [a : Ints, b : Ints]]
  BY <1>1 DEF TypeOK
<1>4. /\ val' \in [Workers -> [a : Ints, b : Ints]]
      /\ \A v \in Workers \ {w} : val'[v] = val[v]
      /\ val'[w][side[w]] = x
      /\ side[w] = "b" => val'[w]["a"] = val[w]["a"]
  <2>1. val' = [val EXCEPT ![w] = [val[w] EXCEPT ![side[w]] = x]]
    BY <1>2
  <2>2. [val[w] EXCEPT ![side[w]] = x] \in [a : Ints, b : Ints]
    BY <1>1, <1>3
  <2> QED
    BY <1>1, <1>3, <2>1, <2>2
<1>5. TypeOK'
  BY <1>1, <1>2, <1>4 DEF TypeOK, Section
<1>6. \A v \in Workers \ {w} : Untouched(v) /\ NameStays(v) /\ (owner' = v <=> owner = v)
  BY <1>1, <1>2, <1>4 DEF Untouched, NameStays, TypeOK
<1>7. pc'[w] = to /\ side'[w] = "b" /\ status'[w] = 0 /\ req' = req /\ store' = store
  BY <1>1, <1>2 DEF TypeOK
<1>8. InSection(w)' <=> owner' = w
  BY <1>1, <1>2, <1>7 DEF InSection, Section
<1>9. Knows(w)'
  <2>1. AtItsPlace(w)'
    BY <1>1, <1>7 DEF Knows, AtItsPlace, Section
  <2>2. /\ OnTheChain(w)' /\ InTheLoop(w)'
        /\ BehindTheLoop(w)' /\ ResultIsKnown(w)' /\ NameIsKnown(w)'
    BY <1>7 DEF OnTheChain, InTheLoop, BehindTheLoop, ResultIsKnown, NameIsKnown
  <2>3. \A y \in {"a", "b"} : Value(w, y)' = Value(w, y)
    BY <1>7 DEF Value
  <2>4. CASE side[w] = "a"
    <3>1. Resolved(w, "a")'
      BY <1>4, <2>3, <2>4 DEF Resolved
    <3>2. OperandsInOrder(w)' /\ OperandsAreKnown(w)'
      BY <1>7, <2>4, <3>1 DEF OperandsInOrder, OperandsAreKnown
    <3> QED
      BY <2>1, <2>2, <3>2 DEF Knows
  <2>5. CASE side[w] = "b"
    <3>1. Resolved(w, "b")'
      BY <1>4, <2>3, <2>5 DEF Resolved
    <3>2. Resolved(w, "a")
      BY <1>1, <2>5 DEF Knows, OperandsInOrder
    <3>3. Resolved(w, "a")'
      BY <1>4, <2>3, <2>5, <3>2 DEF Resolved
    <3>4. OperandsInOrder(w)' /\ OperandsAreKnown(w)'
      BY <1>7, <2>5, <3>1, <3>3 DEF OperandsInOrder, OperandsAreKnown
    <3> QED
      BY <2>1, <2>2, <3>4 DEF Knows
  <2> QED
    BY <1>1, <2>4, <2>5
<1> QED
  BY <1>2, <1>5, <1>6, <1>8, <1>9, StepOfOne

LEMMA ResolveOperandStep ==
  ASSUME IInv, NEW w \in Workers, ResolveOperand(w)
  PROVE  IInv'
<1> DEFINE o == Operand(w)
    found == Lookup(o.name)
<1>1. /\ pc[w] = "operand"
      /\ UNCHANGED <<store, owner, calls, req, loop, result, name>>
      /\ \/ o.flag = 0 /\ Take(w, o.value)
         \/ o.flag = 1 /\ found.check # 0 /\ Fail(w, found.check)
         \/ o.flag = 1 /\ found.flag = 0 /\ Take(w, found.value)
         \/ o.flag = 1 /\ found.flag = 1 /\ ~req[w].recursive /\ Fail(w, EFAULT)
  BY DEF ResolveOperand
<1>2. /\ TypeOK /\ store \in Map
      /\ \/ o.flag = 0 /\ o.value \in Ints
         \/ o.flag = 1 /\ o.name \in Names
      /\ Value(w, side[w]) = Atomic!OperandOf(store, o, req[w].recursive)
  BY <1>1, ResolvingIs
<1> HIDE DEF o
<1>3. CASE o.flag = 0 /\ Take(w, o.value)
  <2>1. Value(w, side[w]) = [status |-> 0, value |-> o.value] /\ o.value \in Ints
    BY <1>2, <1>3, LiteralOperand
  <2> QED
    BY <1>1, <1>3, <2>1, TakeStep
<1>4. CASE o.flag = 1 /\ found.check # 0 /\ Fail(w, found.check)
  <2>1. Value(w, side[w]).status = found.check
    BY <1>2, <1>4, LookupIs, NamedOperand
  <2>2. found.check \in {ENOENT, EFAULT, ELOOP}
    BY <1>2, <1>4, LookupIs, LookupTypes
  <2> QED
    BY <1>1, <1>4, <2>1, <2>2, FailStep
<1>5. CASE o.flag = 1 /\ found.flag = 0 /\ Take(w, found.value)
  <2>1. Value(w, side[w]) = [status |-> 0, value |-> found.value]
    BY <1>2, <1>5, LookupIs, NamedOperand
  <2>2. found.value \in Ints
    BY <1>2, <1>5, LookupIs, LookupTypes DEF ENOENT
  <2> QED
    BY <1>1, <1>5, <2>1, <2>2, TakeStep
<1>6. CASE o.flag = 1 /\ found.flag = 1 /\ ~req[w].recursive /\ Fail(w, EFAULT)
  <2>1. Value(w, side[w]).status = EFAULT
    BY <1>2, <1>6, LookupIs, NamedOperand
  <2> QED
    BY <1>1, <1>6, <2>1, FailStep
<1> QED
  BY <1>1, <1>3, <1>4, <1>5, <1>6

LEMMA StartLoopStep ==
  ASSUME IInv, NEW w \in Workers, StartLoop(w)
  PROVE  IInv'
<1> DEFINE o == Operand(w)
<1>1. /\ pc[w] = "operand" /\ pc' = [pc EXCEPT ![w] = "loop"]
      /\ o.flag = 1 /\ Lookup(o.name).flag = 1 /\ req[w].recursive
      /\ iter' = [iter EXCEPT ![w] = 0] /\ temp' = [temp EXCEPT ![w] = o.name]
      /\ UNCHANGED <<store, owner, calls, req, side, var, val, status, result, name>>
  BY DEF StartLoop, Go, reply
<1>2. /\ TypeOK /\ Knows(w) /\ owner = w /\ o.name \in Names
      /\ UsesStore(req[w]) /\ status[w] = 0 /\ store \in Map
  BY <1>1, ResolvingIs
<1>3. TypeOK'
  BY <1>1, <1>2, Numbers DEF TypeOK, Section, Names
<1>4. \A v \in Workers \ {w} : Untouched(v) /\ NameStays(v) /\ (owner' = v <=> owner = v)
  BY <1>1, <1>2 DEF Untouched, NameStays, TypeOK
<1>5. /\ pc'[w] = "loop" /\ iter'[w] = 0 /\ temp'[w] = o.name
      /\ req' = req /\ store' = store /\ status' = status /\ side' = side /\ val' = val
  BY <1>1, <1>2 DEF TypeOK
<1>6. InSection(w)' <=> owner' = w
  BY <1>1, <1>2, <1>5 DEF InSection, Section
<1>7. Knows(w)'
  <2>1. AtItsPlace(w)'
    BY <1>1, <1>2, <1>5 DEF Knows, AtItsPlace, Section
  <2>2. OperandsInOrder(w)'
    BY <1>1, <1>2, <1>5 DEF Knows, OperandsInOrder, Resolved, Value
  <2>3. BehindTheLoop(w)' /\ ResultIsKnown(w)' /\ NameIsKnown(w)' /\ OperandsAreKnown(w)'
    BY <1>5 DEF BehindTheLoop, ResultIsKnown, NameIsKnown, OperandsAreKnown
  <2>4. InTheLoop(w)'
    <3>1. o.name # NULL
      BY <1>1 DEF Lookup, LookupOf, Absent, ENOENT
    <3> QED
      BY <1>5, <3>1 DEF InTheLoop
  <2>5. OnTheChain(w)'
    <3>1. Operand(w)' = o /\ ChainOf(w)' = ChainOf(w) /\ Lookup(o.name)' = Lookup(o.name)
      BY <1>5 DEF Operand, ChainOf, Lookup
    <3>2. ChainOf(w)[0] = o.name
      BY <1>2, ChainFollowsNames DEF ChainOf
    <3> QED
      BY <1>1, <1>5, <3>1, <3>2 DEF OnTheChain
  <2> QED
    BY <2>1, <2>2, <2>3, <2>4, <2>5 DEF Knows
<1> QED
  BY <1>1, <1>3, <1>4, <1>6, <1>7, StepOfOne

LEMMA FollowStep ==
  ASSUME IInv, NEW w \in Workers, Follow(w)
  PROVE  IInv'
<1> DEFINE o == Operand(w)
    next == Lookup(temp[w]).name
    to == IF next # NULL /\ iter[w] + 1 < Iterations THEN "loop" ELSE "end"
<1>1. /\ pc[w] = "loop" /\ pc' = [pc EXCEPT ![w] = to]
      /\ var' = [var EXCEPT ![w] = temp[w]] /\ temp' = [temp EXCEPT ![w] = next]
      /\ iter' = [iter EXCEPT ![w] = iter[w] + 1]
      /\ UNCHANGED <<store, owner, calls, req, side, val, status, result, name>>
  BY DEF Follow, Go, reply
<1>2. /\ TypeOK /\ Knows(w) /\ owner = w /\ UsesStore(req[w]) /\ status[w] = 0
      /\ store \in Map /\ (o.flag = 1 => o.name \in Names)
  BY <1>1, ResolvingIs
<1>3. /\ temp[w] \in Names /\ temp[w] # NULL /\ iter[w] \in Nat
      /\ iter[w] = 0 \/ iter[w] < Iterations
  BY <1>1, <1>2 DEF TypeOK, Names, Knows, InTheLoop
<1>4. /\ o.flag = 1 /\ o.name \in Names /\ iter[w] <= Iterations
      /\ \A n \in 0 .. Iterations : n < iter[w] => ChainOf(w)[n] # NULL
      /\ temp[w] = ChainOf(w)[iter[w]]
  BY <1>1, <1>2, <1>3, Numbers DEF Knows, OnTheChain
<1>5. next \in Names /\ next = LookupOf(BoundTo(store, temp[w])).name
  BY <1>2, <1>3, LookupIs, LookupTypes DEF Names
<1> HIDE DEF next
<1>6. TypeOK'
  BY <1>1, <1>2, <1>3, <1>5 DEF TypeOK, Section, Names
<1>7. \A v \in Workers \ {w} : Untouched(v) /\ NameStays(v) /\ (owner' = v <=> owner = v)
  BY <1>1, <1>2 DEF Untouched, NameStays, TypeOK
<1>8. /\ pc'[w] = to /\ iter'[w] = iter[w] + 1 /\ var'[w] = temp[w] /\ temp'[w] = next
      /\ req' = req /\ store' = store /\ status' = status /\ side' = side /\ val' = val
  BY <1>1, <1>2 DEF TypeOK
<1>9. InSection(w)' <=> owner' = w
  BY <1>1, <1>2, <1>8 DEF InSection, Section
<1>10. Knows(w)'
  <2>1. AtItsPlace(w)'
    BY <1>1, <1>2, <1>8 DEF Knows, AtItsPlace, Section
  <2>2. OperandsInOrder(w)'
    BY <1>1, <1>2, <1>8 DEF Knows, OperandsInOrder, Resolved, Value
  <2>3. ResultIsKnown(w)' /\ NameIsKnown(w)' /\ OperandsAreKnown(w)'
    BY <1>8 DEF ResultIsKnown, NameIsKnown, OperandsAreKnown
  <2>4. InTheLoop(w)'
    BY <1>8 DEF InTheLoop
  <2>5. Operand(w)' = o /\ ChainOf(w)' = ChainOf(w) /\ Lookup(o.name)' = Lookup(o.name)
    BY <1>8 DEF Operand, ChainOf, Lookup
  <2>6. iter[w] + 1 <= Iterations => next = ChainOf(w)[iter[w] + 1]
    <3>1. SUFFICES ASSUME iter[w] + 1 <= Iterations PROVE next = ChainOf(w)[iter[w] + 1]
      OBVIOUS
    <3>2. iter[w] + 1 \in 1 .. Iterations /\ (iter[w] + 1) - 1 = iter[w]
      BY <1>3, <3>1, Numbers
    <3> QED
      BY <1>2, <1>4, <1>5, <3>2, ChainFollowsNames DEF ChainOf
  <2>7. \A n \in 0 .. Iterations : n < iter[w] + 1 => ChainOf(w)[n] # NULL
    <3>1. \A n \in 0 .. Iterations : n < iter[w] + 1 => n < iter[w] \/ n = iter[w]
      BY <1>3, Numbers
    <3> QED
      BY <1>3, <1>4, <3>1
  <2>8. OnTheChain(w)'
    <3>1. o.flag = 1 /\ req[w].recursive /\ Lookup(o.name).flag = 1
      BY <1>1, <1>2 DEF Knows, OnTheChain
    <3> QED
      BY <1>8, <2>5, <2>6, <2>7, <3>1 DEF OnTheChain
  <2>9. BehindTheLoop(w)'
    <3>1. to = "end" => next = NULL \/ iter[w] + 1 >= Iterations
      BY <1>3, Numbers
    <3>2. iter[w] + 1 > 0 /\ (iter[w] + 1) - 1 = iter[w]
      BY <1>3
    <3> HIDE DEF to
    <3> QED
      BY <1>4, <1>8, <2>5, <3>1, <3>2 DEF BehindTheLoop
  <2> QED
    BY <2>1, <2>2, <2>3, <2>4, <2>8, <2>9 DEF Knows
<1> QED
  BY <1>1, <1>6, <1>7, <1>9, <1>10, StepOfOne

LEMMA EndLoopStep ==
  ASSUME IInv, NEW w \in Workers, EndLoop(w)
  PROVE  IInv'
<1> DEFINE o == Operand(w)
    found == Lookup(var[w])
    x == Value(w, side[w])
<1>1. /\ pc[w] = "end"
      /\ UNCHANGED <<store, owner, calls, req, loop, result, name>>
      /\ \/ iter[w] >= Iterations /\ Fail(w, ELOOP)
         \/ iter[w] < Iterations /\ found.value = ENOENT /\ found.check # 0 /\ Fail(w, found.check)
         \/ iter[w] < Iterations /\ (found.value # ENOENT \/ found.check = 0) /\ Take(w, found.value)
  BY DEF EndLoop
<1>2. /\ TypeOK /\ Knows(w) /\ store \in Map /\ (o.flag = 1 => o.name \in Names)
      /\ x = Atomic!OperandOf(store, o, req[w].recursive)
  BY <1>1, ResolvingIs
<1>3. /\ o.flag = 1 /\ o.name \in Names /\ req[w].recursive /\ Lookup(o.name).flag = 1
      /\ \A n \in 0 .. Iterations : n < iter[w] => ChainOf(w)[n] # NULL
      /\ iter[w] <= Iterations => temp[w] = ChainOf(w)[iter[w]]
      /\ iter[w] > 0 /\ (iter[w] <= Iterations => var[w] = ChainOf(w)[iter[w] - 1])
      /\ temp[w] = NULL \/ iter[w] >= Iterations
      /\ iter[w] \in Nat /\ var[w] \in Names
  BY <1>1, <1>2 DEF Knows, OnTheChain, BehindTheLoop, TypeOK, Names
<1>4. LookupOf(BoundTo(store, o.name)).flag = 1
  BY <1>2, <1>3, LookupIs
<1>5. found = LookupOf(BoundTo(store, var[w])) /\ BoundTo(store, var[w]) \in Bound
  BY <1>2, <1>3, LookupIs
<1>6. LoopValue(store, ChainOf(w), x)
  <2>1. req[w].recursive = TRUE
    BY <1>1, <1>3, ResolvingIs
  <2> QED
    BY <1>2, <1>3, <1>4, <2>1, ChainedOperand DEF ChainOf
<1>7. CASE iter[w] >= Iterations /\ Fail(w, ELOOP)
  <2>1. \A n \in 1 .. Iterations - 1 : ChainOf(w)[n] # NULL
    <3>1. \A n \in 1 .. Iterations - 1 : n \in 0 .. Iterations /\ n < iter[w]
      BY <1>3, <1>7, Numbers
    <3> QED
      BY <1>3, <3>1
  <2>2. x.status = ELOOP
    BY <1>6, <2>1 DEF LoopValue
  <2> QED
    BY <1>1, <1>7, <2>2, FailStep
<1>8. CASE iter[w] < Iterations
  <2>1. iter[w] \in 1 .. Iterations - 1 /\ iter[w] <= Iterations
    BY <1>3, <1>8, Numbers
  <2>2. ChainOf(w)[iter[w]] = NULL /\ var[w] = ChainOf(w)[iter[w] - 1]
    BY <1>3, <2>1, Numbers
  <2>3. \A j \in 1 .. iter[w] - 1 : ChainOf(w)[j] # NULL
    <3>1. \A j \in 1 .. iter[w] - 1 : j \in 0 .. Iterations /\ j < iter[w]
      BY <2>1, Numbers
    <3> QED
      BY <1>3, <3>1
  <2>4. found.name = NULL
    <3>1. iter[w] \in 1 .. Iterations
      BY <2>1, Numbers
    <3>2. ChainOf(w)[iter[w]] = LookupOf(BoundTo(store, ChainOf(w)[iter[w] - 1])).name
      BY <1>2, <1>3, <3>1, ChainFollowsNames DEF ChainOf
    <3> QED
      BY <1>5, <2>2, <3>2
  <2>5. /\ found.check # 0 => x.status = found.check
        /\ found.check = 0 => x = [status |-> 0, value |-> found.value]
    BY <1>5, <1>6, <2>1, <2>2, <2>3 DEF LoopValue
  <2>6. \/ found.check = 0 /\ found.value \in Ints
        \/ found.check = ENOENT /\ found.value = ENOENT
    BY <1>5, <2>4, LookupTypes
  <2> HIDE DEF found, x
  <2>7. CASE found.check # 0 /\ Fail(w, found.check)
    BY <1>1, <2>5, <2>6, <2>7, FailStep DEF x
  <2>8. CASE found.check = 0 /\ Take(w, found.value)
    <3>1. found.value \in Ints
      BY <2>6, <2>8 DEF ENOENT
    <3>2. Value(w, side[w]) = [status |-> 0, value |-> found.value]
      BY <2>5, <2>8 DEF x
    <3> QED
      BY <1>1, <2>8, <3>1, <3>2, TakeStep
  <2>9. \/ found.value = ENOENT /\ found.check # 0 /\ Fail(w, found.check)
        \/ (found.value # ENOENT \/ found.check = 0) /\ Take(w, found.value)
    <3>1. ~ (iter[w] >= Iterations)
      BY <1>3, <1>8, Numbers
    <3> QED
      BY <1>1, <3>1 DEF found
  <2>10. ENOENT # 0
    BY DEF ENOENT
  <2> QED
    BY <2>6, <2>7, <2>8, <2>9, <2>10
<1> QED
  BY <1>1, <1>7, <1>8

\* What Compute makes of the operands.
Outcome(w) == Called(req[w].op, val[w].a, val[w].b)

OutcomeStatus(w) ==
  IF status[w] # 0 THEN status[w]
  ELSE StatusOf(req[w].op, val[w].a, val[w].b, Outcome(w))

LEMMA ComputingIs ==
  ASSUME IInv, NEW w \in Workers, pc[w] = "compute"
  PROVE  /\ TypeOK /\ Knows(w) /\ store \in Map
         /\ req[w] \in Requests /\ req[w] \in Arithmetics
         /\ (UsesStore(req[w]) <=> owner = w)
         /\ Outcome(w) \in Ints
         /\ OutcomeStatus(w) \in {0, ENOENT, EFAULT, ELOOP, EOVERFLOW, EINVAL}
<1>1. TypeOK /\ Knows(w) /\ (InSection(w) <=> owner = w)
  BY DEF IInv, MutexIsHeldInSections
<1>2. req[w] \in Requests \cup {None} /\ req[w] # None /\ req[w].op \in Ops
  BY <1>1 DEF TypeOK, Knows, AtItsPlace, Section
<1>3. val[w] \in [a : Ints, b : Ints]
  BY <1>1 DEF TypeOK
<1>4. Outcome(w) \in Ints
  BY <1>2, <1>3, CalledIsInt DEF Outcome
<1>5. StatusOf(req[w].op, val[w].a, val[w].b, Outcome(w)) \in {0, EOVERFLOW, EINVAL}
  BY DEF StatusOf
<1>6. OutcomeStatus(w) \in {0, ENOENT, EFAULT, ELOOP, EOVERFLOW, EINVAL}
  BY <1>1, <1>5 DEF OutcomeStatus, TypeOK
<1>7. UsesStore(req[w]) <=> owner = w
  BY <1>1 DEF InSection, Section
<1> QED
  BY <1>1, <1>2, <1>4, <1>6, <1>7, RequestTypes DEF TypeOK

\* It is what the request is to be answered.
LEMMA OutcomeIsAnswer ==
  ASSUME IInv, NEW w \in Workers, pc[w] = "compute"
  PROVE  Atomic!Answer(store, req[w]) =
           IF OutcomeStatus(w) # 0 THEN [status |-> OutcomeStatus(w)]
           ELSE [status |-> 0, result |-> Outcome(w)]
<1> DEFINE r == req[w]
    x == Atomic!OperandOf(store, r.a, r.recursive)
    y == Atomic!OperandOf(store, r.b, r.recursive)
    z == Called(r.op, x.value, y.value)
    s == StatusOf(r.op, x.value, y.value, z)
<1>1. r.op \in Ops /\ Ops = Atomic!Ops
  BY ComputingIs DEF Arithmetics, Ops, Atomic!Ops
<1>2. Atomic!Answer(store, r) = Atomic!Arithmetic(store, r)
  <2>1. r.op \in Atomic!Ops /\ r.op # "set" /\ r.op # "delete" /\ r.op # "get"
    BY <1>1 DEF Ops
  <2> QED
    BY <2>1 DEF Atomic!Answer
<1>3. Atomic!Arithmetic(store, r) =
        IF x.status # 0 THEN [status |-> x.status]
        ELSE IF y.status # 0 THEN [status |-> y.status]
        ELSE IF s # 0 THEN [status |-> s]
        ELSE [status |-> 0, result |-> z]
  BY SameFunctions DEF Atomic!Arithmetic, Atomic!Refusal
<1>4. Value(w, "a") = x /\ Value(w, "b") = y
  BY DEF Value
<1>5. val[w]["a"] = val[w].a /\ val[w]["b"] = val[w].b
  OBVIOUS
<1>6. \/ status[w] = 0 /\ x.status = 0 /\ x.value = val[w].a /\ y.status = 0 /\ y.value = val[w].b
      \/ status[w] # 0 /\ x.status = status[w]
      \/ status[w] # 0 /\ x.status = 0 /\ y.status = status[w]
  <2>1. Knows(w)
    BY DEF IInv
  <2> HIDE DEF x, y
  <2> QED
    BY <1>4, <1>5, <2>1 DEF Knows, OperandsAreKnown, Resolved
<1> HIDE DEF x, y
<1> QED
  BY <1>2, <1>3, <1>6 DEF OutcomeStatus, Outcome

LEMMA ComputeStep ==
  ASSUME IInv, NEW w \in Workers, Compute(w)
  PROVE  IInv'
<1> DEFINE r == req[w]
    z == Outcome(w)
    s == OutcomeStatus(w)
    to == IF ~UsesStore(r) THEN "reply"
          ELSE IF r.res # NULL /\ s = 0 THEN "insert"
          ELSE "unlock"
<1>1. /\ pc[w] = "compute" /\ pc' = [pc EXCEPT ![w] = to]
      /\ result' = [result EXCEPT ![w] = z] /\ status' = [status EXCEPT ![w] = s]
      /\ UNCHANGED <<store, owner, calls, req, side, var, temp, iter, val, name>>
  BY DEF Compute, Go, loop, Outcome, OutcomeStatus
<1>2. /\ TypeOK /\ Knows(w) /\ (UsesStore(r) <=> owner = w) /\ r \in Requests
      /\ z \in Ints /\ s \in {0, ENOENT, EFAULT, ELOOP, EOVERFLOW, EINVAL} /\ r.op \in Ops
  BY <1>1, ComputingIs DEF Arithmetics
<1>3. Atomic!Answer(store, r) =
        IF s # 0 THEN [status |-> s] ELSE [status |-> 0, result |-> z]
  BY <1>1, OutcomeIsAnswer
<1> HIDE DEF z, s
<1>4. TypeOK'
  BY <1>1, <1>2 DEF TypeOK, Section
<1>5. \A v \in Workers \ {w} : Untouched(v) /\ NameStays(v) /\ (owner' = v <=> owner = v)
  BY <1>1, <1>2 DEF Untouched, NameStays, TypeOK
<1>6. pc'[w] = to /\ req' = req /\ store' = store /\ status'[w] = s /\ result'[w] = z
  BY <1>1, <1>2 DEF TypeOK
<1>7. InSection(w)' <=> owner' = w
  BY <1>1, <1>2, <1>6 DEF InSection, Section
<1>8. Knows(w)'
  <2>1. AtItsPlace(w)'
    BY <1>2, <1>6, RequestTypes DEF AtItsPlace, Section
  <2>2. /\ OperandsInOrder(w)' /\ OnTheChain(w)' /\ InTheLoop(w)'
        /\ BehindTheLoop(w)' /\ OperandsAreKnown(w)'
    BY <1>6 DEF OperandsInOrder, OnTheChain, InTheLoop, BehindTheLoop, OperandsAreKnown
  <2>3. NameIsKnown(w)'
    BY <1>2, <1>6 DEF NameIsKnown, Ops
  <2>4. ResultIsKnown(w)'
    <3>1. to = "insert" => s = 0
      OBVIOUS
    <3> HIDE DEF to
    <3> QED
      BY <1>3, <1>6, <3>1 DEF ResultIsKnown
  <2> QED
    BY <2>1, <2>2, <2>3, <2>4 DEF Knows
<1> QED
  BY <1>1, <1>4, <1>5, <1>7, <1>8, StepOfOne

-----------------------------------------------------------------------------
(* Steps that change the store.                                            *)

LEMMA BindChanges ==
  ASSUME TypeOK, NEW k \in Keys, NEW b \in Bound, Bind(k, b)
  PROVE  /\ store' = [store EXCEPT ![k] = b] /\ store' \in Map
         /\ store'[k] = b /\ \A j \in Keys : j # k => store'[j] = store[j]
         /\ name' \in [Workers -> Keys \cup {NULL, Unknown}]
         /\ \A v \in Workers : NameStays(v)
         /\ \A v \in Workers : name'[v] =
              IF name[v] = k /\ b # store[k] THEN Unknown ELSE name[v]
<1>1. /\ store \in [Keys -> Bound] /\ name \in [Workers -> Keys \cup {NULL, Unknown}]
      /\ store' = [store EXCEPT ![k] = b]
      /\ name' = [v \in Workers |->
                    IF name[v] = k /\ b # store[k] THEN Unknown ELSE name[v]]
  BY DEF TypeOK, Map, Bind, Stale
<1>2. store'[k] = b /\ \A j \in Keys : j # k => store'[j] = store[j]
  BY <1>1
<1>3. \A v \in Workers : name'[v] =
        IF name[v] = k /\ b # store[k] THEN Unknown ELSE name[v]
  BY <1>1
<1>4. ASSUME NEW v \in Workers PROVE NameStays(v)
  BY <1>2, <1>3, NothingAssumption DEF NameStays
<1> QED
  BY <1>1, <1>2, <1>3, <1>4 DEF Map

\* A worker where it changes the store or reads a name.
LEMMA AtTheStore ==
  ASSUME IInv, NEW w \in Workers, pc[w] \in {"insert", "set", "delete", "get"}
  PROVE  /\ TypeOK /\ Knows(w) /\ owner = w /\ store \in Map
         /\ req[w] \in Requests /\ UsesStore(req[w])
         /\ pc[w] = "insert" => /\ req[w] \in Arithmetics /\ req[w].op \in Ops
                                /\ req[w].res \in Keys /\ status[w] = 0
         /\ pc[w] # "insert" => status[w] = 0 /\ req[w].op = pc[w]
         /\ pc[w] = "set" => req[w].a.name \in Keys /\ req[w].b \in Binding
         /\ pc[w] \in {"delete", "get"} => req[w].a.name \in Names
<1>1. TypeOK /\ Knows(w) /\ (InSection(w) <=> owner = w)
  BY DEF IInv, MutexIsHeldInSections
<1>2. owner = w /\ store \in Map
  BY <1>1 DEF TypeOK, InSection, Section
<1>3. /\ req[w] \in Requests \cup {None} /\ req[w] # None /\ UsesStore(req[w])
      /\ pc[w] = "insert" => req[w].op \in Ops /\ req[w].res # NULL
      /\ pc[w] # "insert" => status[w] = 0 /\ req[w].op = pc[w]
  BY <1>1 DEF TypeOK, Knows, AtItsPlace, Section
<1>4. pc[w] = "insert" => req[w] \in Arithmetics /\ req[w].res \in Keys /\ status[w] = 0
  BY <1>1, <1>3, RequestTypes DEF Arithmetics, Knows, ResultIsKnown
<1>5. pc[w] = "set" => req[w].a.name \in Keys /\ req[w].b \in Binding
  BY <1>3, RequestTypes DEF Sets, Name, Binding
<1>6. pc[w] = "delete" => req[w].a.name \in Names
  BY <1>3, RequestTypes DEF Deletes, Name, Names
<1>7. pc[w] = "get" => req[w].a.name \in Names
  BY <1>3, RequestTypes DEF Gets, Name, Names
<1> QED
  BY <1>1, <1>2, <1>3, <1>4, <1>5, <1>6, <1>7

\* Behind the last change of the store a worker knows little.
LEMMA UnlockIsNext ==
  ASSUME NEW w \in Workers, IInv, owner = w, pc' = [pc EXCEPT ![w] = "unlock"],
         UNCHANGED <<owner, calls, req, side, var, temp, iter, val>>,
         \A v \in Workers \ {w} : NameStays(v) /\ status'[v] = status[v] /\ result'[v] = result[v],
         TypeOK', NameIsKnown(w)', UsesStore(req[w]), req[w] # None
  PROVE  IInv'
<1>1. TypeOK
  BY DEF IInv
<1>2. \A v \in Workers \ {w} : Untouched(v) /\ NameStays(v) /\ (owner' = v <=> owner = v)
  BY <1>1 DEF Untouched, TypeOK
<1>3. pc'[w] = "unlock" /\ req' = req /\ owner' = w
  BY <1>1 DEF TypeOK
<1>4. InSection(w)' <=> owner' = w
  BY <1>3 DEF InSection, Section
<1>5. Knows(w)'
  BY <1>3 DEF Knows, AtItsPlace, OperandsInOrder, OnTheChain, InTheLoop, BehindTheLoop,
              OperandsAreKnown, ResultIsKnown, Section
<1> QED
  BY <1>2, <1>4, <1>5, StepOfOne

LEMMA InsertResultStep ==
  ASSUME IInv, NEW w \in Workers, InsertResult(w)
  PROVE  IInv' /\ result' = result
<1> DEFINE k == req[w].res
<1>1. /\ pc[w] = "insert" /\ pc' = [pc EXCEPT ![w] = "unlock"] /\ Bind(k, Number(result[w]))
      /\ result' = [result EXCEPT ![w] = LookupOf(store'[k]).value]
      /\ UNCHANGED <<owner, calls, req, side, var, temp, iter, val, status>>
  BY DEF InsertResult, Go, loop
<1>2. /\ TypeOK /\ owner = w /\ req[w] \in Requests /\ UsesStore(req[w]) /\ k \in Keys
      /\ req[w].op \in Ops
  BY <1>1, AtTheStore
<1>3. result[w] \in Ints /\ Number(result[w]) \in Bound
  BY <1>2, Numbers DEF TypeOK, Bound, Binding
<1>4. /\ store' \in Map /\ store'[k] = Number(result[w])
      /\ name' \in [Workers -> Keys \cup {NULL, Unknown}]
      /\ \A v \in Workers : NameStays(v)
  BY <1>1, <1>2, <1>3, BindChanges
<1>5. result' = result
  <2>1. LookupOf(store'[k]).value = result[w]
    BY <1>4 DEF LookupOf, Number
  <2> QED
    BY <1>1, <1>2, <2>1 DEF TypeOK
<1>6. TypeOK'
  BY <1>1, <1>2, <1>4, <1>5 DEF TypeOK, Section
<1>7. NameIsKnown(w)'
  BY <1>1, <1>2 DEF NameIsKnown, Ops
<1>8. req[w] # None
  BY <1>2, RequestTypes
<1> QED
  BY <1>1, <1>2, <1>4, <1>5, <1>6, <1>7, <1>8, UnlockIsNext

LEMMA SetVariableStep ==
  ASSUME IInv, NEW w \in Workers, SetVariable(w)
  PROVE  IInv'
<1>1. /\ pc[w] = "set" /\ pc' = [pc EXCEPT ![w] = "unlock"] /\ Bind(req[w].a.name, req[w].b)
      /\ UNCHANGED <<owner, calls, req, side, var, temp, iter, val, status, result>>
  BY DEF SetVariable, Go, loop, reply
<1>2. /\ TypeOK /\ owner = w /\ req[w] \in Requests /\ UsesStore(req[w])
      /\ req[w].a.name \in Keys /\ req[w].b \in Bound /\ req[w].op = "set"
  BY <1>1, AtTheStore DEF Bound
<1>3. /\ store' \in Map /\ name' \in [Workers -> Keys \cup {NULL, Unknown}]
      /\ \A v \in Workers : NameStays(v)
  BY <1>1, <1>2, BindChanges
<1>4. TypeOK'
  BY <1>1, <1>2, <1>3 DEF TypeOK, Section
<1>5. NameIsKnown(w)'
  BY <1>1, <1>2 DEF NameIsKnown
<1>6. req[w] # None
  BY <1>2, RequestTypes
<1> QED
  BY <1>1, <1>2, <1>3, <1>4, <1>5, <1>6, UnlockIsNext

LEMMA DeleteVariableStep ==
  ASSUME IInv, NEW w \in Workers, DeleteVariable(w)
  PROVE  IInv'
<1> DEFINE k == req[w].a.name
    check == Lookup(k).check
<1>1. /\ pc[w] = "delete" /\ pc' = [pc EXCEPT ![w] = "unlock"]
      /\ status' = [status EXCEPT ![w] = check]
      /\ IF check = 0 THEN Bind(k, Absent) ELSE UNCHANGED <<store, name>>
      /\ UNCHANGED <<owner, calls, req, side, var, temp, iter, val, result>>
  BY DEF DeleteVariable, Go, loop
<1>2. /\ TypeOK /\ owner = w /\ req[w] \in Requests /\ UsesStore(req[w])
      /\ k \in Names /\ req[w].op = "delete"
  BY <1>1, AtTheStore
<1>3. check \in {0, ENOENT} /\ (check = 0 => k \in Keys)
  <2>1. check \in {0, ENOENT}
    BY <1>2, LookupIs, LookupTypes
  <2>2. k = NULL => check = ENOENT
    BY DEF Lookup, LookupOf
  <2> QED
    BY <1>2, <2>1, <2>2 DEF Names, ENOENT
<1> HIDE DEF check
<1>4. /\ store' \in Map /\ name' \in [Workers -> Keys \cup {NULL, Unknown}]
      /\ \A v \in Workers : NameStays(v)
  <2>1. CASE check = 0
    BY <1>1, <1>2, <1>3, <2>1, BindChanges DEF Bound
  <2>2. CASE check # 0
    BY <1>1, <1>2, <2>2 DEF TypeOK, NameStays
  <2> QED
    BY <2>1, <2>2
<1>5. TypeOK'
  BY <1>1, <1>2, <1>3, <1>4 DEF TypeOK, Section
<1>6. NameIsKnown(w)'
  BY <1>1, <1>2 DEF NameIsKnown
<1>7. req[w] # None /\ \A v \in Workers \ {w} : status'[v] = status[v]
  BY <1>1, <1>2, RequestTypes DEF TypeOK
<1> QED
  BY <1>1, <1>2, <1>4, <1>5, <1>6, <1>7, UnlockIsNext

LEMMA GetVariableStep ==
  ASSUME IInv, NEW w \in Workers, GetVariable(w)
  PROVE  IInv'
<1> DEFINE k == req[w].a.name
    found == Lookup(k)
<1>1. /\ pc[w] = "get" /\ pc' = [pc EXCEPT ![w] = "unlock"]
      /\ name' = [name EXCEPT ![w] = IF found.flag = 1 THEN k ELSE NULL]
      /\ status' = [status EXCEPT ![w] = IF found.flag = 0 THEN EFAULT ELSE found.check]
      /\ UNCHANGED <<store, owner, calls, req, side, var, temp, iter, val, result>>
  BY DEF GetVariable, Go, loop
<1>2. /\ TypeOK /\ owner = w /\ req[w] \in Requests /\ UsesStore(req[w])
      /\ k \in Names /\ req[w].op = "get"
  BY <1>1, AtTheStore
<1>3. /\ found.check \in {0, ENOENT}
      /\ found.check = 0 /\ found.flag # 0 => found.flag = 1
      /\ found.flag = 1 => k \in Keys /\ store[k].flag = 1
  <2>1. found = LookupOf(BoundTo(store, k)) /\ BoundTo(store, k) \in Bound
    BY <1>2, LookupIs
  <2>2. BoundTo(store, k).flag = 1 => k \in Keys /\ store[k].flag = 1
    BY <1>2 DEF BoundTo, Names, Absent, ENOENT
  <2> HIDE DEF found
  <2> QED
    BY <2>1, <2>2, LookupTypes DEF ENOENT
<1> HIDE DEF found
<1>4. TypeOK'
  BY <1>1, <1>2, <1>3 DEF TypeOK, Section, Names
<1>5. \A v \in Workers \ {w} : NameStays(v) /\ status'[v] = status[v]
  BY <1>1, <1>2 DEF NameStays, TypeOK
<1>6. NameIsKnown(w)'
  <2>1. /\ status'[w] = IF found.flag = 0 THEN EFAULT ELSE found.check
        /\ name'[w] = IF found.flag = 1 THEN k ELSE NULL
        /\ store' = store /\ req' = req
    BY <1>1, <1>2 DEF TypeOK
  <2> QED
    BY <1>3, <2>1 DEF NameIsKnown, EFAULT
<1>7. req[w] # None
  BY <1>2, RequestTypes
<1> QED
  BY <1>1, <1>2, <1>4, <1>5, <1>6, <1>7, UnlockIsNext

-----------------------------------------------------------------------------
(* The invariant.                                                          *)

LEMMA NextKnows == IInv /\ [Next]_vars => IInv'
<1> SUFFICES ASSUME IInv, [Next]_vars PROVE IInv'
  OBVIOUS
<1>1. ASSUME NEW w \in Workers, Receive(w) PROVE IInv'
  BY <1>1, ReceiveStep
<1>2. ASSUME NEW w \in Workers, Lock(w) PROVE IInv'
  BY <1>2, LockStep
<1>3. ASSUME NEW w \in Workers, Run(w) PROVE IInv'
  BY <1>3, ResolveOperandStep, StartLoopStep, FollowStep, EndLoopStep, ComputeStep,
     InsertResultStep, SetVariableStep, DeleteVariableStep, GetVariableStep,
     UnlockStep, ReplyStep DEF Run
<1>4. CASE UNCHANGED vars
  <2>1. \A v \in Workers : Untouched(v) /\ NameStays(v) /\ store' = store
    BY <1>4 DEF vars, loop, reply, Untouched, NameStays
  <2>2. TypeOK' /\ MutexIsHeldInSections'
    BY <1>4 DEF vars, loop, reply, IInv, TypeOK, MutexIsHeldInSections, InSection
  <2>3. \A v \in Workers : Knows(v)'
    BY <2>1, OthersKnow DEF IInv
  <2> QED
    BY <2>2, <2>3 DEF IInv
<1> QED
  BY <1>1, <1>2, <1>3, <1>4 DEF Next

(* What the workers know is true in every state. *)
THEOREM Invariance == Spec => []IInv
BY InitKnows, NextKnows, PTL DEF Spec

(* Types are right in every state: what a request computes and stores is an  *)
(* int64_t, and the status of a reply is one of those that server_run sends. *)
THEOREM TypesAreRight == Spec => []TypeOK
<1>1. IInv => TypeOK
  BY DEF IInv
<1> QED
  BY <1>1, Invariance, PTL

(* kvs_mutex is held by a worker exactly while it is between its first lookup *)
(* and its last change, whatever the other workers do.                        *)
THEOREM MutexProtects == Spec => []MutexIsHeldInSections
<1>1. IInv => MutexIsHeldInSections
  BY DEF IInv
<1> QED
  BY <1>1, Invariance, PTL

-----------------------------------------------------------------------------
(* Requests are atomic.                                                    *)

\* What a request is answered is known from its last change of the store on.
LEMMA AnswerIsGiven ==
  ASSUME IInv, NEW w \in Workers
  PROVE  AnswerOf(w) # None <=> pc[w] \in {"unlock", "reply"}
<1>1. TypeOK /\ Knows(w)
  BY DEF IInv
<1>2. ASSUME pc[w] \in {"unlock", "reply"} PROVE AnswerOf(w) # None
  <2>1. status[w] \in Int /\ result[w] \in Int
    <3>1. /\ status[w] \in {0, ENOENT, EFAULT, ELOOP, EOVERFLOW, EINVAL}
          /\ result[w] \in Ints
      BY <1>1 DEF TypeOK
    <3>2. 0 \in Int /\ ENOENT \in Int /\ EFAULT \in Int /\ ELOOP \in Int
      BY DEF ENOENT, EFAULT, ELOOP
    <3> QED
      BY <3>1, <3>2, Numbers
  <2>2. CASE status[w] # 0 \/ req[w].op \in {"set", "delete"}
    <3>1. [status |-> status[w]] # None
      BY <2>1, NothingAssumption
    <3> QED
      BY <1>2, <2>2, <3>1 DEF AnswerOf
  <2>3. CASE status[w] = 0 /\ req[w].op = "get"
    <3> DEFINE n == IF name[w] = Unknown THEN Unknown ELSE Lookup(name[w]).name
    <3>1. n \in Keys \cup {Unknown}
      <4>1. name[w] # Unknown => name[w] \in Names /\ store[name[w]].flag = 1 /\ name[w] \in Keys
        BY <1>1, <1>2, <2>3 DEF Knows, NameIsKnown, Names
      <4>2. name[w] # Unknown => Lookup(name[w]).name \in Keys
        BY <1>1, <4>1, LookupIs, LookupTypes, NullAssumption DEF BoundTo, ENOENT
      <4> QED
        BY <4>2
    <3> HIDE DEF n
    <3>2. [status |-> 0, name |-> n] # None
      BY <3>1, NothingAssumption
    <3> QED
      BY <1>2, <2>3, <3>2 DEF AnswerOf, n
  <2>4. CASE status[w] = 0 /\ req[w].op \notin {"set", "delete", "get"}
    <3>1. [status |-> 0, result |-> result[w]] # None
      BY <2>1, NothingAssumption
    <3> QED
      BY <1>2, <2>4, <3>1 DEF AnswerOf
  <2> QED
    BY <2>2, <2>3, <2>4
<1> QED
  BY <1>2 DEF AnswerOf

LEMMA OthersAnswers ==
  ASSUME NEW v \in Workers, Untouched(v), name'[v] = name[v], store' = store
  PROVE  AnswerOf(v)' = AnswerOf(v)
BY DEF AnswerOf, Untouched, Lookup

\* A step that the client cannot see.
LEMMA Stutters ==
  ASSUME NEW w \in Workers, store' = store, req' = req, name' = name,
         \A v \in Workers \ {w} : Untouched(v), AnswerOf(w)' = AnswerOf(w)
  PROVE  UNCHANGED Atomic!vars
<1>1. \A v \in Workers : AnswerOf(v)' = AnswerOf(v)
  BY OthersAnswers
<1>2. [v \in Workers |-> AnswerOf(v)]' = [v \in Workers |-> AnswerOf(v)]
  BY <1>1
<1> QED
  BY <1>2 DEF Atomic!vars

\* The step at which a request takes effect.
LEMMA Executes ==
  ASSUME IInv, NEW w \in Workers, pc[w] \notin {"idle", "unlock", "reply"},
         req' = req, store' = Atomic!Effect(store, req[w]),
         AnswerOf(w)' = Atomic!Answer(store, req[w]),
         \A v \in Workers \ {w} :
           /\ Untouched(v)
           /\ name'[v] = IF name[v] \in Keys /\ store'[name[v]] # store[name[v]]
                         THEN Unknown ELSE name[v]
  PROVE  Atomic!Execute(w)
<1> DEFINE disturbed(v) ==
      /\ AnswerOf(v) # None
      /\ req[v].op = "get"
      /\ AnswerOf(v).status = 0
      /\ store'[req[v].a.name] # store[req[v].a.name]
<1>1. req[w] # None /\ AnswerOf(w) = None
  BY AnswerIsGiven DEF IInv, Knows, AtItsPlace
<1>2. ASSUME NEW v \in Workers, v # w
      PROVE  AnswerOf(v)' = IF disturbed(v) THEN [status |-> 0, name |-> Unknown]
                            ELSE AnswerOf(v)
  <2>1. /\ Untouched(v) /\ NameIsKnown(v)
        /\ name'[v] = IF name[v] \in Keys /\ store'[name[v]] # store[name[v]]
                      THEN Unknown ELSE name[v]
    BY <1>2 DEF IInv, Knows
  <2>2. CASE pc[v] \notin {"unlock", "reply"}
    <3>1. AnswerOf(v) = None /\ AnswerOf(v)' = None
      BY <2>1, <2>2 DEF AnswerOf, Untouched
    <3> QED
      BY <3>1
  <2>3. CASE pc[v] \in {"unlock", "reply"} /\ status[v] = 0 /\ req[v].op = "get"
    <3>1. /\ AnswerOf(v) # None
          /\ AnswerOf(v) = [status |-> 0,
               name |-> IF name[v] = Unknown THEN Unknown ELSE Lookup(name[v]).name]
          /\ AnswerOf(v)' = [status |-> 0,
               name |-> IF name'[v] = Unknown THEN Unknown ELSE Lookup(name[v])'.name]
      BY <2>1, <2>3, AnswerIsGiven DEF AnswerOf, Untouched
    <3>2. CASE name[v] = Unknown
      <4>1. name'[v] = Unknown
        BY <2>1, <3>2
      <4> QED
        BY <3>1, <3>2, <4>1
    <3>3. CASE name[v] # Unknown
      <4>1. name[v] \in Keys /\ name[v] = req[v].a.name
        BY <2>1, <2>3, <3>3 DEF NameIsKnown
      <4>2. CASE store'[name[v]] # store[name[v]]
        BY <2>1, <2>3, <3>1, <4>1, <4>2
      <4>3. CASE store'[name[v]] = store[name[v]]
        <5>1. name'[v] = name[v] /\ Lookup(name[v])' = Lookup(name[v])
          BY <2>1, <4>3 DEF Lookup
        <5> QED
          BY <3>1, <4>1, <4>3, <5>1
      <4> QED
        BY <4>2, <4>3
    <3> QED
      BY <3>2, <3>3
  <2>4. CASE pc[v] \in {"unlock", "reply"} /\ (status[v] # 0 \/ req[v].op # "get")
    <3>1. AnswerOf(v)' = AnswerOf(v)
      BY <2>1, <2>4 DEF AnswerOf, Untouched
    <3>2. ~ disturbed(v)
      BY <2>4 DEF AnswerOf
    <3> QED
      BY <3>1, <3>2
  <2> QED
    BY <2>2, <2>3, <2>4
<1>3. \A v \in Workers : disturbed(v) <=> Atomic!Disturbed(v, store')
  BY DEF Atomic!Disturbed
<1> HIDE DEF disturbed
<1>4. [v \in Workers |-> AnswerOf(v)]' =
        [v \in Workers |->
           IF v = w THEN Atomic!Answer(store, req[w])
           ELSE IF Atomic!Disturbed(v, store') THEN [status |-> 0, name |-> Unknown]
           ELSE [u \in Workers |-> AnswerOf(u)][v]]
  BY <1>2, <1>3
<1> QED
  BY <1>1, <1>4 DEF Atomic!Execute

LEMMA ReceiveCalls ==
  ASSUME IInv, NEW w \in Workers, Receive(w)
  PROVE  Atomic!Call(w)
<1>1. /\ pc[w] = "idle" /\ name' = [name EXCEPT ![w] = NULL]
      /\ store' = store
      /\ \E r \in Requests : req' = [req EXCEPT ![w] = r]
      /\ pc' \in {[pc EXCEPT ![w] = "lock"], [pc EXCEPT ![w] = "compute"]}
  BY DEF Receive
<1>2. TypeOK /\ req[w] = None
  BY <1>1 DEF IInv, Knows, AtItsPlace
<1>3. \A v \in Workers \ {w} : Untouched(v) /\ name'[v] = name[v]
  BY <1>2 DEF Receive, loop, Untouched, TypeOK
<1>4. AnswerOf(w)' = None /\ AnswerOf(w) = None
  BY <1>1, <1>2 DEF AnswerOf, TypeOK
<1>5. \A v \in Workers : AnswerOf(v)' = AnswerOf(v)
  BY <1>1, <1>3, <1>4, OthersAnswers
<1>6. [v \in Workers |-> AnswerOf(v)]' = [v \in Workers |-> AnswerOf(v)]
  BY <1>5
<1> QED
  BY <1>1, <1>2, <1>6 DEF Atomic!Call

LEMMA ReplyReturns ==
  ASSUME IInv, NEW w \in Workers, Reply(w)
  PROVE  Atomic!Return(w)
<1>1. /\ pc[w] = "reply" /\ pc' = [pc EXCEPT ![w] = "idle"]
      /\ req' = [req EXCEPT ![w] = None] /\ name' = [name EXCEPT ![w] = NULL]
      /\ UNCHANGED <<store, owner, calls, side, var, temp, iter, val, status, result>>
  BY DEF Reply, Go, loop, reply
<1>2. TypeOK /\ AnswerOf(w) # None
  BY <1>1, AnswerIsGiven DEF IInv
<1>3. \A v \in Workers \ {w} : Untouched(v) /\ name'[v] = name[v]
  BY <1>1, <1>2 DEF Untouched, TypeOK
<1>4. AnswerOf(w)' = None
  BY <1>1, <1>2 DEF AnswerOf, TypeOK
<1>5. \A v \in Workers \ {w} : AnswerOf(v)' = AnswerOf(v)
  BY <1>1, <1>3, OthersAnswers
<1>6. [v \in Workers |-> AnswerOf(v)]' = [[v \in Workers |-> AnswerOf(v)] EXCEPT ![w] = None]
  BY <1>4, <1>5
<1> QED
  BY <1>1, <1>2, <1>6 DEF Atomic!Return

LEMMA OnlyMine ==
  ASSUME TypeOK, NEW w \in Workers, NEW x, Take(w, x) \/ Fail(w, x),
         UNCHANGED <<req, var, temp, iter, result>>
  PROVE  \A v \in Workers \ {w} : Untouched(v)
<1>1. CASE Take(w, x)
  <2>1. /\ \A v \in Workers \ {w} : val'[v] = val[v] /\ pc'[v] = pc[v] /\ side'[v] = side[v]
        /\ status' = status
    BY <1>1 DEF Take, TypeOK
  <2> QED
    BY <2>1 DEF Untouched
<1>2. CASE Fail(w, x)
  BY <1>2 DEF Fail, Untouched, TypeOK
<1> QED
  BY <1>1, <1>2

LEMMA EffectOfArithmetic ==
  ASSUME NEW m, NEW r, r.op \in Atomic!Ops
  PROVE  /\ Atomic!Answer(m, r).status # 0 \/ r.res = NULL => Atomic!Effect(m, r) = m
         /\ Atomic!Answer(m, r).status = 0 /\ r.res # NULL =>
              Atomic!Effect(m, r) = [m EXCEPT ![r.res] = Number(Atomic!Answer(m, r).result)]
BY DEF Atomic!Effect, Atomic!Ops, Atomic!Number, Number

(* The steps before a request takes effect. *)
LEMMA EarlyStutters ==
  ASSUME IInv, NEW w \in Workers,
         Lock(w) \/ ResolveOperand(w) \/ StartLoop(w) \/ Follow(w) \/ EndLoop(w)
  PROVE  UNCHANGED Atomic!vars
<1>1. TypeOK /\ Knows(w)
  BY DEF IInv
<1>2. store' = store /\ req' = req /\ name' = name
  BY DEF Lock, ResolveOperand, StartLoop, Follow, EndLoop
<1>3. pc[w] \notin {"unlock", "reply"} /\ pc'[w] \notin {"unlock", "reply"}
  <2>1. CASE Lock(w)
    <3>1. req[w].op \notin {"unlock", "reply"}
      <4>1. req[w] \in Requests \cup {None} /\ req[w] # None
        BY <1>1, <2>1 DEF TypeOK, Knows, AtItsPlace, Lock, Go
      <4> QED
        BY <4>1, RequestTypes DEF Ops
    <3> QED
      BY <1>1, <2>1, <3>1 DEF Lock, Go, TypeOK
  <2>2. CASE ResolveOperand(w)
    BY <1>1, <2>2 DEF ResolveOperand, Take, Fail, TypeOK
  <2>3. CASE StartLoop(w) \/ Follow(w)
    BY <1>1, <2>3 DEF StartLoop, Follow, Go, TypeOK
  <2>4. CASE EndLoop(w)
    BY <1>1, <2>4 DEF EndLoop, Take, Fail, TypeOK
  <2> QED
    BY <2>1, <2>2, <2>3, <2>4
<1>4. AnswerOf(w)' = AnswerOf(w)
  BY <1>3 DEF AnswerOf
<1>5. \A v \in Workers \ {w} : Untouched(v)
  <2>1. CASE Lock(w)
    BY <1>1, <2>1 DEF Lock, Go, loop, reply, Untouched, TypeOK
  <2>2. CASE ResolveOperand(w)
    <3>1. /\ \/ \E x : Take(w, x)
             \/ \E x : Fail(w, x)
          /\ UNCHANGED <<req, var, temp, iter, result>>
      BY <2>2 DEF ResolveOperand, loop
    <3> QED
      BY <1>1, <3>1, OnlyMine
  <2>3. CASE StartLoop(w)
    BY <1>1, <2>3 DEF StartLoop, Go, reply, Untouched, TypeOK
  <2>4. CASE Follow(w)
    BY <1>1, <2>4 DEF Follow, Go, reply, Untouched, TypeOK
  <2>5. CASE EndLoop(w)
    <3>1. /\ \/ \E x : Take(w, x)
             \/ \E x : Fail(w, x)
          /\ UNCHANGED <<req, var, temp, iter, result>>
      BY <2>5 DEF EndLoop, loop
    <3> QED
      BY <1>1, <3>1, OnlyMine
  <2> QED
    BY <2>1, <2>2, <2>3, <2>4, <2>5
<1> QED
  BY <1>2, <1>4, <1>5, Stutters

LEMMA UnlockStutters ==
  ASSUME IInv, NEW w \in Workers, Unlock(w)
  PROVE  UNCHANGED Atomic!vars
<1>1. TypeOK
  BY DEF IInv
<1>2. /\ pc[w] = "unlock" /\ pc' = [pc EXCEPT ![w] = "reply"]
      /\ UNCHANGED <<store, req, side, var, temp, iter, val, status, result, name>>
  BY DEF Unlock, Go, loop, reply
<1>3. \A v \in Workers \ {w} : Untouched(v)
  BY <1>1, <1>2 DEF Untouched, TypeOK
<1>4. pc'[w] = "reply"
  BY <1>1, <1>2 DEF TypeOK
<1>5. AnswerOf(w)' = AnswerOf(w)
  BY <1>2, <1>4 DEF AnswerOf, Lookup
<1> QED
  BY <1>2, <1>3, <1>5, Stutters

(* An arithmetic request that binds no variable takes effect where its     *)
(* result is computed.                                                     *)
LEMMA ComputeExecutes ==
  ASSUME IInv, NEW w \in Workers, Compute(w)
  PROVE  Atomic!Execute(w) \/ UNCHANGED Atomic!vars
<1> DEFINE r == req[w]
    z == Outcome(w)
    s == OutcomeStatus(w)
    to == IF ~UsesStore(r) THEN "reply"
          ELSE IF r.res # NULL /\ s = 0 THEN "insert"
          ELSE "unlock"
<1>1. /\ pc[w] = "compute" /\ pc' = [pc EXCEPT ![w] = to]
      /\ result' = [result EXCEPT ![w] = z] /\ status' = [status EXCEPT ![w] = s]
      /\ UNCHANGED <<store, owner, calls, req, side, var, temp, iter, val, name>>
  BY DEF Compute, Go, loop, Outcome, OutcomeStatus
<1>2. TypeOK /\ r \in Arithmetics /\ r.op \in Ops
  BY <1>1, ComputingIs DEF Arithmetics
<1>3. Atomic!Answer(store, r) =
        IF s # 0 THEN [status |-> s] ELSE [status |-> 0, result |-> z]
  BY <1>1, OutcomeIsAnswer
<1> HIDE DEF z, s
<1>4. \A v \in Workers \ {w} : Untouched(v)
  BY <1>1, <1>2 DEF Untouched, TypeOK
<1>5. pc'[w] = to /\ status'[w] = s /\ result'[w] = z
  BY <1>1, <1>2 DEF TypeOK
<1>6. CASE to = "insert"
  <2>1. AnswerOf(w)' = AnswerOf(w)
    BY <1>1, <1>5, <1>6 DEF AnswerOf
  <2> QED
    BY <1>1, <1>4, <2>1, Stutters
<1>7. CASE to # "insert"
  <2>1. to \in {"unlock", "reply"} /\ (s # 0 \/ r.res = NULL)
    BY <1>7 DEF UsesStore
  <2>2. AnswerOf(w)' = Atomic!Answer(store, r)
    <3>1. r.op \notin {"set", "delete", "get"}
      BY <1>2 DEF Ops
    <3> HIDE DEF to
    <3> QED
      BY <1>1, <1>3, <1>5, <2>1, <3>1 DEF AnswerOf
  <2>3. Atomic!Effect(store, r) = store
    <3>1. r.op \in Atomic!Ops
      BY <1>2 DEF Ops, Atomic!Ops
    <3> QED
      BY <1>3, <2>1, <3>1, EffectOfArithmetic
  <2>4. \A v \in Workers \ {w} :
          name'[v] = IF name[v] \in Keys /\ store'[name[v]] # store[name[v]]
                     THEN Unknown ELSE name[v]
    BY <1>1
  <2> QED
    BY <1>1, <1>4, <2>2, <2>3, <2>4, Executes
<1> QED
  BY <1>6, <1>7

(* What the requests that compute nothing are answered, and do. *)
LEMMA OtherAnswers ==
  ASSUME NEW m, NEW r
  PROVE  /\ r.op = "set" => Atomic!Answer(m, r) = [status |-> 0]
         /\ r.op = "delete" => Atomic!Answer(m, r) =
              [status |-> IF BoundTo(m, r.a.name) = Absent THEN ENOENT ELSE 0]
         /\ r.op = "get" => Atomic!Answer(m, r) =
              IF BoundTo(m, r.a.name).flag = 1
              THEN [status |-> 0, name |-> BoundTo(m, r.a.name).name]
              ELSE [status |-> IF BoundTo(m, r.a.name) = Absent THEN ENOENT ELSE EFAULT]
<1>1. Atomic!BindingAt(m, r.a.name) = BoundTo(m, r.a.name)
  BY SameLookups
<1>2. Atomic!Absent = Absent /\ Atomic!ENOENT = ENOENT /\ Atomic!EFAULT = EFAULT
  BY DEF Atomic!Absent, Absent, Atomic!ENOENT, ENOENT, Atomic!EFAULT, EFAULT
<1>3. r.op \in {"set", "delete", "get"} => r.op \notin Atomic!Ops
  BY DEF Atomic!Ops
<1>4. CASE r.op = "set"
  BY <1>3, <1>4 DEF Atomic!Answer, Atomic!Refusal
<1>5. CASE r.op = "delete"
  BY <1>1, <1>2, <1>3, <1>5 DEF Atomic!Answer, Atomic!Refusal
<1>6. CASE r.op = "get"
  BY <1>1, <1>2, <1>3, <1>6 DEF Atomic!Answer, Atomic!Refusal
<1> QED
  BY <1>4, <1>5, <1>6

LEMMA OtherEffects ==
  ASSUME NEW m, NEW r
  PROVE  /\ Atomic!Answer(m, r).status # 0 => Atomic!Effect(m, r) = m
         /\ r.op = "get" => Atomic!Effect(m, r) = m
         /\ Atomic!Answer(m, r).status = 0 /\ r.op = "set" =>
              Atomic!Effect(m, r) = [m EXCEPT ![r.a.name] = r.b]
         /\ Atomic!Answer(m, r).status = 0 /\ r.op = "delete" =>
              Atomic!Effect(m, r) = [m EXCEPT ![r.a.name] = Absent]
<1>1. Atomic!Absent = Absent
  BY DEF Atomic!Absent, Absent, Atomic!ENOENT, ENOENT
<1>2. r.op \in {"set", "delete", "get"} => r.op \notin Atomic!Ops
  BY DEF Atomic!Ops
<1> QED
  BY <1>1, <1>2 DEF Atomic!Effect

(* Only those who look at the node of k are disturbed by its change. *)
LEMMA BindDisturbs ==
  ASSUME TypeOK, NEW k \in Keys, NEW b \in Bound, Bind(k, b), NEW v \in Workers
  PROVE  name'[v] = IF name[v] \in Keys /\ store'[name[v]] # store[name[v]]
                    THEN Unknown ELSE name[v]
<1>1. /\ store'[k] = b /\ \A j \in Keys : j # k => store'[j] = store[j]
      /\ name'[v] = IF name[v] = k /\ b # store[k] THEN Unknown ELSE name[v]
  BY BindChanges
<1>2. CASE name[v] = k
  BY <1>1, <1>2
<1>3. CASE name[v] # k
  BY <1>1, <1>3
<1> QED
  BY <1>2, <1>3

(* The steps that change the store, or read a name in it. *)
LEMMA InsertResultExecutes ==
  ASSUME IInv, NEW w \in Workers, InsertResult(w)
  PROVE  Atomic!Execute(w)
<1> DEFINE k == req[w].res
<1>1. /\ pc[w] = "insert" /\ pc' = [pc EXCEPT ![w] = "unlock"] /\ Bind(k, Number(result[w]))
      /\ UNCHANGED <<owner, calls, req, side, var, temp, iter, val, status>>
  BY DEF InsertResult, Go, loop
<1>2. result' = result
  BY InsertResultStep
<1>3. /\ TypeOK /\ Knows(w) /\ req[w].op \in Ops /\ k \in Keys /\ status[w] = 0
  BY <1>1, AtTheStore
<1>4. Number(result[w]) \in Bound
  BY <1>3, Numbers DEF TypeOK, Bound, Binding
<1>5. Atomic!Answer(store, req[w]) = [status |-> 0, result |-> result[w]]
  BY <1>1, <1>3 DEF Knows, ResultIsKnown
<1>6. store' = Atomic!Effect(store, req[w])
  <2>1. req[w].op \in Atomic!Ops /\ k # NULL
    BY <1>3, NullAssumption DEF Ops, Atomic!Ops
  <2>2. Atomic!Effect(store, req[w]) = [store EXCEPT ![k] = Number(result[w])]
    BY <1>5, <2>1, EffectOfArithmetic
  <2> QED
    BY <1>1, <2>2 DEF Bind
<1>7. AnswerOf(w)' = Atomic!Answer(store, req[w])
  <2>1. pc'[w] = "unlock" /\ req'[w].op \notin {"set", "delete", "get"}
    BY <1>1, <1>3 DEF TypeOK, Ops
  <2> QED
    BY <1>1, <1>2, <1>3, <1>5, <2>1 DEF AnswerOf
<1>8. \A v \in Workers \ {w} : Untouched(v)
  BY <1>1, <1>2, <1>3 DEF Untouched, TypeOK
<1> QED
  BY <1>1, <1>3, <1>4, <1>6, <1>7, <1>8, BindDisturbs, Executes

LEMMA SetVariableExecutes ==
  ASSUME IInv, NEW w \in Workers, SetVariable(w)
  PROVE  Atomic!Execute(w)
<1> DEFINE k == req[w].a.name
    b == req[w].b
<1>1. /\ pc[w] = "set" /\ pc' = [pc EXCEPT ![w] = "unlock"] /\ Bind(k, b)
      /\ UNCHANGED <<owner, calls, req, side, var, temp, iter, val, status, result>>
  BY DEF SetVariable, Go, loop, reply
<1>2. TypeOK /\ k \in Keys /\ b \in Bound /\ req[w].op = "set" /\ status[w] = 0
  BY <1>1, AtTheStore DEF Bound
<1>3. Atomic!Answer(store, req[w]) = [status |-> 0]
  BY <1>2, OtherAnswers
<1>4. store' = Atomic!Effect(store, req[w])
  <2>1. Atomic!Answer(store, req[w]).status = 0
    BY <1>3
  <2>2. Atomic!Effect(store, req[w]) = [store EXCEPT ![k] = b]
    BY <1>2, <2>1, OtherEffects
  <2> QED
    BY <1>1, <2>2 DEF Bind
<1>5. AnswerOf(w)' = [status |-> 0]
  BY <1>1, <1>2 DEF AnswerOf, TypeOK
<1>6. \A v \in Workers \ {w} : Untouched(v)
  BY <1>1, <1>2 DEF Untouched, TypeOK
<1> QED
  BY <1>1, <1>2, <1>3, <1>4, <1>5, <1>6, BindDisturbs, Executes

LEMMA DeleteVariableExecutes ==
  ASSUME IInv, NEW w \in Workers, DeleteVariable(w)
  PROVE  Atomic!Execute(w)
<1> DEFINE k == req[w].a.name
    check == Lookup(k).check
<1>1. /\ pc[w] = "delete" /\ pc' = [pc EXCEPT ![w] = "unlock"]
      /\ status' = [status EXCEPT ![w] = check]
      /\ IF check = 0 THEN Bind(k, Absent) ELSE UNCHANGED <<store, name>>
      /\ UNCHANGED <<owner, calls, req, side, var, temp, iter, val, result>>
  BY DEF DeleteVariable, Go, loop
<1>2. TypeOK /\ k \in Names /\ req[w].op = "delete"
  BY <1>1, AtTheStore
<1>3. /\ check = IF BoundTo(store, k) = Absent THEN ENOENT ELSE 0
      /\ check = 0 => k \in Keys
  <2>1. Lookup(k) = LookupOf(BoundTo(store, k)) /\ BoundTo(store, k) \in Bound
    BY <1>2, LookupIs
  <2>2. k = NULL => BoundTo(store, k) = Absent
    BY DEF BoundTo
  <2> QED
    BY <1>2, <2>1, <2>2, LookupTypes DEF Names, ENOENT
<1>4. Atomic!Answer(store, req[w]) = [status |-> check]
  BY <1>2, <1>3, OtherAnswers
<1> HIDE DEF check
<1>5. AnswerOf(w)' = [status |-> check]
  BY <1>1, <1>2 DEF AnswerOf, TypeOK
<1>6. \A v \in Workers \ {w} : Untouched(v)
  BY <1>1, <1>2 DEF Untouched, TypeOK
<1>7. CASE check = 0
  <2>1. Bind(k, Absent) /\ k \in Keys /\ Absent \in Bound
    BY <1>1, <1>3, <1>7 DEF Bound
  <2>2. store' = Atomic!Effect(store, req[w])
    <3>1. Atomic!Answer(store, req[w]).status = 0
      BY <1>4, <1>7
    <3>2. Atomic!Effect(store, req[w]) = [store EXCEPT ![k] = Absent]
      BY <1>2, <3>1, OtherEffects
    <3> QED
      BY <2>1, <3>2 DEF Bind
  <2> QED
    BY <1>1, <1>2, <1>4, <1>5, <1>6, <2>1, <2>2, BindDisturbs, Executes
<1>8. CASE check # 0
  <2>1. store' = store /\ name' = name
    BY <1>1, <1>8
  <2>2. Atomic!Answer(store, req[w]).status # 0
    BY <1>4, <1>8
  <2>3. Atomic!Effect(store, req[w]) = store
    BY <2>2, OtherEffects
  <2> QED
    BY <1>1, <1>4, <1>5, <1>6, <2>1, <2>3, Executes
<1> QED
  BY <1>7, <1>8

LEMMA GetVariableExecutes ==
  ASSUME IInv, NEW w \in Workers, GetVariable(w)
  PROVE  Atomic!Execute(w)
<1> DEFINE k == req[w].a.name
    b == BoundTo(store, k)
    found == Lookup(k)
<1>1. /\ pc[w] = "get" /\ pc' = [pc EXCEPT ![w] = "unlock"]
      /\ name' = [name EXCEPT ![w] = IF found.flag = 1 THEN k ELSE NULL]
      /\ status' = [status EXCEPT ![w] = IF found.flag = 0 THEN EFAULT ELSE found.check]
      /\ UNCHANGED <<store, owner, calls, req, side, var, temp, iter, val, result>>
  BY DEF GetVariable, Go, loop
<1>2. TypeOK /\ k \in Names /\ req[w].op = "get"
  BY <1>1, AtTheStore
<1>3. /\ b.flag = 1 => found.flag = 1 /\ found.check = 0 /\ found.name = b.name /\ k \in Keys
      /\ b = Absent => found.flag = ENOENT /\ found.check = ENOENT /\ b.flag # 1
      /\ b.flag # 1 /\ b # Absent => found.flag = 0
  <2>1. found = LookupOf(b) /\ b \in Bound
    BY <1>2, LookupIs
  <2>2. b.flag = 1 => k \in Keys
    BY <1>2 DEF BoundTo, Names, Absent, ENOENT
  <2> HIDE DEF b, found
  <2> QED
    BY <2>1, <2>2, LookupTypes DEF ENOENT
<1>4. Atomic!Answer(store, req[w]) =
        IF b.flag = 1 THEN [status |-> 0, name |-> b.name]
        ELSE [status |-> IF b = Absent THEN ENOENT ELSE EFAULT]
  BY <1>2, OtherAnswers
<1>5. /\ pc'[w] = "unlock" /\ req'[w].op = "get" /\ store' = store
      /\ name'[w] = IF found.flag = 1 THEN k ELSE NULL
      /\ status'[w] = IF found.flag = 0 THEN EFAULT ELSE found.check
      /\ Lookup(k)' = Lookup(k)
  BY <1>1, <1>2 DEF TypeOK, Lookup
<1>6. AnswerOf(w)' = Atomic!Answer(store, req[w])
  <2>1. CASE b.flag = 1
    <3>1. name'[w] = k /\ status'[w] = 0 /\ k \in Keys /\ k # Unknown
      BY <1>3, <1>5, <2>1, NothingAssumption
    <3>2. AnswerOf(w)' = [status |-> 0, name |-> found.name]
      BY <1>5, <3>1 DEF AnswerOf, Lookup
    <3> QED
      BY <1>3, <1>4, <2>1, <3>2
  <2>2. CASE b.flag # 1
    <3>1. status'[w] = (IF b = Absent THEN ENOENT ELSE EFAULT) /\ status'[w] # 0
      BY <1>3, <1>5, <2>2 DEF ENOENT, EFAULT
    <3>2. AnswerOf(w)' = [status |-> status'[w]]
      BY <1>5, <3>1 DEF AnswerOf
    <3> QED
      BY <1>4, <2>2, <3>1, <3>2
  <2> QED
    BY <2>1, <2>2
<1>7. Atomic!Effect(store, req[w]) = store
  BY <1>2, OtherEffects
<1>8. \A v \in Workers \ {w} : Untouched(v) /\ name'[v] = name[v]
  BY <1>1, <1>2 DEF Untouched, TypeOK
<1> QED
  BY <1>1, <1>5, <1>6, <1>7, <1>8, Executes

LEMMA InitIsAtomic == Init => Atomic!Init
<1> SUFFICES ASSUME Init PROVE Atomic!Init
  OBVIOUS
<1>1. \A w \in Workers : pc[w] = "idle"
  BY DEF Init
<1>2. \A w \in Workers : AnswerOf(w) = None
  BY <1>1 DEF AnswerOf
<1>3. store = Atomic!EmptyMap /\ req = [w \in Workers |-> None]
  BY DEF Init, EmptyMap, Atomic!EmptyMap, Absent, Atomic!Absent, ENOENT, Atomic!ENOENT
<1> QED
  BY <1>2, <1>3 DEF Atomic!Init

LEMMA NextIsAtomic == IInv /\ [Next]_vars => [Atomic!Next]_Atomic!vars
<1> SUFFICES ASSUME IInv, [Next]_vars
             PROVE  Atomic!Next \/ UNCHANGED Atomic!vars
  OBVIOUS
<1>1. ASSUME NEW w \in Workers, Receive(w)
      PROVE  Atomic!Next \/ UNCHANGED Atomic!vars
  BY <1>1, ReceiveCalls DEF Atomic!Next
<1>2. ASSUME NEW w \in Workers,
             Lock(w) \/ ResolveOperand(w) \/ StartLoop(w) \/ Follow(w) \/ EndLoop(w) \/ Unlock(w)
      PROVE  Atomic!Next \/ UNCHANGED Atomic!vars
  BY <1>2, EarlyStutters, UnlockStutters
<1>3. ASSUME NEW w \in Workers,
             Compute(w) \/ InsertResult(w) \/ SetVariable(w) \/ DeleteVariable(w) \/ GetVariable(w)
      PROVE  Atomic!Next \/ UNCHANGED Atomic!vars
  BY <1>3, ComputeExecutes, InsertResultExecutes, SetVariableExecutes,
     DeleteVariableExecutes, GetVariableExecutes DEF Atomic!Next
<1>4. ASSUME NEW w \in Workers, Reply(w)
      PROVE  Atomic!Next \/ UNCHANGED Atomic!vars
  BY <1>4, ReplyReturns DEF Atomic!Next
<1>5. CASE UNCHANGED vars
  <2>1. store' = store /\ req' = req
    BY <1>5 DEF vars
  <2>2. \A w \in Workers : AnswerOf(w)' = AnswerOf(w)
    BY <1>5 DEF vars, reply, AnswerOf, Lookup
  <2>3. [w \in Workers |-> AnswerOf(w)]' = [w \in Workers |-> AnswerOf(w)]
    BY <2>2
  <2> QED
    BY <2>1, <2>3 DEF Atomic!vars
<1> QED
  BY <1>1, <1>2, <1>3, <1>4, <1>5 DEF Next, Run

(* Requests are atomic: whatever workers do at the same time, each request   *)
(* takes effect on the variables at one moment between its arrival and its   *)
(* answer, with the operands, the errors and the result that AtomicRequests  *)
(* computes in one step.  Only the name that answers a get request may be    *)
(* lost, if its variable is changed before the answer is out.                *)
THEOREM RequestsRefine == Spec => RequestsAreAtomic
<1>1. Spec => Init /\ [][Next]_vars
  BY DEF Spec
<1>2. Atomic!Init /\ [][Atomic!Next]_Atomic!vars => Atomic!Spec
  BY DEF Atomic!Spec
<1> QED
  BY <1>1, <1>2, Invariance, InitIsAtomic, NextIsAtomic, PTL DEF RequestsAreAtomic
=============================================================================
