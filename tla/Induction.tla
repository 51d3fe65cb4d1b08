----------------------------- MODULE Induction -----------------------------
(***************************************************************************)
(* Induction without operator parameters: over numbers and over finite     *)
(* sets, each stated of a set that is closed, with what follows for the    *)
(* recursive functions of the models and for the sums of the community     *)
(* modules.  Everything rests on the least element of a set of numbers.    *)
(***************************************************************************)
EXTENDS Integers, FiniteSetTheorems, SequencesExt, TLAPS

(* A set of numbers has a least one. *)
LEMMA LeastNumber ==
  ASSUME NEW T, T \subseteq Nat, T # {}
  PROVE  \E x \in T : \A y \in T : x <= y
<1> DEFINE R == OpToRel(<, Nat)
<1>1. IsWellFoundedOn(R, Nat)
  BY NatLessThanWellFounded
<1>2. PICK x \in T : \A y \in T : ~ (<<y, x>> \in R)
  <2> HIDE DEF R
  <2> QED
    BY <1>1, WFMin
<1>3. \A y \in T : y < x => <<y, x>> \in R
  BY DEF OpToRel
<1> HIDE DEF R
<1>4. \A y \in T : y \in Nat /\ x \in Nat /\ ~ (y < x)
  BY <1>2, <1>3
<1> QED
  BY <1>4

(* A set of numbers that are small enough has a greatest one. *)
LEMMA GreatestNumber ==
  ASSUME NEW n \in Nat, NEW T, T \subseteq 1 .. n, T # {}
  PROVE  Max(T) \in T /\ \A y \in T : y <= Max(T)
<1> DEFINE U == {n - x : x \in T}
<1>1. U \subseteq Nat /\ U # {}
  <2>1. \A x \in 1 .. n : n - x \in Nat
    OBVIOUS
  <2> QED
    BY <2>1
<1>2. PICK u \in U : \A y \in U : u <= y
  BY <1>1, LeastNumber
<1>3. PICK x \in T : u = n - x
  OBVIOUS
<1>4. \A y \in T : n - y \in U /\ y \in Nat /\ x \in Nat
  OBVIOUS
<1> HIDE DEF U
<1>5. \A y \in T : x >= y
  BY <1>2, <1>3, <1>4
<1>6. Max(T) \in T /\ \A y \in T : Max(T) >= y
  BY <1>3, <1>5 DEF Max
<1> QED
  BY <1>6

(* Induction: a set with 0 that is closed under successors holds every number. *)
LEMMA NumberInduction ==
  ASSUME NEW P \in SUBSET Nat, 0 \in P, \A n \in P : n + 1 \in P
  PROVE  P = Nat
<1>1. SUFFICES ASSUME Nat \ P # {} PROVE FALSE
  OBVIOUS
<1>2. PICK n \in Nat \ P : \A m \in Nat \ P : n <= m
  BY <1>1, LeastNumber
<1>3. n - 1 \in P /\ n - 1 \in Nat
  BY <1>2
<1> QED
  BY <1>2, <1>3

(* A set of sets that has the empty one, and with a set every set that has one *)
(* element more, has all the sets of a finite set.                             *)
LEMMA SetInduction ==
  ASSUME NEW S, IsFiniteSet(S), NEW C \in SUBSET SUBSET S,
         {} \in C, \A T \in C : \A x \in S \ T : T \cup {x} \in C
  PROVE  C = SUBSET S
<1> DEFINE P == {n \in Nat : \A T \in SUBSET S : Cardinality(T) = n => T \in C}
<1>1. \A T \in SUBSET S : IsFiniteSet(T) /\ Cardinality(T) \in Nat
  BY FS_Subset, FS_CardinalityType
<1>2. 0 \in P
  BY <1>1, FS_EmptySet
<1>3. ASSUME NEW n \in P PROVE n + 1 \in P
  <2>1. SUFFICES ASSUME NEW T \in SUBSET S, Cardinality(T) = n + 1 PROVE T \in C
    OBVIOUS
  <2>2. PICK x \in T : TRUE
    BY <1>1, <2>1, FS_EmptySet
  <2>3. Cardinality(T \ {x}) = n
    BY <1>1, <2>1, <2>2, FS_RemoveElement
  <2>4. T \ {x} \in C /\ x \in S \ (T \ {x}) /\ T = (T \ {x}) \cup {x}
    BY <2>2, <2>3
  <2> QED
    BY <2>4
<1>4. P = Nat
  <2> HIDE DEF P
  <2>1. P \in SUBSET Nat
    BY DEF P
  <2> QED
    BY <1>2, <1>3, <2>1, NumberInduction
<1> QED
  BY <1>1, <1>4

-----------------------------------------------------------------------------
(* Functions that are defined by recursion on a number exist, so that the  *)
(* definition f[n \in 0 .. N] == ... holds as an equation.                 *)
Steps(N, V) == [1 .. N -> [V -> V]]

Recursion(g, N, V, b, step) ==
  /\ g \in [0 .. N -> V]
  /\ g[0] = b
  /\ \A n \in 1 .. N : g[n] = step[n][g[n-1]]

LEMMA RecursionOverNumbers ==
  ASSUME NEW N \in Nat, NEW V, NEW b \in V, NEW step \in Steps(N, V)
  PROVE  \E g : Recursion(g, N, V, b, step)
<1> USE DEF Steps
<1> DEFINE Good(m, g) ==
      g = [n \in 0 .. m |-> IF n = 0 THEN b ELSE step[n][g[n-1]]]
    P == {m \in Nat : m <= N => \E g \in [0 .. m -> V] : Good(m, g)}
<1>1. 0 \in P
  <2>1. [n \in 0 .. 0 |-> b] \in [0 .. 0 -> V] /\ Good(0, [n \in 0 .. 0 |-> b])
    OBVIOUS
  <2> QED
    BY <2>1
<1>2. ASSUME NEW m \in P PROVE m + 1 \in P
  <2>1. SUFFICES ASSUME m + 1 <= N
                 PROVE  \E g \in [0 .. m + 1 -> V] : Good(m + 1, g)
    <3> HIDE DEF Good
    <3> QED
      OBVIOUS
  <2>2. PICK g \in [0 .. m -> V] : Good(m, g)
    BY <2>1
  <2>3. m + 1 \in 1 .. N /\ g[m] \in V /\ m \in Nat
    BY <2>1
  <2> DEFINE h == [n \in 0 .. m + 1 |-> IF n <= m THEN g[n] ELSE step[m + 1][g[m]]]
  <2>4. step[m + 1][g[m]] \in V
    BY <2>3
  <2>5. h \in [0 .. m + 1 -> V]
    BY <2>3, <2>4
  <2>6. ASSUME NEW n \in 0 .. m + 1
        PROVE  h[n] = IF n = 0 THEN b ELSE step[n][h[n-1]]
    <3>1. CASE n <= m
      <4>1. n \in 0 .. m /\ h[n] = g[n] /\ (n # 0 => h[n-1] = g[n-1])
        BY <2>3, <3>1
      <4> QED
        BY <2>2, <4>1
    <3>2. CASE n = m + 1
      BY <2>3, <3>2
    <3> QED
      BY <2>3, <3>1, <3>2
  <2>7. Good(m + 1, h)
    <3>1. h = [n \in 0 .. m + 1 |-> h[n]]
      BY <2>5
    <3> HIDE DEF h
    <3> QED
      BY <2>6, <3>1
  <2> QED
    BY <2>5, <2>7
<1>3. P = Nat
  <2>1. P \in SUBSET Nat
    OBVIOUS
  <2> HIDE DEF P
  <2> QED
    BY <1>1, <1>2, <2>1, NumberInduction
<1>4. PICK g \in [0 .. N -> V] : Good(N, g)
  BY <1>3
<1>5. g[0] = b /\ \A n \in 1 .. N : g[n] = step[n][g[n-1]]
  BY <1>4
<1> QED
  BY <1>5 DEF Recursion

-----------------------------------------------------------------------------
(* Sums.  FoldFunction takes the elements in the order in which CHOOSE     *)
(* finds them.                                                             *)
Pick(T) == CHOOSE x \in T : TRUE

AreSums(g, f, S) ==
  g = [T \in SUBSET S |-> IF T = {} THEN 0 ELSE f[Pick(T)] + g[T \ {Pick(T)}]]

SumsOf(f, S) == CHOOSE g : AreSums(g, f, S)

Total(f) == FoldFunction(+, 0, f)

LEMMA PickIsElement ==
  ASSUME NEW T, T # {}
  PROVE  Pick(T) \in T
BY DEF Pick

LEMMA RestIsSmaller ==
  ASSUME NEW T, IsFiniteSet(T), NEW x \in T
  PROVE  /\ Cardinality(T) \in Nat /\ Cardinality(T \ {x}) = Cardinality(T) - 1
         /\ IsFiniteSet(T \ {x})
BY FS_CardinalityType, FS_RemoveElement

(* There is a function of the sums over the subsets. *)
LEMMA SumsExist ==
  ASSUME NEW S, IsFiniteSet(S), NEW f \in [S -> Int]
  PROVE  \E g \in [SUBSET S -> Int] : AreSums(g, f, S)
<1> DEFINE Upto(m) == {T \in SUBSET S : Cardinality(T) <= m}
    Good(m, g) == \A T \in Upto(m) : g[T] = IF T = {} THEN 0 ELSE f[Pick(T)] + g[T \ {Pick(T)}]
    P == {m \in Nat : \E g \in [Upto(m) -> Int] : Good(m, g)}
<1>1. \A T \in SUBSET S : IsFiniteSet(T) /\ Cardinality(T) \in Nat /\ Cardinality(T) <= Cardinality(S)
  BY FS_Subset, FS_CardinalityType
<1>2. \A T \in SUBSET S : T # {} =>
        /\ Pick(T) \in T /\ Pick(T) \in S
        /\ T \ {Pick(T)} \in SUBSET S
        /\ Cardinality(T \ {Pick(T)}) = Cardinality(T) - 1
  BY <1>1, FS_RemoveElement, PickIsElement
<1>3. 0 \in P
  <2>1. \A T \in Upto(0) : T = {}
    BY <1>1, FS_EmptySet
  <2>2. [T \in Upto(0) |-> 0] \in [Upto(0) -> Int] /\ Good(0, [T \in Upto(0) |-> 0])
    BY <2>1
  <2> QED
    BY <2>2
<1>4. ASSUME NEW m \in P PROVE m + 1 \in P
  <2>1. m \in Nat
    OBVIOUS
  <2>2. PICK g \in [Upto(m) -> Int] : Good(m, g)
    OBVIOUS
  <2> DEFINE h == [T \in Upto(m + 1) |->
        IF T = {} THEN 0 ELSE f[Pick(T)] + g[T \ {Pick(T)}]]
  <2>3. ASSUME NEW T \in Upto(m + 1), T # {}
        PROVE  /\ f[Pick(T)] \in Int
               /\ T \ {Pick(T)} \in Upto(m) /\ T \ {Pick(T)} \in Upto(m + 1)
               /\ g[T \ {Pick(T)}] \in Int
    BY <1>1, <1>2, <2>1, <2>3
  <2>4. h \in [Upto(m + 1) -> Int]
    BY <2>3
  <2>5. \A T \in Upto(m) : T \in Upto(m + 1) /\ h[T] = g[T]
    BY <1>1, <2>1, <2>2
  <2>6. Good(m + 1, h)
    BY <2>3, <2>5
  <2>7. \E k \in [Upto(m + 1) -> Int] : Good(m + 1, k)
    <3> HIDE DEF h, Good, Upto
    <3> QED
      BY <2>4, <2>6
  <2>8. m + 1 \in Nat
    BY <2>1
  <2> HIDE DEF Good, Upto
  <2> QED
    BY <2>7, <2>8
<1>5. P = Nat
  <2>1. P \in SUBSET Nat
    OBVIOUS
  <2> HIDE DEF P
  <2> QED
    BY <1>3, <1>4, <2>1, NumberInduction
<1>6. Cardinality(S) \in P /\ Upto(Cardinality(S)) = SUBSET S
  <2> HIDE DEF P
  <2> QED
    BY <1>1, <1>5, FS_CardinalityType
<1>7. PICK g \in [SUBSET S -> Int] : Good(Cardinality(S), g)
  <2> HIDE DEF Good, Upto
  <2> QED
    BY <1>6
<1>8. g = [T \in SUBSET S |-> g[T]]
  OBVIOUS
<1> QED
  BY <1>6, <1>7, <1>8 DEF AreSums

(* The sum over a set with an element is that element's number and the sum *)
(* over the others, whichever element it is.                               *)
LEMMA SumsRecursion ==
  ASSUME NEW S, IsFiniteSet(S), NEW f \in [S -> Int]
  PROVE  /\ SumsOf(f, S) \in [SUBSET S -> Int]
         /\ SumsOf(f, S)[{}] = 0
         /\ \A T \in SUBSET S : \A x \in T : SumsOf(f, S)[T] = f[x] + SumsOf(f, S)[T \ {x}]
<1> DEFINE g == SumsOf(f, S)
    C == {T \in SUBSET S : \A x \in T : g[T] = f[x] + g[T \ {x}]}
<1>1. g \in [SUBSET S -> Int] /\
      g = [T \in SUBSET S |-> IF T = {} THEN 0 ELSE f[Pick(T)] + g[T \ {Pick(T)}]]
  <2>1. PICK k \in [SUBSET S -> Int] : AreSums(k, f, S)
    BY SumsExist
  <2>2. AreSums(g, f, S)
    BY <2>1 DEF SumsOf
  <2> HIDE DEF g
  <2> USE DEF AreSums
  <2> DEFINE D == {T \in SUBSET S : g[T] = k[T]}
  <2>3. {} \in D
    BY <2>1, <2>2
  <2>4. \A T \in SUBSET S : IsFiniteSet(T) /\ Cardinality(T) \in Nat
    BY FS_Subset, FS_CardinalityType
  <2> DEFINE P == {n \in Nat : \A T \in SUBSET S : Cardinality(T) = n => T \in D}
  <2>5. 0 \in P
    BY <2>3, <2>4, FS_EmptySet
  <2>6. ASSUME NEW n \in P PROVE n + 1 \in P
    <3>1. SUFFICES ASSUME NEW T \in SUBSET S, Cardinality(T) = n + 1 PROVE T \in D
      OBVIOUS
    <3>2. n \in Nat /\ T # {}
      BY <2>4, <3>1, FS_EmptySet
    <3>3. Pick(T) \in T /\ Cardinality(T \ {Pick(T)}) = n
      <4>1. Pick(T) \in T
        BY <3>2, PickIsElement
      <4>2. Cardinality(T \ {Pick(T)}) = Cardinality(T) - 1
        BY <2>4, <4>1, RestIsSmaller
      <4> QED
        BY <3>1, <3>2, <4>1, <4>2
    <3>4. g[T \ {Pick(T)}] = k[T \ {Pick(T)}]
      BY <3>3
    <3> QED
      BY <2>1, <2>2, <3>2, <3>4
  <2>7. P = Nat
    <3>1. P \in SUBSET Nat
      OBVIOUS
    <3> HIDE DEF P
    <3> QED
      BY <2>5, <2>6, <3>1, NumberInduction
  <2>8. \A T \in SUBSET S : g[T] = k[T]
    BY <2>4, <2>7
  <2> QED
    BY <2>1, <2>2, <2>8
<1> HIDE DEF g
<1>2. g[{}] = 0
  BY <1>1
<1>3. \A T \in SUBSET S : IsFiniteSet(T) /\ Cardinality(T) \in Nat
  BY FS_Subset, FS_CardinalityType
<1> DEFINE P == {n \in Nat : \A T \in SUBSET S : Cardinality(T) = n => T \in C}
<1>4. 0 \in P
  BY <1>3, FS_EmptySet
<1>5. ASSUME NEW n \in P PROVE n + 1 \in P
  <2>1. SUFFICES ASSUME NEW T \in SUBSET S, Cardinality(T) = n + 1, NEW x \in T
                 PROVE  g[T] = f[x] + g[T \ {x}]
    OBVIOUS
  <2> DEFINE p == Pick(T)
  <2>2. n \in Nat /\ p \in T
    BY PickIsElement
  <2> HIDE DEF p
  <2>3. g[T] = f[p] + g[T \ {p}]
    BY <1>1, <2>2 DEF p
  <2>4. CASE x = p
    BY <2>3, <2>4
  <2>5. CASE x # p
    <3>1. Cardinality(T \ {p}) = n /\ Cardinality(T \ {x}) = n
      <4>1. \A y \in T : Cardinality(T \ {y}) = Cardinality(T) - 1
        BY <1>3, RestIsSmaller
      <4> QED
        BY <2>1, <2>2, <4>1
    <3>2. T \ {p} \in C /\ T \ {x} \in C /\ x \in T \ {p} /\ p \in T \ {x}
      BY <2>2, <2>5, <3>1
    <3>3. (T \ {p}) \ {x} = (T \ {x}) \ {p}
      OBVIOUS
    <3>4. g[T \ {p}] = f[x] + g[(T \ {p}) \ {x}] /\ g[T \ {x}] = f[p] + g[(T \ {p}) \ {x}]
      BY <3>2, <3>3
    <3>5. /\ f[x] \in Int /\ f[p] \in Int
          /\ g[(T \ {p}) \ {x}] \in Int
      BY <1>1, <2>2
    <3> QED
      BY <2>3, <3>4, <3>5
  <2> QED
    BY <2>4, <2>5
<1>6. P = Nat
  <2>1. P \in SUBSET Nat
    OBVIOUS
  <2> HIDE DEF P
  <2> QED
    BY <1>4, <1>5, <2>1, NumberInduction
<1>7. \A T \in SUBSET S : T \in C
  BY <1>3, <1>6
<1> QED
  BY <1>1, <1>2, <1>7 DEF g

\* The sum over a subset T of S.
SumOn(f, S, T) == SumsOf(f, S)[T]

LEMMA SumOnType ==
  ASSUME NEW S, IsFiniteSet(S), NEW f \in [S -> Int], NEW T \in SUBSET S
  PROVE  SumOn(f, S, T) \in Int
<1>1. SumsOf(f, S) \in [SUBSET S -> Int]
  BY SumsRecursion
<1> QED
  BY <1>1 DEF SumOn

LEMMA SumOnEmpty ==
  ASSUME NEW S, IsFiniteSet(S), NEW f \in [S -> Int]
  PROVE  SumOn(f, S, {}) = 0
BY SumsRecursion, Zenon DEF SumOn

LEMMA SumOnMore ==
  ASSUME NEW S, IsFiniteSet(S), NEW f \in [S -> Int],
         NEW T \in SUBSET S, NEW x \in S \ T
  PROVE  SumOn(f, S, T \cup {x}) = f[x] + SumOn(f, S, T)
<1>1. T \cup {x} \in SUBSET S /\ x \in T \cup {x} /\ (T \cup {x}) \ {x} = T
  OBVIOUS
<1>2. \A U \in SUBSET S : \A y \in U : SumsOf(f, S)[U] = f[y] + SumsOf(f, S)[U \ {y}]
  BY SumsRecursion, Zenon
<1>3. SumsOf(f, S)[T \cup {x}] = f[x] + SumsOf(f, S)[(T \cup {x}) \ {x}]
  BY <1>1, <1>2, Zenon
<1> QED
  BY <1>1, <1>3 DEF SumOn

LEMMA TotalIsSum ==
  ASSUME NEW f
  PROVE  Total(f) = SumOn(f, DOMAIN f, DOMAIN f)
BY Zenon DEF Total, FoldFunction, FoldFunctionOnSet, MapThenFoldSet, SumOn, SumsOf, AreSums, Pick

LEMMA TotalType ==
  ASSUME NEW S, IsFiniteSet(S), NEW f \in [S -> Int]
  PROVE  Total(f) \in Int
BY TotalIsSum, SumOnType, SumOnEmpty, SumOnMore

(* The sum of differences is the difference of the sums. *)
LEMMA TotalOfDifferences ==
  ASSUME NEW S, IsFiniteSet(S), NEW f \in [S -> Int], NEW g \in [S -> Int]
  PROVE  Total([x \in S |-> f[x] - g[x]]) = Total(f) - Total(g)
<1> DEFINE d == [x \in S |-> f[x] - g[x]]
    C == {T \in SUBSET S : SumOn(d, S, T) = SumOn(f, S, T) - SumOn(g, S, T)}
<1>1. d \in [S -> Int] /\ \A x \in S : d[x] = f[x] - g[x]
  OBVIOUS
<1> HIDE DEF d
<1>2. {} \in C
  BY <1>1, SumOnType, SumOnEmpty, SumOnMore
<1>3. ASSUME NEW T \in C, NEW x \in S \ T
      PROVE  T \cup {x} \in C
  <2>1. T \cup {x} \in SUBSET S /\ x \in T \cup {x} /\ (T \cup {x}) \ {x} = T
    OBVIOUS
  <2>2. /\ SumOn(d, S, T \cup {x}) = d[x] + SumOn(d, S, T)
        /\ SumOn(f, S, T \cup {x}) = f[x] + SumOn(f, S, T)
        /\ SumOn(g, S, T \cup {x}) = g[x] + SumOn(g, S, T)
    BY <1>1, <2>1, SumOnType, SumOnEmpty, SumOnMore
  <2>3. /\ SumOn(f, S, T) \in Int /\ SumOn(g, S, T) \in Int
        /\ SumOn(d, S, T) \in Int
    BY <1>1, SumOnType, SumOnEmpty, SumOnMore
  <2>4. SumOn(d, S, T) = SumOn(f, S, T) - SumOn(g, S, T)
    OBVIOUS
  <2> QED
    BY <1>1, <2>1, <2>2, <2>3, <2>4
<1>4. C = SUBSET S
  <2>1. C \in SUBSET SUBSET S
    OBVIOUS
  <2> HIDE DEF C
  <2> QED
    BY <1>2, <1>3, <2>1, SetInduction
<1>5. SumOn(d, S, S) = SumOn(f, S, S) - SumOn(g, S, S)
  BY <1>4
<1> QED
  BY <1>1, <1>5, TotalIsSum DEF d

(* Numbers that are not negative have a sum that is not negative, and zeros *)
(* have the sum zero.                                                       *)
LEMMA TotalIsNatural ==
  ASSUME NEW S, IsFiniteSet(S), NEW f \in [S -> Nat]
  PROVE  Total(f) \in Nat /\ ((\A x \in S : f[x] = 0) => Total(f) = 0)
<1> DEFINE C == {T \in SUBSET S : /\ SumOn(f, S, T) \in Nat
                                  /\ (\A x \in S : f[x] = 0) => SumOn(f, S, T) = 0}
<1>1. f \in [S -> Int]
  OBVIOUS
<1>2. {} \in C
  BY <1>1, SumOnType, SumOnEmpty, SumOnMore
<1>3. ASSUME NEW T \in C, NEW x \in S \ T
      PROVE  T \cup {x} \in C
  <2>1. T \cup {x} \in SUBSET S /\ x \in T \cup {x} /\ (T \cup {x}) \ {x} = T
    OBVIOUS
  <2>2. SumOn(f, S, T \cup {x}) = f[x] + SumOn(f, S, T)
    BY <1>1, <2>1, SumOnType, SumOnEmpty, SumOnMore
  <2>3. f[x] \in Nat /\ SumOn(f, S, T) \in Nat
    OBVIOUS
  <2> QED
    BY <2>1, <2>2, <2>3
<1>4. C = SUBSET S
  <2>1. C \in SUBSET SUBSET S
    OBVIOUS
  <2> HIDE DEF C
  <2> QED
    BY <1>2, <1>3, <2>1, SetInduction
<1> QED
  BY <1>4, TotalIsSum

(* Changing one number changes the sum by as much. *)
LEMMA TotalOfChange ==
  ASSUME NEW S, IsFiniteSet(S), NEW f \in [S -> Int], NEW y \in S, NEW v \in Int
  PROVE  Total([f EXCEPT ![y] = v]) = Total(f) - f[y] + v
<1> DEFINE g == [f EXCEPT ![y] = v]
    C == {T \in SUBSET S : SumOn(g, S, T) = SumOn(f, S, T) + IF y \in T THEN v - f[y] ELSE 0}
<1>1. g \in [S -> Int] /\ g[y] = v /\ \A x \in S \ {y} : g[x] = f[x]
  OBVIOUS
<1> HIDE DEF g
<1>2. {} \in C
  BY <1>1, SumOnType, SumOnEmpty, SumOnMore
<1>3. ASSUME NEW T \in C, NEW x \in S \ T
      PROVE  T \cup {x} \in C
  <2>1. T \cup {x} \in SUBSET S /\ x \in T \cup {x} /\ (T \cup {x}) \ {x} = T
    OBVIOUS
  <2>2. /\ SumOn(f, S, T \cup {x}) = f[x] + SumOn(f, S, T)
        /\ SumOn(g, S, T \cup {x}) = g[x] + SumOn(g, S, T)
    BY <1>1, <2>1, SumOnType, SumOnEmpty, SumOnMore
  <2>3. SumOn(f, S, T) \in Int /\ SumOn(g, S, T) \in Int
    BY <1>1, SumOnType, SumOnEmpty, SumOnMore
  <2>4. SumOn(g, S, T) = SumOn(f, S, T) + IF y \in T THEN v - f[y] ELSE 0
    OBVIOUS
  <2>5. CASE x = y
    BY <1>1, <2>1, <2>2, <2>3, <2>4, <2>5
  <2>6. CASE x # y
    BY <1>1, <2>1, <2>2, <2>3, <2>4, <2>6
  <2> QED
    BY <2>5, <2>6
<1>4. C = SUBSET S
  <2>1. C \in SUBSET SUBSET S
    OBVIOUS
  <2> HIDE DEF C
  <2> QED
    BY <1>2, <1>3, <2>1, SetInduction
<1>5. SumOn(g, S, S) = SumOn(f, S, S) + (v - f[y])
  BY <1>4
<1>6. SumOn(f, S, S) \in Int /\ f[y] \in Int
  BY SumOnType
<1>7. Total(g) = SumOn(g, S, S) /\ Total(f) = SumOn(f, S, S)
  BY <1>1, TotalIsSum
<1> QED
  BY <1>5, <1>6, <1>7 DEF g
=============================================================================
