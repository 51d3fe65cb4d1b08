------------------------ MODULE KeyValueStoreProofs ------------------------
(***************************************************************************)
(* The store of rpckeyvaluestore.cpp for every number of lists, every hash *)
(* function and every set of names.  The counters hold whatever the names  *)
(* are; that every node is found, and that the store is a map, hold if no  *)
(* name has 31 characters (LongKeys = {}): a node whose name has no        *)
(* terminator is lost.                                                     *)
(***************************************************************************)
EXTENDS KeyValueStore, Induction, SequenceTheorems

-----------------------------------------------------------------------------
(* Sequences.                                                              *)

(* A new head. *)
LEMMA Prepended ==
  ASSUME NEW S, NEW s \in Seq(S), NEW x \in S
  PROVE  /\ <<x>> \o s \in Seq(S)
         /\ Len(<<x>> \o s) = Len(s) + 1
         /\ (<<x>> \o s)[1] = x
         /\ \A i \in 1 .. Len(s) : (<<x>> \o s)[i + 1] = s[i]
<1>1. <<x>> \in Seq(S) /\ Len(<<x>>) = 1 /\ <<x>>[1] = x /\ Len(s) \in Nat
  OBVIOUS
<1>2. /\ <<x>> \o s \in Seq(S)
      /\ Len(<<x>> \o s) = Len(<<x>>) + Len(s)
      /\ \A i \in 1 .. Len(<<x>>) + Len(s) :
           (<<x>> \o s)[i] = IF i <= Len(<<x>>) THEN <<x>>[i] ELSE s[i - Len(<<x>>)]
  BY <1>1, ConcatProperties
<1> QED
  BY <1>1, <1>2

(* One element unlinked. *)
LEMMA Removed ==
  ASSUME NEW S, NEW s \in Seq(S), NEW i \in 1 .. Len(s)
  PROVE  /\ RemoveAt(s, i) \in Seq(S)
         /\ Len(RemoveAt(s, i)) = Len(s) - 1
         /\ \A j \in 1 .. Len(s) - 1 :
              RemoveAt(s, i)[j] = IF j < i THEN s[j] ELSE s[j + 1]
<1> DEFINE t == SubSeq(s, 1, i - 1)
    u == SubSeq(s, i + 1, Len(s))
<1>1. Len(s) \in Nat /\ i \in Nat /\ \A j \in 1 .. Len(s) : s[j] \in S
  OBVIOUS
<1>2. /\ t \in Seq(S) /\ Len(t) = i - 1
      /\ \A j \in 1 .. i - 1 : t[j] = s[j]
  BY <1>1, SubSeqProperties
<1>3. /\ u \in Seq(S) /\ Len(u) = Len(s) - i
      /\ \A j \in 1 .. Len(s) - i : u[j] = s[i + j]
  <2>1. /\ u \in Seq(S)
        /\ Len(u) = IF i + 1 <= Len(s) THEN Len(s) - (i + 1) + 1 ELSE 0
        /\ \A j \in 1 .. Len(s) - (i + 1) + 1 : u[j] = s[i + 1 + j - 1]
    BY <1>1, SubSeqProperties
  <2> HIDE DEF u
  <2> QED
    BY <1>1, <2>1
<1> HIDE DEF t, u
<1>4. /\ t \o u \in Seq(S)
      /\ Len(t \o u) = Len(t) + Len(u)
      /\ \A j \in 1 .. Len(t) + Len(u) :
           (t \o u)[j] = IF j <= Len(t) THEN t[j] ELSE u[j - Len(t)]
  BY <1>2, <1>3, ConcatProperties
<1>5. ASSUME NEW j \in 1 .. Len(s) - 1
      PROVE  (t \o u)[j] = IF j < i THEN s[j] ELSE s[j + 1]
  <2>1. (t \o u)[j] = IF j <= i - 1 THEN t[j] ELSE u[j - (i - 1)]
    BY <1>1, <1>2, <1>3, <1>4
  <2>2. CASE j < i
    BY <1>1, <1>2, <2>1, <2>2
  <2>3. CASE j >= i
    <3>1. j - (i - 1) \in 1 .. Len(s) - i /\ i + (j - (i - 1)) = j + 1
      BY <1>1, <2>3
    <3>2. u[j - (i - 1)] = s[j + 1]
      BY <1>3, <3>1
    <3>3. ~ (j <= i - 1) /\ ~ (j < i)
      BY <1>1, <2>3
    <3>4. (t \o u)[j] = u[j - (i - 1)]
      BY <2>1, <3>3
    <3> QED
      BY <3>2, <3>3, <3>4
  <2>4. j < i \/ j >= i
    BY <1>1
  <2> HIDE DEF t, u
  <2> QED
    BY <2>2, <2>3, <2>4, Zenon
<1>6. RemoveAt(s, i) = t \o u
  BY DEF RemoveAt, t, u
<1>7. Len(t \o u) = Len(s) - 1
  BY <1>1, <1>2, <1>3, <1>4
<1> QED
  BY <1>4, <1>5, <1>6, <1>7

(* In a finite set of numbers there is one with n smaller ones in the set, *)
(* for every n below the size of the set.                                  *)
LEMMA Ranked ==
  ASSUME NEW P \in SUBSET Nat, IsFiniteSet(P)
  PROVE  \A n \in 0 .. Cardinality(P) - 1 :
           \E i \in P : Cardinality({j \in P : j < i}) = n
<1> DEFINE Below(i) == {j \in P : j < i}
    R == {n \in Nat : n < Cardinality(P) => \E i \in P : Cardinality(Below(i)) = n}
<1>1. Cardinality(P) \in Nat /\ (P = {} => Cardinality(P) = 0)
  BY FS_CardinalityType, FS_EmptySet
<1>2. \A i \in P : IsFiniteSet(Below(i))
  BY FS_Subset
<1>3. 0 \in R
  <2>1. CASE P = {}
    BY <1>1, <2>1
  <2>2. CASE P # {}
    <3>1. PICK i \in P : \A j \in P : i <= j
      BY <2>2, LeastNumber
    <3>2. Below(i) = {}
      <4>1. \A j \in P : j \in Nat /\ i \in Nat /\ ~ (j < i)
        BY <3>1
      <4> QED
        BY <4>1
    <3>3. Cardinality(Below(i)) = 0
      BY <3>2, FS_EmptySet
    <3> QED
      BY <3>3
  <2> QED
    BY <2>1, <2>2
<1>4. ASSUME NEW n \in R PROVE n + 1 \in R
  <2>1. SUFFICES ASSUME n + 1 < Cardinality(P)
                 PROVE  \E i \in P : Cardinality(Below(i)) = n + 1
    OBVIOUS
  <2>2. PICK i \in P : Cardinality(Below(i)) = n
    BY <1>1, <2>1
  <2> DEFINE U == Below(i) \cup {i}
  <2>3. IsFiniteSet(U) /\ Cardinality(U) = n + 1
    <3>1. i \notin Below(i)
      OBVIOUS
    <3> HIDE DEF Below
    <3> QED
      BY <1>2, <2>2, <3>1, FS_AddElement
  <2>4. P \ U # {}
    <3>1. SUFFICES ASSUME P \ U = {} PROVE FALSE
      OBVIOUS
    <3>2. U = P
      BY <3>1
    <3> QED
      BY <1>1, <2>1, <2>3, <3>2
  <2>5. PICK k \in P \ U : \A j \in P \ U : k <= j
    BY <2>4, LeastNumber
  <2>6. Below(k) = U
    <3>1. k \in P /\ k \notin U /\ \A j \in P : j \in Nat
      BY <2>5
    <3>2. ~ (k < i) /\ k # i
      BY <3>1
    <3>3. \A j \in P : j < k <=> j \in U
      BY <2>5, <3>1, <3>2
    <3> QED
      BY <3>3
  <2> QED
    BY <2>3, <2>5, <2>6
<1>5. R = Nat
  <2>1. R \in SUBSET Nat
    OBVIOUS
  <2> HIDE DEF R
  <2> QED
    BY <1>3, <1>4, <2>1, NumberInduction
<1> QED
  BY <1>1, <1>5

(* A choice of elements. *)
LEMMA ChosenElements ==
  ASSUME NEW S, NEW s \in Seq(S), NEW P \in SUBSET (DOMAIN s)
  PROVE  /\ ElementsAt(s, P) \in Seq(S)
         /\ Len(ElementsAt(s, P)) \in 0 .. Len(s)
         /\ P = {} => ElementsAt(s, P) = <<>>
<1>1. DOMAIN s = 1 .. Len(s) /\ Len(s) \in Nat
  OBVIOUS
<1>2. IsFiniteSet(1 .. Len(s)) /\ Cardinality(1 .. Len(s)) = Len(s)
  <2>1. /\ IsFiniteSet(1 .. Len(s))
        /\ Cardinality(1 .. Len(s)) = IF 1 > Len(s) THEN 0 ELSE Len(s) - 1 + 1
    BY <1>1, FS_Interval
  <2> QED
    BY <1>1, <2>1
<1>3. IsFiniteSet(P) /\ Cardinality(P) \in Nat /\ Cardinality(P) <= Len(s)
  BY <1>1, <1>2, FS_Subset, FS_CardinalityType
<1>4. ASSUME NEW n \in 1 .. Cardinality(P)
      PROVE  (CHOOSE i \in P : Cardinality({j \in P : j < i}) = n - 1) \in P
  <2>1. n - 1 \in 0 .. Cardinality(P) - 1
    BY <1>3
  <2>2. P \in SUBSET Nat
    BY <1>1
  <2>3. \E i \in P : Cardinality({j \in P : j < i}) = n - 1
    BY <1>3, <2>1, <2>2, Ranked
  <2> QED
    BY <2>3
<1>5. ElementsAt(s, P) \in [1 .. Cardinality(P) -> S]
  <2> DEFINE at(n) == CHOOSE i \in P : Cardinality({j \in P : j < i}) = n - 1
  <2>1. \A n \in 1 .. Cardinality(P) : at(n) \in P
    BY <1>4
  <2>2. ElementsAt(s, P) = [n \in 1 .. Cardinality(P) |-> s[at(n)]]
    BY DEF ElementsAt
  <2> HIDE DEF at
  <2>3. \A i \in P : s[i] \in S
    BY <1>1
  <2> QED
    BY <2>1, <2>2, <2>3
<1>6. ElementsAt(s, P) \in Seq(S) /\ Len(ElementsAt(s, P)) = Cardinality(P)
  BY <1>3, <1>5
<1>7. P = {} => Cardinality(P) = 0
  BY FS_EmptySet
<1> QED
  BY <1>3, <1>6, <1>7

-----------------------------------------------------------------------------
(* Types and counters, for all names.                                      *)

Counted == TypeOK /\ NumItemsIsLength /\ NumKeysCoversNodes

LEMMA ListsAreFinite ==
  /\ IsFiniteSet(Lists)
  /\ \A k \in Keys : Hash[k] \in Lists
BY ListsAssumption, FS_Interval DEF Lists

NodesIn(f) == Total([l \in Lists |-> Len(f[l])])

LEMMA NumNodesIsTotal == NumNodes = NodesIn(lists)
BY DEF NumNodes, NodesIn, Total, Entries

(* The number of nodes is a sum of lengths. *)
LEMMA NodesAreCounted ==
  ASSUME TypeOK
  PROVE  /\ [l \in Lists |-> Entries(l)] \in [Lists -> Nat]
         /\ NumNodes = Total([l \in Lists |-> Entries(l)])
         /\ NumNodes \in Nat
<1>1. [l \in Lists |-> Entries(l)] \in [Lists -> Nat]
  <2>1. \A l \in Lists : Len(lists[l]) \in Nat
    BY DEF TypeOK
  <2> QED
    BY <2>1 DEF Entries
<1>2. NumNodes = Total([l \in Lists |-> Entries(l)])
  BY DEF NumNodes, Total
<1> QED
  BY <1>1, <1>2, ListsAreFinite, TotalIsNatural

(* FindNode finds a node, if there is one. *)
LEMMA FindNodeFinds ==
  ASSUME NEW list \in Seq(Node), NEW k \in Keys
  PROVE  LET i == FindNode(list, k) IN
         \/ i = 0 /\ \A j \in 1 .. Len(list) : ~ Matches(list[j], k)
         \/ /\ i \in 1 .. Len(list) /\ Matches(list[i], k)
            /\ \A j \in 1 .. Len(list) : Matches(list[j], k) => i <= j
<1>1. DOMAIN list = 1 .. Len(list) /\ Len(list) \in Nat
  OBVIOUS
<1>2. CASE Found(list, k) = {}
  BY <1>1, <1>2 DEF FindNode, Found
<1>3. CASE Found(list, k) # {}
  <2>1. Found(list, k) \subseteq Nat
    BY <1>1 DEF Found
  <2>2. \E i \in Found(list, k) : \A j \in Found(list, k) : i <= j
    BY <1>3, <2>1, LeastNumber
  <2>3. /\ FindNode(list, k) \in Found(list, k)
        /\ \A j \in Found(list, k) : FindNode(list, k) <= j
    BY <1>3, <2>2 DEF FindNode
  <2> QED
    BY <1>1, <2>3 DEF Found
<1> QED
  BY <1>2, <1>3

(* Every action but Clear changes one list at most, and its counter with it. *)
LEMMA OneListChanges ==
  ASSUME Counted, NEW l \in Lists, NEW list \in Seq(Node),
         lists' = [lists EXCEPT ![l] = list],
         numItems' = [numItems EXCEPT ![l] = Len(list)],
         numKeys' \in Int, numKeys' - numKeys >= Len(list) - Len(lists[l])
  PROVE  Counted'
<1>1. lists \in [Lists -> Seq(Node)] /\ numItems \in [Lists -> Int] /\ numKeys \in Int
  BY DEF Counted, TypeOK
<1>2. Len(list) \in Nat /\ Len(lists[l]) \in Nat
  BY <1>1
<1>3. TypeOK'
  BY <1>1, <1>2 DEF TypeOK
<1>4. NumItemsIsLength'
  <2>1. ASSUME NEW m \in Lists
        PROVE  numItems'[m] = Len(lists'[m])
    BY <1>1, <2>1 DEF Counted, NumItemsIsLength
  <2> QED
    BY <2>1 DEF NumItemsIsLength
<1>5. NumKeysCoversNodes'
  <2> DEFINE f == [m \in Lists |-> Entries(m)]
    g == [m \in Lists |-> Entries(m)']
  <2>1. g = [f EXCEPT ![l] = Len(list)]
    BY <1>1 DEF Entries
  <2>2. /\ f \in [Lists -> Nat] /\ NumNodes = Total(f)
        /\ f[l] = Len(lists[l]) /\ NumNodes \in Nat
    BY NodesAreCounted DEF Counted, Entries
  <2>3. NumNodes' = Total(g)
    <3>1. (NumNodes = NodesIn(lists))'
      BY NumNodesIsTotal, PTL
    <3>2. NumNodes' = NodesIn(lists')
      BY <3>1
    <3> QED
      BY <3>2 DEF NodesIn, Entries
  <2> HIDE DEF f, g
  <2>4. Total(g) = Total(f) - f[l] + Len(list)
    <3>1. f \in [Lists -> Int] /\ Len(list) \in Int
      BY <1>2, <2>2
    <3> QED
      BY <2>1, <3>1, ListsAreFinite, TotalOfChange
  <2>5. numKeys >= NumNodes
    BY DEF Counted, NumKeysCoversNodes
  <2> QED
    BY <1>1, <1>2, <2>2, <2>3, <2>4, <2>5 DEF NumKeysCoversNodes
<1> QED
  BY <1>3, <1>4, <1>5 DEF Counted

\* A node that is overwritten, and a new one.
Rewritten(new, old) == [new EXCEPT !.nameEnd = new.flag = 0 \/ old.nameEnd]
Fresh(new, keyEnd, nameEnd) == [new EXCEPT !.keyEnd = keyEnd, !.nameEnd = nameEnd]

LEMMA ChangedNodeTypes ==
  ASSUME NEW new \in Node, NEW old \in Node, NEW x \in BOOLEAN, NEW y \in BOOLEAN
  PROVE  Rewritten(new, old) \in Node /\ Fresh(new, x, y) \in Node
BY DEF Rewritten, Fresh, Node

\* What insert, delete and clear do to the lists, in the terms of the lemmas.
LEMMA OverwriteChanges ==
  ASSUME TypeOK, NEW k \in Keys, NEW new \in Node, Overwrite(k, new)
  PROVE  \E i \in 1 .. Len(lists[Hash[k]]) :
           /\ Matches(lists[Hash[k]][i], k)
           /\ \A j \in 1 .. Len(lists[Hash[k]]) : Matches(lists[Hash[k]][j], k) => i <= j
           /\ lists' = [lists EXCEPT ![Hash[k]] =
                          [lists[Hash[k]] EXCEPT ![i] = Rewritten(new, lists[Hash[k]][i])]]
           /\ UNCHANGED numItems
<1> DEFINE l == Hash[k]
    i == FindNode(lists[l], k)
<1>1. l \in Lists /\ lists[l] \in Seq(Node)
  BY ListsAreFinite DEF TypeOK
<1>2. /\ i # 0 /\ UNCHANGED numItems
      /\ lists' = [lists EXCEPT ![l][i] = Rewritten(new, lists[l][i])]
  BY DEF Overwrite, Rewritten
<1>3. /\ i \in 1 .. Len(lists[l]) /\ Matches(lists[l][i], k)
      /\ \A j \in 1 .. Len(lists[l]) : Matches(lists[l][j], k) => i <= j
  BY <1>1, <1>2, FindNodeFinds
<1>4. lists' = [lists EXCEPT ![l] = [lists[l] EXCEPT ![i] = Rewritten(new, lists[l][i])]]
  BY <1>2
<1> QED
  BY <1>2, <1>3, <1>4

LEMMA PrependChanges ==
  ASSUME TypeOK, NEW k \in Keys, NEW new \in Node, Prepend(k, new)
  PROVE  /\ \A j \in 1 .. Len(lists[Hash[k]]) : ~ Matches(lists[Hash[k]][j], k)
         /\ \E keyEnd \in KeyEnds(k), nameEnd \in NameEnds :
              lists' = [lists EXCEPT ![Hash[k]] = <<Fresh(new, keyEnd, nameEnd)>> \o lists[Hash[k]]]
         /\ numItems' = [numItems EXCEPT ![Hash[k]] = numItems[Hash[k]] + 1]
<1>1. Hash[k] \in Lists /\ lists[Hash[k]] \in Seq(Node)
  BY ListsAreFinite DEF TypeOK
<1>2. \A j \in 1 .. Len(lists[Hash[k]]) : ~ Matches(lists[Hash[k]][j], k)
  BY <1>1, FindNodeFinds DEF Prepend
<1> QED
  BY <1>2 DEF Prepend, Fresh

LEMMA DeleteChanges ==
  ASSUME TypeOK, NEW k \in Keys, Delete(k)
  PROVE  \E i \in 1 .. Len(lists[Hash[k]]) :
           /\ Matches(lists[Hash[k]][i], k)
           /\ \A j \in 1 .. Len(lists[Hash[k]]) : Matches(lists[Hash[k]][j], k) => i <= j
           /\ lists' = [lists EXCEPT ![Hash[k]] = RemoveAt(lists[Hash[k]], i)]
           /\ numItems' = [numItems EXCEPT ![Hash[k]] = numItems[Hash[k]] - 1]
<1> DEFINE l == Hash[k]
    i == FindNode(lists[l], k)
<1>1. l \in Lists /\ lists[l] \in Seq(Node)
  BY ListsAreFinite DEF TypeOK
<1>2. /\ i # 0
      /\ lists' = [lists EXCEPT ![l] = RemoveAt(lists[l], i)]
      /\ numItems' = [numItems EXCEPT ![l] = numItems[l] - 1]
  BY DEF Delete
<1>3. /\ i \in 1 .. Len(lists[l]) /\ Matches(lists[l][i], k)
      /\ \A j \in 1 .. Len(lists[l]) : Matches(lists[l][j], k) => i <= j
  BY <1>1, <1>2, FindNodeFinds
<1> HIDE DEF i
<1> QED
  BY <1>2, <1>3

LEMMA InsertCounts ==
  ASSUME Counted, NEW k \in Keys, NEW new \in Node, Insert(k, new)
  PROVE  Counted'
<1> DEFINE l == Hash[k]
<1>1. /\ l \in Lists /\ TypeOK
      /\ lists \in [Lists -> Seq(Node)] /\ lists[l] \in Seq(Node) /\ Len(lists[l]) \in Nat
      /\ numItems \in [Lists -> Int] /\ numItems[l] = Len(lists[l])
      /\ numKeys \in Int /\ numKeys' = numKeys + 1
  BY ListsAreFinite DEF Counted, TypeOK, NumItemsIsLength, Insert
<1>2. CASE Overwrite(k, new)
  <2>1. PICK i \in 1 .. Len(lists[l]) :
          /\ lists' = [lists EXCEPT ![l] = [lists[l] EXCEPT ![i] = Rewritten(new, lists[l][i])]]
          /\ UNCHANGED numItems
    BY <1>1, <1>2, OverwriteChanges
  <2> DEFINE list == [lists[l] EXCEPT ![i] = Rewritten(new, lists[l][i])]
  <2>2. Rewritten(new, lists[l][i]) \in Node
    <3>1. lists[l][i] \in Node
      BY <1>1, ElementOfSeq
    <3> QED
      BY <3>1, ChangedNodeTypes
  <2>3. list \in Seq(Node) /\ Len(list) = Len(lists[l])
    BY <1>1, <2>1, <2>2, ExceptSeq
  <2>4. numItems' = [numItems EXCEPT ![l] = Len(list)]
    BY <1>1, <2>1, <2>3
  <2>5. lists' = [lists EXCEPT ![l] = list]
    BY <2>1
  <2>6. numKeys' \in Int /\ numKeys' - numKeys >= Len(list) - Len(lists[l])
    BY <1>1, <2>3
  <2> HIDE DEF list
  <2> QED
    BY <1>1, <2>3, <2>4, <2>5, <2>6, OneListChanges
<1>3. CASE Prepend(k, new)
  <2>0. numItems' = [numItems EXCEPT ![l] = numItems[l] + 1]
    BY <1>1, <1>3, PrependChanges, SMTT(30)
  <2>1. PICK x \in KeyEnds(k), y \in NameEnds :
          lists' = [lists EXCEPT ![l] = <<Fresh(new, x, y)>> \o lists[l]]
    BY <1>1, <1>3, PrependChanges, Zenon
  <2> DEFINE list == <<Fresh(new, x, y)>> \o lists[l]
  <2>2. Fresh(new, x, y) \in Node
    BY <2>1, ChangedNodeTypes DEF KeyEnds, NameEnds
  <2>3. list \in Seq(Node) /\ Len(list) = Len(lists[l]) + 1
    BY <1>1, <2>2, Prepended
  <2>4. numItems' = [numItems EXCEPT ![l] = Len(list)]
    BY <1>1, <2>0, <2>3
  <2>5. lists' = [lists EXCEPT ![l] = list]
    BY <2>1
  <2>6. numKeys' \in Int /\ numKeys' - numKeys >= Len(list) - Len(lists[l])
    BY <1>1, <2>3
  <2> HIDE DEF list
  <2> QED
    BY <1>1, <2>3, <2>4, <2>5, <2>6, OneListChanges
<1> QED
  BY <1>2, <1>3 DEF Insert

LEMMA DeleteCounts ==
  ASSUME Counted, NEW k \in Keys, Delete(k)
  PROVE  Counted'
<1> DEFINE l == Hash[k]
<1>1. /\ l \in Lists /\ TypeOK
      /\ lists \in [Lists -> Seq(Node)] /\ lists[l] \in Seq(Node) /\ Len(lists[l]) \in Nat
      /\ numItems \in [Lists -> Int] /\ numItems[l] = Len(lists[l])
      /\ numKeys \in Int /\ numKeys' = numKeys - 1
  BY ListsAreFinite DEF Counted, TypeOK, NumItemsIsLength, Delete
<1>2. PICK i \in 1 .. Len(lists[l]) :
        /\ lists' = [lists EXCEPT ![l] = RemoveAt(lists[l], i)]
        /\ numItems' = [numItems EXCEPT ![l] = numItems[l] - 1]
  BY <1>1, DeleteChanges
<1> DEFINE list == RemoveAt(lists[l], i)
<1>3. list \in Seq(Node) /\ Len(list) = Len(lists[l]) - 1
  BY <1>1, Removed
<1>4. numItems' = [numItems EXCEPT ![l] = Len(list)]
  BY <1>1, <1>2, <1>3
<1>5. lists' = [lists EXCEPT ![l] = list]
  BY <1>2
<1>6. numKeys' \in Int /\ numKeys' - numKeys >= Len(list) - Len(lists[l])
  BY <1>1, <1>3
<1> HIDE DEF list
<1> QED
  BY <1>1, <1>3, <1>4, <1>5, <1>6, OneListChanges

\* What a list keeps when the store is cleared.
Left(kept, l) == ElementsAt(lists[l], {i \in DOMAIN lists[l] : <<l, i>> \in kept})

LEMMA ClearCounts ==
  ASSUME Counted, Clear
  PROVE  Counted'
<1>1. /\ lists \in [Lists -> Seq(Node)] /\ numKeys \in Int
      /\ TypeOK /\ numKeys >= NumNodes
  BY DEF Counted, TypeOK, NumKeysCoversNodes
<1>2. PICK kept \in SUBSET Unterminated :
        /\ lists'    = [l \in Lists |-> Left(kept, l)]
        /\ numItems' = [l \in Lists |-> Len(Left(kept, l))]
        /\ numKeys'  = numKeys - Total([l \in Lists |-> Len(lists[l]) - Len(Left(kept, l))])
  BY DEF Clear, Left, Total
<1>3. ASSUME NEW l \in Lists
      PROVE  Left(kept, l) \in Seq(Node) /\ Len(Left(kept, l)) \in 0 .. Len(lists[l])
  BY <1>1, ChosenElements DEF Left
<1>4. \A l \in Lists : Len(lists[l]) \in Nat /\ Len(Left(kept, l)) \in Nat
  BY <1>1, <1>3
<1> DEFINE f == [l \in Lists |-> Len(lists[l])]
    g == [l \in Lists |-> Len(Left(kept, l))]
<1>5. /\ f \in [Lists -> Nat] /\ g \in [Lists -> Nat]
      /\ f \in [Lists -> Int] /\ g \in [Lists -> Int]
  BY <1>4
<1>6. NumNodes = Total(f)
  BY NumNodesIsTotal DEF NodesIn
<1>7. NumNodes' = Total(g)
  <2>1. (NumNodes = NodesIn(lists))'
    BY NumNodesIsTotal, PTL
  <2>2. NumNodes' = NodesIn(lists')
    BY <2>1
  <2>3. [l \in Lists |-> Len(lists'[l])] = g
    BY <1>2
  <2> HIDE DEF g
  <2> QED
    BY <2>2, <2>3 DEF NodesIn
<1>8. numKeys' = numKeys - (Total(f) - Total(g))
  <2>1. [l \in Lists |-> Len(lists[l]) - Len(Left(kept, l))] = [l \in Lists |-> f[l] - g[l]]
    OBVIOUS
  <2> HIDE DEF f, g
  <2>2. Total([l \in Lists |-> f[l] - g[l]]) = Total(f) - Total(g)
    BY <1>5, ListsAreFinite, TotalOfDifferences
  <2> QED
    BY <1>2, <2>1, <2>2
<1>9. Total(f) \in Nat /\ Total(g) \in Nat
  <2> HIDE DEF f, g
  <2> QED
    BY <1>5, ListsAreFinite, TotalIsNatural
<1> HIDE DEF f, g
<1>10. TypeOK'
  <2>1. numKeys' \in Int
    BY <1>1, <1>8, <1>9
  <2> QED
    BY <1>2, <1>3, <1>4, <2>1 DEF TypeOK
<1>11. NumItemsIsLength'
  BY <1>2 DEF NumItemsIsLength
<1>12. NumKeysCoversNodes'
  BY <1>1, <1>6, <1>7, <1>8, <1>9 DEF NumKeysCoversNodes
<1> QED
  BY <1>10, <1>11, <1>12 DEF Counted

LEMMA NothingCounts ==
  ASSUME Counted, UNCHANGED <<lists, numItems, numKeys>>
  PROVE  Counted'
<1>1. (NumNodes = NodesIn(lists))' /\ NumNodes = NodesIn(lists)
  BY NumNodesIsTotal, PTL
<1>2. NumNodes' = NodesIn(lists')
  BY <1>1
<1>3. NumNodes' = NumNodes
  BY <1>1, <1>2
<1> QED
  BY <1>3 DEF Counted, TypeOK, NumItemsIsLength, NumKeysCoversNodes

LEMMA InitCounted == Init => Counted
<1> SUFFICES ASSUME Init PROVE Counted
  OBVIOUS
<1>1. TypeOK /\ NumItemsIsLength
  BY DEF Init, TypeOK, NumItemsIsLength
<1> DEFINE f == [l \in Lists |-> Entries(l)]
<1>2. \A l \in Lists : f[l] = 0
  BY DEF Init, Entries
<1>3. f \in [Lists -> Nat] /\ NumNodes = Total(f)
  BY <1>1, NodesAreCounted
<1> HIDE DEF f
<1>4. NumNodes = 0
  BY <1>2, <1>3, ListsAreFinite, TotalIsNatural
<1> QED
  BY <1>1, <1>4 DEF Init, Counted, NumKeysCoversNodes

LEMMA NextCounted == Counted /\ [Next]_vars => Counted'
<1> SUFFICES ASSUME Counted, [Next]_vars PROVE Counted'
  OBVIOUS
<1>1. ASSUME NEW k \in Keys, NEW n \in Keys, InsertName(k, n) PROVE Counted'
  <2>1. NewNode(k, 1, 0, n) \in Node
    BY DEF NewNode, Node
  <2> QED
    BY <1>1, <2>1, InsertCounts DEF InsertName
<1>2. ASSUME NEW k \in Keys, NEW v \in Values, InsertValue(k, v) PROVE Counted'
  <2>1. NewNode(k, 0, v, NULL) \in Node
    BY DEF NewNode, Node
  <2> QED
    BY <1>2, <2>1, InsertCounts DEF InsertValue
<1>3. ASSUME NEW k \in Keys, DeleteMissing(k) PROVE Counted'
  BY <1>3, NothingCounts DEF DeleteMissing
<1>4. ASSUME NEW k \in Keys, Delete(k) PROVE Counted'
  BY <1>4, DeleteCounts
<1>5. ASSUME NEW k \in Keys, Lookup(k) PROVE Counted'
  BY <1>5, NothingCounts DEF Lookup
<1>6. CASE Clear
  BY <1>6, ClearCounts
<1>7. CASE UNCHANGED vars
  BY <1>7, NothingCounts DEF vars
<1> QED
  BY <1>1, <1>2, <1>3, <1>4, <1>5, <1>6, <1>7 DEF Next

(* The counters of the store and of its lists agree with the lists through   *)
(* every sequence of calls, names of 31 characters included.                 *)
THEOREM Counting == Spec => []Counted
BY InitCounted, NextCounted, PTL DEF Spec

(* The lists hold nodes, and the counters numbers.                           *)
THEOREM TypeCorrect == Spec => []TypeOK
<1>1. Counted => TypeOK
  BY DEF Counted
<1> QED
  BY <1>1, Counting, PTL

(* num_items is the length of its list: linked_list_delete_all_items, which  *)
(* counts it down while it unlinks nodes, stops at the end of the list.      *)
THEOREM ItemsAreCounted == Spec => []NumItemsIsLength
<1>1. Counted => NumItemsIsLength
  BY DEF Counted
<1> QED
  BY <1>1, Counting, PTL

(* num_keys is never below the number of nodes: however often keys are       *)
(* overwritten, deleted or cleared, the unsigned counter never wraps around. *)
THEOREM KeysAreCounted == Spec => []NumKeysCoversNodes
<1>1. Counted => NumKeysCoversNodes
  BY DEF Counted
<1> QED
  BY <1>1, Counting, PTL

-----------------------------------------------------------------------------
(* Without names of 31 characters: what a list holds.                      *)

\* The list of the names that hash to l: each is there once, and found.
Proper(l, s) ==
  /\ s \in Seq(Node)
  /\ \A i \in 1 .. Len(s) : s[i].keyEnd /\ Hash[s[i].key] = l
  /\ \A i, j \in 1 .. Len(s) : s[i].key = s[j].key => i = j

ListsAreProper == \A l \in Lists : Proper(l, lists[l])

\* What a list holds for k.
BindingAt(s, k) ==
  LET i == FindNode(s, k) IN IF i = 0 THEN Absent ELSE BindingIn(s[i])

\* t is the list s with k0 bound to b.
Rebinds(l, s, t, k0, b) ==
  /\ Proper(l, t)
  /\ \A k \in Keys : BindingAt(t, k) = IF k = k0 THEN b ELSE BindingAt(s, k)

LEMMA BindingOfAt ==
  ASSUME NEW k
  PROVE  BindingOf(k) = BindingAt(lists[Hash[k]], k)
BY DEF BindingOf, BindingAt, ListOf

LEMMA ProperLookup ==
  ASSUME NEW l \in Lists, NEW s, Proper(l, s), NEW k \in Keys
  PROVE  /\ \A i \in 1 .. Len(s) : s[i].key = k =>
              FindNode(s, k) = i /\ BindingAt(s, k) = BindingIn(s[i])
         /\ (\A i \in 1 .. Len(s) : s[i].key # k) =>
              FindNode(s, k) = 0 /\ BindingAt(s, k) = Absent
<1>1. s \in Seq(Node) /\ Len(s) \in Nat
  BY DEF Proper
<1> DEFINE f == FindNode(s, k)
<1>2. \/ f = 0 /\ \A j \in 1 .. Len(s) : ~ Matches(s[j], k)
      \/ f \in 1 .. Len(s) /\ Matches(s[f], k)
  BY <1>1, FindNodeFinds
<1>3. \A j \in 1 .. Len(s) : Matches(s[j], k) <=> s[j].key = k
  BY DEF Proper, Matches
<1>4. ASSUME NEW i \in 1 .. Len(s), s[i].key = k
      PROVE  f = i
  BY <1>2, <1>3, <1>4 DEF Proper
<1>5. BindingAt(s, k) = IF f = 0 THEN Absent ELSE BindingIn(s[f])
  BY DEF BindingAt
<1> HIDE DEF f
<1>6. (\A i \in 1 .. Len(s) : s[i].key # k) => f = 0
  BY <1>2, <1>3
<1>7. \A i \in 1 .. Len(s) : i # 0
  BY <1>1
<1> QED
  BY <1>4, <1>5, <1>6, <1>7 DEF f

(* The binding of a node is one, and of a node that was written the one that *)
(* was written.                                                              *)
LEMMA BindingsInNodes ==
  ASSUME LongKeys = {}, NEW new \in Node, NEW old \in Node, NEW x, NEW y
  PROVE  /\ BindingIn(new) # Absent
         /\ BindingIn(Rewritten(new, old)) = BindingIn(new)
         /\ BindingIn(Fresh(new, x, y)) = BindingIn(new)
<1>1. BindingIn(new) # Absent
  BY DEF BindingIn, Node, Absent, ENOENT, Name, Number
<1>2. ASSUME NEW n, n.flag = new.flag, n.value = new.value, n.name = new.name
      PROVE  BindingIn(n) = BindingIn(new)
  BY <1>2 DEF BindingIn, NameIn
<1> QED
  BY <1>1, <1>2 DEF Rewritten, Fresh, Node

LEMMA ProperOverwritten ==
  ASSUME LongKeys = {}, NEW l \in Lists, NEW s, Proper(l, s),
         NEW i \in 1 .. Len(s), NEW new \in Node, new.key = s[i].key, new.keyEnd
  PROVE  Rebinds(l, s, [s EXCEPT ![i] = Rewritten(new, s[i])], new.key, BindingIn(new))
<1> DEFINE t == [s EXCEPT ![i] = Rewritten(new, s[i])]
<1>1. s \in Seq(Node) /\ Len(s) \in Nat /\ s[i] \in Node
  BY ElementOfSeq DEF Proper
<1>2. Rewritten(new, s[i]) \in Node
  BY <1>1, ChangedNodeTypes
<1>3. /\ t \in Seq(Node) /\ Len(t) = Len(s)
      /\ \A j \in 1 .. Len(s) : t[j] = IF j = i THEN Rewritten(new, s[i]) ELSE s[j]
  BY <1>1, <1>2, ExceptSeq
<1>4. Rewritten(new, s[i]).key = new.key /\ Rewritten(new, s[i]).keyEnd
  BY DEF Rewritten, Node
<1> HIDE DEF t
<1>5. \A j \in 1 .. Len(s) : t[j].key = s[j].key /\ t[j].keyEnd
  BY <1>3, <1>4 DEF Proper
<1>6. Proper(l, t)
  BY <1>3, <1>5 DEF Proper
<1>7. ASSUME NEW k \in Keys
      PROVE  BindingAt(t, k) = IF k = new.key THEN BindingIn(new) ELSE BindingAt(s, k)
  <2>1. CASE k = new.key
    <3>1. t[i].key = k /\ i \in 1 .. Len(t) /\ t[i] = Rewritten(new, s[i])
      BY <1>3, <1>5, <2>1
    <3>2. BindingAt(t, k) = BindingIn(t[i])
      BY <1>6, <3>1, ProperLookup
    <3> QED
      BY <1>1, <2>1, <3>1, <3>2, BindingsInNodes
  <2>2. CASE k # new.key /\ \E j \in 1 .. Len(s) : s[j].key = k
    <3>1. PICK j \in 1 .. Len(s) : s[j].key = k
      BY <2>2
    <3>2. t[j] = s[j] /\ t[j].key = k /\ j \in 1 .. Len(t)
      BY <1>3, <2>2, <3>1
    <3>3. BindingAt(t, k) = BindingIn(t[j]) /\ BindingAt(s, k) = BindingIn(s[j])
      BY <1>6, <3>1, <3>2, ProperLookup
    <3> QED
      BY <2>2, <3>2, <3>3
  <2>3. CASE k # new.key /\ \A j \in 1 .. Len(s) : s[j].key # k
    <3>1. \A j \in 1 .. Len(t) : t[j].key # k
      BY <1>3, <1>5, <2>3
    <3>2. BindingAt(t, k) = Absent /\ BindingAt(s, k) = Absent
      BY <1>6, <2>3, <3>1, ProperLookup
    <3> QED
      BY <2>3, <3>2
  <2> QED
    BY <2>1, <2>2, <2>3
<1> QED
  BY <1>6, <1>7 DEF t, Rebinds

LEMMA ProperPrepended ==
  ASSUME LongKeys = {}, NEW l \in Lists, NEW s, Proper(l, s),
         NEW new \in Node, Hash[new.key] = l,
         \A j \in 1 .. Len(s) : s[j].key # new.key
  PROVE  Rebinds(l, s, <<Fresh(new, TRUE, TRUE)>> \o s, new.key, BindingIn(new))
<1> DEFINE x == Fresh(new, TRUE, TRUE)
    t == <<x>> \o s
<1>1. s \in Seq(Node) /\ Len(s) \in Nat
  BY DEF Proper
<1>2. x \in Node /\ x.key = new.key /\ x.keyEnd /\ BindingIn(x) = BindingIn(new)
  <2>1. Fresh(new, TRUE, TRUE) \in Node
    BY ChangedNodeTypes
  <2>2. BindingIn(Fresh(new, TRUE, TRUE)) = BindingIn(new)
    BY BindingsInNodes
  <2> QED
    BY <2>1, <2>2 DEF Fresh, Node
<1> HIDE DEF x
<1>3. /\ t \in Seq(Node) /\ Len(t) = Len(s) + 1
      /\ t[1] = x /\ \A i \in 1 .. Len(s) : t[i + 1] = s[i]
  BY <1>1, <1>2, Prepended
<1> HIDE DEF t
<1>4. \A i \in 1 .. Len(t) : i = 1 \/ (i - 1 \in 1 .. Len(s) /\ t[i] = s[i - 1])
  <2>1. ASSUME NEW i \in 1 .. Len(t), i # 1
        PROVE  i - 1 \in 1 .. Len(s) /\ t[i] = s[i - 1]
    <3>1. i - 1 \in 1 .. Len(s) /\ (i - 1) + 1 = i
      BY <1>1, <1>3, <2>1
    <3>2. t[(i - 1) + 1] = s[i - 1]
      BY <1>3, <3>1
    <3> QED
      BY <3>1, <3>2
  <2> QED
    BY <2>1
<1>5. ASSUME NEW i \in 1 .. Len(t)
      PROVE  t[i].keyEnd /\ Hash[t[i].key] = l
  <2>1. CASE i = 1
    BY <1>2, <1>3, <2>1
  <2>2. CASE i # 1
    <3>1. i - 1 \in 1 .. Len(s) /\ t[i] = s[i - 1]
      BY <1>4, <2>2
    <3> QED
      BY <3>1 DEF Proper
  <2> QED
    BY <2>1, <2>2
<1>6. ASSUME NEW i \in 1 .. Len(t), NEW j \in 1 .. Len(t), t[i].key = t[j].key
      PROVE  i = j
  <2>1. CASE i = 1 /\ j = 1
    BY <2>1
  <2>2. CASE i # 1 /\ j # 1
    <3>1. /\ i - 1 \in 1 .. Len(s) /\ t[i] = s[i - 1]
          /\ j - 1 \in 1 .. Len(s) /\ t[j] = s[j - 1]
      BY <1>4, <2>2
    <3>2. i - 1 = j - 1
      BY <1>6, <3>1 DEF Proper
    <3>3. i \in Int /\ j \in Int
      BY <1>1, <1>3
    <3> QED
      BY <3>2, <3>3
  <2>3. ASSUME NEW n \in 1 .. Len(t), n # 1 PROVE t[n].key # new.key
    <3>1. n - 1 \in 1 .. Len(s) /\ t[n] = s[n - 1]
      BY <1>4, <2>3
    <3> QED
      BY <3>1
  <2>4. t[1].key = new.key
    BY <1>2, <1>3
  <2>5. ~(i = 1 /\ j # 1) /\ ~(i # 1 /\ j = 1)
    BY <1>6, <2>3, <2>4
  <2> QED
    BY <2>1, <2>2, <2>5
<1>7. Proper(l, t)
  BY <1>3, <1>5, <1>6 DEF Proper
<1>8. ASSUME NEW k \in Keys
      PROVE  BindingAt(t, k) = IF k = new.key THEN BindingIn(new) ELSE BindingAt(s, k)
  <2>0. 1 \in 1 .. Len(t)
    BY <1>1, <1>3
  <2>1. CASE k = new.key
    BY <1>2, <1>3, <1>7, <2>0, <2>1, ProperLookup
  <2>2. CASE k # new.key /\ \E j \in 1 .. Len(s) : s[j].key = k
    <3>1. PICK j \in 1 .. Len(s) : s[j].key = k
      BY <2>2
    <3>2. j + 1 \in 1 .. Len(t) /\ t[j + 1] = s[j]
      BY <1>1, <1>3, <3>1
    <3>3. BindingAt(t, k) = BindingIn(t[j + 1]) /\ BindingAt(s, k) = BindingIn(s[j])
      BY <1>7, <3>1, <3>2, ProperLookup
    <3> QED
      BY <2>2, <3>2, <3>3
  <2>3. CASE k # new.key /\ \A j \in 1 .. Len(s) : s[j].key # k
    <3>1. \A j \in 1 .. Len(t) : t[j].key # k
      BY <1>2, <1>3, <1>4, <2>3
    <3>2. BindingAt(t, k) = Absent /\ BindingAt(s, k) = Absent
      BY <1>7, <2>3, <3>1, ProperLookup
    <3> QED
      BY <2>3, <3>2
  <2> QED
    BY <2>1, <2>2, <2>3
<1> QED
  BY <1>7, <1>8 DEF t, x, Rebinds

LEMMA ProperRemoved ==
  ASSUME NEW l \in Lists, NEW s, Proper(l, s), NEW i \in 1 .. Len(s)
  PROVE  Rebinds(l, s, RemoveAt(s, i), s[i].key, Absent)
<1> DEFINE t == RemoveAt(s, i)
    from(j) == IF j < i THEN j ELSE j + 1
<1>1. s \in Seq(Node) /\ Len(s) \in Nat /\ i \in Nat
  BY DEF Proper
<1>2. /\ t \in Seq(Node) /\ Len(t) = Len(s) - 1
      /\ \A j \in 1 .. Len(s) - 1 : t[j] = IF j < i THEN s[j] ELSE s[j + 1]
  BY <1>1, Removed
<1> HIDE DEF t
<1>3. ASSUME NEW j \in 1 .. Len(t)
      PROVE  j \in Nat /\ from(j) \in 1 .. Len(s) /\ from(j) # i /\ t[j] = s[from(j)]
  BY <1>1, <1>2
<1>4. ASSUME NEW j \in 1 .. Len(s), j # i
      PROVE  \E n \in 1 .. Len(t) : from(n) = j
  <2>1. CASE j < i
    <3>1. j \in 1 .. Len(t) /\ from(j) = j
      BY <1>1, <1>2, <2>1
    <3> QED
      BY <3>1
  <2>2. CASE j > i
    <3>1. j - 1 \in 1 .. Len(t) /\ from(j - 1) = j
      BY <1>1, <1>2, <2>2
    <3> QED
      BY <3>1
  <2> QED
    BY <1>1, <1>4, <2>1, <2>2
<1>5. \A j, n \in 1 .. Len(t) : from(j) = from(n) => j = n
  BY <1>1, <1>2
<1> HIDE DEF from
<1>6. Proper(l, t)
  BY <1>2, <1>3, <1>5 DEF Proper
<1>7. ASSUME NEW k \in Keys
      PROVE  BindingAt(t, k) = IF k = s[i].key THEN Absent ELSE BindingAt(s, k)
  <2>1. CASE k = s[i].key
    <3>1. \A j \in 1 .. Len(t) : t[j].key # k
      BY <1>3, <2>1 DEF Proper
    <3> QED
      BY <1>6, <2>1, <3>1, ProperLookup
  <2>2. CASE k # s[i].key /\ \E j \in 1 .. Len(s) : s[j].key = k
    <3>1. PICK j \in 1 .. Len(s) : s[j].key = k
      BY <2>2
    <3>2. PICK n \in 1 .. Len(t) : from(n) = j
      BY <1>4, <2>2, <3>1
    <3>3. t[n] = s[j]
      BY <1>3, <3>2
    <3>4. BindingAt(t, k) = BindingIn(t[n]) /\ BindingAt(s, k) = BindingIn(s[j])
      BY <1>6, <3>1, <3>3, ProperLookup
    <3> QED
      BY <2>2, <3>3, <3>4
  <2>3. CASE k # s[i].key /\ \A j \in 1 .. Len(s) : s[j].key # k
    <3>1. \A j \in 1 .. Len(t) : t[j].key # k
      BY <1>3, <2>3
    <3>2. BindingAt(t, k) = Absent /\ BindingAt(s, k) = Absent
      BY <1>6, <2>3, <3>1, ProperLookup
    <3> QED
      BY <2>3, <3>2
  <2> QED
    BY <2>1, <2>2, <2>3
<1> QED
  BY <1>6, <1>7 DEF t, Rebinds

(* A call that changes the list of k0 changes the binding of k0 alone. *)
LEMMA OneBindingChanges ==
  ASSUME TypeOK, ListsAreProper, NEW k0 \in Keys, NEW b,
         NEW t, Rebinds(Hash[k0], lists[Hash[k0]], t, k0, b),
         lists' = [lists EXCEPT ![Hash[k0]] = t]
  PROVE  /\ ListsAreProper'
         /\ \A k \in Keys : BindingOf(k)' = IF k = k0 THEN b ELSE BindingOf(k)
<1>1. DOMAIN lists = Lists /\ Hash[k0] \in Lists
  BY ListsAreFinite DEF TypeOK
<1>2. \A l \in Lists : lists'[l] = IF l = Hash[k0] THEN t ELSE lists[l]
  BY <1>1
<1>3. ListsAreProper'
  BY <1>2 DEF ListsAreProper, Rebinds
<1>4. ASSUME NEW k \in Keys
      PROVE  BindingOf(k)' = IF k = k0 THEN b ELSE BindingOf(k)
  <2>1. BindingOf(k)' = BindingAt(lists'[Hash[k]], k)
    BY DEF BindingOf, ListOf, BindingAt
  <2>2. BindingOf(k) = BindingAt(lists[Hash[k]], k)
    BY DEF BindingOf, ListOf, BindingAt
  <2>3. Hash[k] \in Lists
    BY ListsAreFinite
  <2> QED
    BY <1>2, <2>1, <2>2, <2>3 DEF Rebinds
<1> QED
  BY <1>3, <1>4

LEMMA InsertBinds ==
  ASSUME LongKeys = {}, TypeOK, ListsAreProper,
         NEW k \in Keys, NEW new \in Node, new.key = k, new.keyEnd, Insert(k, new)
  PROVE  /\ ListsAreProper'
         /\ \A j \in Keys : BindingOf(j)' = IF j = k THEN BindingIn(new) ELSE BindingOf(j)
<1> DEFINE l == Hash[k]
<1>1. l \in Lists /\ Proper(l, lists[l])
  BY ListsAreFinite DEF ListsAreProper
<1>2. CASE Overwrite(k, new)
  <2>1. PICK i \in 1 .. Len(lists[l]) :
          /\ Matches(lists[l][i], k)
          /\ lists' = [lists EXCEPT ![l] = [lists[l] EXCEPT ![i] = Rewritten(new, lists[l][i])]]
    BY <1>2, OverwriteChanges, SMTT(30)
  <2> DEFINE t == [lists[l] EXCEPT ![i] = Rewritten(new, lists[l][i])]
  <2>2. new.key = lists[l][i].key
    BY <2>1 DEF Matches
  <2>3. Rebinds(l, lists[l], t, k, BindingIn(new))
    BY <1>1, <2>1, <2>2, ProperOverwritten
  <2>4. lists' = [lists EXCEPT ![l] = t]
    BY <2>1
  <2> HIDE DEF t
  <2> QED
    BY <2>3, <2>4, OneBindingChanges
<1>3. CASE Prepend(k, new)
  <2>1. PICK x \in KeyEnds(k), y \in NameEnds :
          lists' = [lists EXCEPT ![l] = <<Fresh(new, x, y)>> \o lists[l]]
    BY <1>3, PrependChanges
  <2>2. x = TRUE /\ y = TRUE
    BY <2>1 DEF KeyEnds, NameEnds
  <2>3. \A j \in 1 .. Len(lists[l]) : lists[l][j].key # k
    <3>1. \A j \in 1 .. Len(lists[l]) : ~ Matches(lists[l][j], k)
      BY <1>3, PrependChanges
    <3> QED
      BY <1>1, <3>1 DEF Matches, Proper
  <2> DEFINE t == <<Fresh(new, TRUE, TRUE)>> \o lists[l]
  <2>4. Rebinds(l, lists[l], t, k, BindingIn(new))
    BY <1>1, <2>3, ProperPrepended
  <2>5. lists' = [lists EXCEPT ![l] = t]
    BY <2>1, <2>2
  <2> HIDE DEF t
  <2> QED
    BY <2>4, <2>5, OneBindingChanges
<1> QED
  BY <1>2, <1>3 DEF Insert

LEMMA DeleteUnbinds ==
  ASSUME TypeOK, ListsAreProper, NEW k \in Keys, Delete(k)
  PROVE  /\ ListsAreProper'
         /\ BindingOf(k) # Absent
         /\ \A j \in Keys : BindingOf(j)' = IF j = k THEN Absent ELSE BindingOf(j)
<1> DEFINE l == Hash[k]
<1>1. l \in Lists /\ Proper(l, lists[l])
  BY ListsAreFinite DEF ListsAreProper
<1>2. PICK i \in 1 .. Len(lists[l]) :
        /\ Matches(lists[l][i], k)
        /\ lists' = [lists EXCEPT ![l] = RemoveAt(lists[l], i)]
  BY DeleteChanges
<1> DEFINE t == RemoveAt(lists[l], i)
<1>3. lists[l][i].key = k
  BY <1>2 DEF Matches
<1>4. Rebinds(l, lists[l], t, k, Absent)
  BY <1>1, <1>3, ProperRemoved
<1>5. BindingOf(k) # Absent
  <2>1. BindingOf(k) = BindingAt(lists[l], k)
    BY BindingOfAt
  <2>2. BindingAt(lists[l], k) = BindingIn(lists[l][i])
    BY <1>1, <1>3, ProperLookup
  <2>3. lists[l] \in Seq(Node)
    BY <1>1 DEF TypeOK
  <2>4. lists[l][i] \in Node
    BY <2>3
  <2>5. BindingIn(lists[l][i]) # Absent
    BY <2>4 DEF BindingIn, Node, Absent, ENOENT, Name, Number
  <2> QED
    BY <2>1, <2>2, <2>5
<1>6. lists' = [lists EXCEPT ![l] = t]
  BY <1>2
<1> HIDE DEF t
<1>7. /\ ListsAreProper'
      /\ \A j \in Keys : BindingOf(j)' = IF j = k THEN Absent ELSE BindingOf(j)
  BY <1>4, <1>6, OneBindingChanges
<1> QED
  BY <1>5, <1>7

(* Without names of 31 characters nothing is left. *)
LEMMA ClearEmpties ==
  ASSUME LongKeys = {}, TypeOK, ListsAreProper, Clear
  PROVE  /\ ListsAreProper'
         /\ \A k \in Keys : BindingOf(k)' = Absent
<1>1. Unterminated = {}
  <2>1. \A l \in Lists : \A i \in DOMAIN lists[l] : lists[l][i].keyEnd
    BY DEF TypeOK, ListsAreProper, Proper
  <2>2. \A l \in Lists : {n \in DOMAIN lists[l] : ~lists[l][n].keyEnd} = {}
    BY <2>1
  <2> QED
    BY <2>2 DEF Unterminated
<1>2. lists' = [l \in Lists |-> Left({}, l)]
  BY <1>1 DEF Clear, Left
<1>3. ASSUME NEW l \in Lists
      PROVE  Left({}, l) = <<>>
  <2>1. {i \in DOMAIN lists[l] : <<l, i>> \in {}} = {}
    OBVIOUS
  <2>2. Left({}, l) = ElementsAt(lists[l], {})
    BY <2>1 DEF Left
  <2>3. Cardinality({}) = 0
    BY FS_EmptySet
  <2> QED
    BY <2>2, <2>3 DEF ElementsAt
<1>4. \A l \in Lists : lists'[l] = <<>>
  BY <1>2, <1>3
<1>5. \A l : Proper(l, <<>>)
  BY DEF Proper
<1>6. ASSUME NEW k \in Keys
      PROVE  BindingOf(k)' = Absent
  <2>1. BindingOf(k)' = BindingAt(lists'[Hash[k]], k)
    BY DEF BindingOf, ListOf, BindingAt
  <2>2. Hash[k] \in Lists
    BY ListsAreFinite
  <2>3. BindingAt(<<>>, k) = Absent
    BY <1>5, <2>2, ProperLookup
  <2> QED
    BY <1>4, <2>1, <2>2, <2>3
<1> QED
  BY <1>4, <1>5, <1>6 DEF ListsAreProper

LEMMA InitProper == Init => ListsAreProper
BY DEF Init, ListsAreProper, Proper

(* Every call keeps the lists proper, and is a call of the map. *)
LEMMA StoreStep ==
  ASSUME LongKeys = {}, TypeOK, ListsAreProper, [Next]_vars
  PROVE  ListsAreProper' /\ [KVMap!Next]_KVMap!vars
<1> DEFINE m == [k \in Keys |-> BindingOf(k)]
<1>1. ASSUME NEW k \in Keys, NEW b,
             \A j \in Keys : BindingOf(j)' = IF j = k THEN b ELSE BindingOf(j)
      PROVE  m' = [m EXCEPT ![k] = b]
  <2>1. \A j \in Keys : m'[j] = [m EXCEPT ![k] = b][j]
    BY <1>1
  <2>2. DOMAIN (m') = Keys /\ DOMAIN [m EXCEPT ![k] = b] = Keys
    OBVIOUS
  <2> QED
    BY <1>1
<1>2. ASSUME NEW k \in Keys, NEW n \in Keys, InsertName(k, n)
      PROVE  ListsAreProper' /\ KVMap!Insert(k, Name(n)) /\ Name(n) \in Binding
  <2> DEFINE new == NewNode(k, 1, 0, n)
  <2>1. /\ new \in Node /\ new.key = k /\ new.keyEnd
        /\ BindingIn(new) = Name(n)
    BY DEF NewNode, Node, BindingIn, NameIn
  <2>2. Insert(k, new) /\ reply' = Status(0)
    BY <1>2 DEF InsertName, Insert
  <2> HIDE DEF new
  <2>3. /\ ListsAreProper'
        /\ \A j \in Keys : BindingOf(j)' = IF j = k THEN Name(n) ELSE BindingOf(j)
    BY <2>1, <2>2, InsertBinds
  <2> QED
    BY <1>1, <2>2, <2>3 DEF KVMap!Insert, KVMap!Status, Status, Binding
<1>3. ASSUME NEW k \in Keys, NEW v \in Values, InsertValue(k, v)
      PROVE  ListsAreProper' /\ KVMap!Insert(k, Number(v)) /\ Number(v) \in Binding
  <2> DEFINE new == NewNode(k, 0, v, NULL)
  <2>1. /\ new \in Node /\ new.key = k /\ new.keyEnd
        /\ BindingIn(new) = Number(v)
    BY DEF NewNode, Node, BindingIn
  <2>2. Insert(k, new) /\ reply' = Status(0)
    BY <1>3 DEF InsertValue, Insert
  <2> HIDE DEF new
  <2>3. /\ ListsAreProper'
        /\ \A j \in Keys : BindingOf(j)' = IF j = k THEN Number(v) ELSE BindingOf(j)
    BY <2>1, <2>2, InsertBinds
  <2> QED
    BY <1>1, <2>2, <2>3 DEF KVMap!Insert, KVMap!Status, Status, Binding
<1>4. ASSUME NEW k \in Keys, DeleteMissing(k)
      PROVE  ListsAreProper' /\ KVMap!Delete(k)
  <2>1. BindingOf(k) = Absent
    BY <1>4 DEF DeleteMissing, BindingOf
  <2>2. \A j \in Keys : BindingOf(j)' = BindingOf(j)
    BY <1>4 DEF DeleteMissing, BindingOf, ListOf
  <2>3. m' = [m EXCEPT ![k] = Absent]
    BY <1>1, <2>1, <2>2
  <2>4. m[k] = Absent
    BY <2>1
  <2>5. reply' = Status(ENOENT) /\ ListsAreProper'
    BY <1>4 DEF DeleteMissing, ListsAreProper
  <2> QED
    BY <2>3, <2>4, <2>5 DEF KVMap!Delete, KVMap!Status, Status, KVMap!Absent, Absent, KVMap!ENOENT, ENOENT
<1>5. ASSUME NEW k \in Keys, Delete(k)
      PROVE  ListsAreProper' /\ KVMap!Delete(k)
  <2>1. /\ ListsAreProper' /\ BindingOf(k) # Absent
        /\ m' = [m EXCEPT ![k] = Absent]
    BY <1>1, <1>5, DeleteUnbinds
  <2>2. reply' = Status(0)
    BY <1>5 DEF Delete
  <2> QED
    BY <2>1, <2>2 DEF KVMap!Delete, KVMap!Status, Status, KVMap!Absent, Absent, KVMap!ENOENT, ENOENT
<1>6. ASSUME NEW k \in Keys, Lookup(k)
      PROVE  ListsAreProper' /\ KVMap!Lookup(k)
  <2>1. \A j \in Keys : BindingOf(j)' = BindingOf(j)
    BY <1>6 DEF Lookup, BindingOf, ListOf
  <2>2. m' = m
    BY <2>1
  <2>3. reply' = LookupOf(m[k]) /\ ListsAreProper'
    BY <1>6 DEF Lookup, ListsAreProper
  <2> QED
    BY <2>2, <2>3 DEF KVMap!Lookup, KVMap!LookupOf, LookupOf,
       KVMap!Absent, Absent, KVMap!ENOENT, ENOENT, KVMap!EFAULT, EFAULT
<1>7. CASE Clear
  <2>1. ListsAreProper' /\ \A k \in Keys : BindingOf(k)' = Absent
    BY <1>7, ClearEmpties
  <2>2. m' = EmptyMap /\ reply' = Status(0)
    BY <1>7, <2>1 DEF EmptyMap, Clear
  <2>3. KVMap!Clear
    BY <2>2 DEF KVMap!Clear, KVMap!EmptyMap, EmptyMap,
       KVMap!Status, Status, KVMap!Absent, Absent, KVMap!ENOENT, ENOENT
  <2> QED
    BY <2>1, <2>3 DEF KVMap!Next
<1>8. CASE UNCHANGED vars
  <2>1. \A j \in Keys : BindingOf(j)' = BindingOf(j)
    BY <1>8 DEF vars, BindingOf, ListOf
  <2>2. m' = m /\ reply' = reply /\ ListsAreProper'
    BY <1>8, <2>1 DEF vars, ListsAreProper
  <2> QED
    BY <2>2 DEF KVMap!vars
<1> QED
  BY <1>2, <1>3, <1>4, <1>5, <1>6, <1>7, <1>8 DEF Next, KVMap!Next, KVMap!Binding, Binding,
       KVMap!Name, Name, KVMap!Number, Number

LEMMA ProperIsFound ==
  ASSUME TypeOK, ListsAreProper
  PROVE  EveryNodeIsFound
<1>1. ASSUME NEW l \in Lists, NEW i \in DOMAIN lists[l]
      PROVE  Hash[lists[l][i].key] = l /\ FindNode(lists[l], lists[l][i].key) = i
  <2>1. /\ Proper(l, lists[l]) /\ lists[l] \in Seq(Node)
        /\ i \in 1 .. Len(lists[l]) /\ lists[l][i] \in Node
    BY DEF TypeOK, ListsAreProper
  <2>2. lists[l][i].key \in Keys
    BY <2>1 DEF Node
  <2> QED
    BY <2>1, <2>2, ProperLookup DEF Proper
<1> QED
  BY <1>1 DEF EveryNodeIsFound

(* If no name has 31 characters, every node is in the list its key hashes to *)
(* and no other node hides it: find_node, which lookups, insertions and      *)
(* deletions rest on, reaches every node that was ever linked.               *)
THEOREM NodesAreFound == LongKeys = {} => (Spec => []EveryNodeIsFound)
<1> SUFFICES ASSUME LongKeys = {} PROVE Spec => []EveryNodeIsFound
  OBVIOUS
<1>1. ListsAreProper /\ TypeOK => EveryNodeIsFound
  BY ProperIsFound
<1>2. TypeOK /\ ListsAreProper /\ [Next]_vars => ListsAreProper'
  BY StoreStep
<1> QED
  BY <1>1, <1>2, InitProper, TypeCorrect, PTL DEF Spec

(* If no name has 31 characters, the hash table of lists behaves as the map  *)
(* of KeyValueMap: every call of rpckeyvaluestore.cpp changes the binding of *)
(* its own key alone, and every call answers what the map would.             *)
THEOREM StoreIsMap == LongKeys = {} => (Spec => ImplementsMap)
<1> SUFFICES ASSUME LongKeys = {} PROVE Spec => ImplementsMap
  OBVIOUS
<1>1. Init => KVMap!Init
  <2>1. SUFFICES ASSUME Init PROVE KVMap!Init
    OBVIOUS
  <2>2. ASSUME NEW k \in Keys PROVE BindingOf(k) = Absent
    <3>1. lists[Hash[k]] = <<>> /\ Proper(Hash[k], <<>>) /\ Hash[k] \in Lists
      BY <2>1, ListsAreFinite DEF Init, Proper
    <3> QED
      BY <3>1, BindingOfAt, ProperLookup
  <2> QED
    BY <2>1, <2>2 DEF Init, KVMap!Init, KVMap!EmptyMap,
       KVMap!Status, Status, KVMap!Absent, Absent, KVMap!ENOENT, ENOENT
<1>2. TypeOK /\ ListsAreProper /\ [Next]_vars => ListsAreProper' /\ [KVMap!Next]_KVMap!vars
  BY StoreStep
<1> QED
  BY <1>1, <1>2, InitProper, TypeCorrect, PTL DEF Spec, ImplementsMap, KVMap!Spec
=============================================================================
