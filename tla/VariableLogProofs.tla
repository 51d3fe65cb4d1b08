-------------------------- MODULE VariableLogProofs -------------------------
(***************************************************************************)
(* log.txt for every number of variables and values, every sequence of     *)
(* requests and every moment at which the process ends: what a restart     *)
(* brings back, and what a dump holds.                                     *)
(***************************************************************************)
EXTENDS VariableLog, Induction, SequenceTheorems

-----------------------------------------------------------------------------
(* Reading lines back.  The last line about a variable decides.            *)

LineSeqs == Seq(Lines \cup {BadLine})

IsLastAbout(s, i, k) ==
  /\ i \in ValidLines(s) /\ s[i].key = k
  /\ \A j \in ValidLines(s) : s[j].key = k => j <= i

LEMMA LineTypes ==
  /\ BadLine \notin Lines
  /\ \A l \in Lines : l.key \in Keys /\ l.bind \in Bound /\ l = Line(l.key, l.bind)
  /\ \A k \in Keys, b \in Bound : /\ Line(k, b) \in Lines
                                  /\ Line(k, b).key = k /\ Line(k, b).bind = b
<1>1. \A k \in Keys, b \in Bound : /\ Line(k, b) \in Lines
                                    /\ Line(k, b).key = k /\ Line(k, b).bind = b
  BY DEF Lines, Line
<1>2. ASSUME NEW l \in Lines
      PROVE  l.key \in Keys /\ l.bind \in Bound /\ l = Line(l.key, l.bind)
  <2>1. PICK k \in Keys, b \in Bound : l = Line(k, b)
    BY DEF Lines
  <2> QED
    BY <1>1, <2>1
<1>3. BadLine.key \notin Keys
  BY NullAssumption DEF BadLine, Line
<1> QED
  BY <1>1, <1>2, <1>3

LEMMA ValidAreLines ==
  ASSUME NEW s \in LineSeqs
  PROVE  /\ ValidLines(s) \subseteq 1 .. Len(s) /\ Len(s) \in Nat
         /\ \A i \in ValidLines(s) : s[i] \in Lines
<1>1. DOMAIN s = 1 .. Len(s) /\ Len(s) \in Nat /\ \A i \in 1 .. Len(s) : s[i] \in Lines \cup {BadLine}
  BY LenProperties, ElementOfSeq DEF LineSeqs
<1>2. \A i \in 1 .. Len(s) : i \in 1 .. i
  BY <1>1
<1> QED
  BY <1>1, <1>2 DEF ValidLines

\* Lines without a bad one among them.
LEMMA GoodLines ==
  ASSUME NEW s \in Seq(Lines)
  PROVE  /\ s \in LineSeqs /\ ValidLines(s) = DOMAIN s
         /\ Len(s) \in Nat /\ DOMAIN s = 1 .. Len(s)
         /\ \A i \in DOMAIN s : s[i] \in Lines
<1>1. s \in LineSeqs
  BY SeqMonotonic DEF LineSeqs
<1>2. Len(s) \in Nat /\ DOMAIN s = 1 .. Len(s)
  BY LenProperties
<1>3. \A i \in DOMAIN s : s[i] \in Lines
  BY <1>2, ElementOfSeq
<1>4. \A i \in DOMAIN s : \A j \in 1 .. i : j \in DOMAIN s
  BY <1>2
<1>5. ValidLines(s) = DOMAIN s
  <2>1. \A i \in DOMAIN s : s[i] # BadLine
    BY <1>3, LineTypes
  <2> QED
    BY <1>4, <2>1 DEF ValidLines
<1> QED
  BY <1>1, <1>2, <1>3, <1>5

(* load_log goes through the lines up to the first bad one.  The last line    *)
(* about a variable decides.                                                 *)

\* The store when of the lines with numbers in T the last about a variable counts.
After(m, s, T) ==
  [k \in Keys |->
     LET about == {i \in T : s[i].key = k} IN
       IF about = {} THEN m[k] ELSE s[Max(about)].bind]

\* What the loop computes from a set of lines, the last one of them last.
Folded(g, m, s, D) ==
  g = [T \in SUBSET D |-> IF T = {} THEN m ELSE ApplyLine(g[T \ {Max(T)}], s[Max(T)])]

LEMMA FoldIs ==
  ASSUME NEW m, NEW s
  PROVE  FoldLeft(ApplyLine, m, s) = (CHOOSE g : Folded(g, m, s, DOMAIN s))[DOMAIN s]
BY Zenon DEF FoldLeft, MapThenFoldSet, Folded

LEMMA AfterMore ==
  ASSUME NEW m, NEW s, NEW n \in Nat, NEW T \in SUBSET (1 .. n), T # {}, s[Max(T)] \in Lines
  PROVE  After(m, s, T) = ApplyLine(After(m, s, T \ {Max(T)}), s[Max(T)])
<1> DEFINE x == Max(T)
    about(k) == {i \in T : s[i].key = k}
    rest(k) == {i \in T \ {x} : s[i].key = k}
<1>1. x \in T /\ \A y \in T : y <= x
  BY GreatestNumber
<1>2. s[x].key \in Keys
  BY LineTypes
<1>3. /\ \A k \in Keys : After(m, s, T)[k] =
           IF about(k) = {} THEN m[k] ELSE s[Max(about(k))].bind
      /\ \A k \in Keys : After(m, s, T \ {x})[k] =
           IF rest(k) = {} THEN m[k] ELSE s[Max(rest(k))].bind
  BY DEF After
<1> HIDE DEF x
<1>4. Max(about(s[x].key)) = x
  <2> DEFINE A == about(s[x].key)
  <2>1. x \in A /\ A \subseteq 1 .. n /\ \A y \in A : y <= x
    BY <1>1
  <2> HIDE DEF A
  <2>2. Max(A) \in A /\ x <= Max(A)
    BY <2>1, GreatestNumber
  <2>3. x \in Nat /\ Max(A) \in Nat /\ Max(A) <= x
    <3>1. \A y \in A : y \in Nat
      BY <2>1
    <3> QED
      BY <2>1, <2>2, <3>1
  <2> QED
    BY <2>2, <2>3 DEF A
<1>5. After(m, s, T)[s[x].key] = s[x].bind
  BY <1>1, <1>2, <1>3, <1>4
<1>6. \A k \in Keys : k # s[x].key => about(k) = rest(k)
  OBVIOUS
<1>7. \A k \in Keys : k # s[x].key => After(m, s, T)[k] = After(m, s, T \ {x})[k]
  BY <1>3, <1>6
<1>8. ApplyLine(After(m, s, T \ {x}), s[x]) =
        [k \in Keys |-> IF k = s[x].key THEN s[x].bind ELSE After(m, s, T \ {x})[k]]
  BY <1>2 DEF ApplyLine, After
<1>9. After(m, s, T) = [k \in Keys |-> After(m, s, T)[k]]
  BY DEF After
<1>10. After(m, s, T) = [k \in Keys |-> IF k = s[x].key THEN s[x].bind ELSE After(m, s, T \ {x})[k]]
  BY <1>5, <1>7, <1>9
<1> QED
  BY <1>8, <1>10 DEF x

LEMMA AfterNothing ==
  ASSUME NEW m \in Map, NEW s
  PROVE  After(m, s, {}) = m
BY DEF After, Map

LEMMA FoldIsAfter ==
  ASSUME NEW m \in Map, NEW s \in Seq(Lines)
  PROVE  FoldLeft(ApplyLine, m, s) = After(m, s, DOMAIN s)
<1> DEFINE n == Len(s)
    D == 1 .. n
    G == [T \in SUBSET D |-> After(m, s, T)]
    g == CHOOSE h : Folded(h, m, s, D)
<1>1. DOMAIN s = D /\ n \in Nat /\ \A i \in D : s[i] \in Lines
  BY GoodLines
<1> HIDE DEF n
<1>2. \A T \in SUBSET D : T # {} => Max(T) \in T /\ Max(T) \in D
  BY <1>1, GreatestNumber
<1>3. Folded(G, m, s, D)
  <2>1. ASSUME NEW T \in SUBSET D
        PROVE  G[T] = IF T = {} THEN m ELSE ApplyLine(G[T \ {Max(T)}], s[Max(T)])
    <3>1. CASE T = {}
      BY <3>1, AfterNothing
    <3>2. CASE T # {}
      <4>1. s[Max(T)] \in Lines /\ G[T] = After(m, s, T) /\ T \ {Max(T)} \in SUBSET D
        BY <1>1, <1>2, <3>2
      <4>2. G[T \ {Max(T)}] = After(m, s, T \ {Max(T)})
        BY <4>1
      <4>3. After(m, s, T) = ApplyLine(After(m, s, T \ {Max(T)}), s[Max(T)])
        BY <1>1, <3>2, <4>1, AfterMore
      <4> QED
        BY <3>2, <4>1, <4>2, <4>3
    <3> QED
      BY <3>1, <3>2
  <2>2. G = [T \in SUBSET D |-> G[T]]
    OBVIOUS
  <2> HIDE DEF G
  <2>3. G = [T \in SUBSET D |-> IF T = {} THEN m ELSE ApplyLine(G[T \ {Max(T)}], s[Max(T)])]
    BY <2>1, <2>2
  <2> QED
    BY <2>3 DEF Folded
<1>4. Folded(g, m, s, D)
  <2> HIDE DEF G
  <2> QED
    BY <1>3
<1> HIDE DEF g
<1>5. \A T \in SUBSET D : g[T] = IF T = {} THEN m ELSE ApplyLine(g[T \ {Max(T)}], s[Max(T)])
  BY <1>4 DEF Folded
<1> DEFINE P == {j \in Nat : j <= n => g[1 .. j] = After(m, s, 1 .. j)}
<1>6. 0 \in P
  <2>1. 1 .. 0 = {} /\ {} \in SUBSET D
    OBVIOUS
  <2> QED
    BY <1>5, <2>1, AfterNothing
<1>7. ASSUME NEW j \in P PROVE j + 1 \in P
  <2>1. SUFFICES ASSUME j + 1 <= n PROVE g[1 .. j + 1] = After(m, s, 1 .. j + 1)
    OBVIOUS
  <2> DEFINE T == 1 .. j + 1
  <2>2. T \in SUBSET D /\ T # {} /\ j + 1 \in T /\ T \ {j + 1} = 1 .. j
    <3>1. j \in Nat /\ j + 1 \in T
      OBVIOUS
    <3>2. T \in SUBSET D
      BY <1>1, <2>1, <3>1
    <3>3. T \ {j + 1} = 1 .. j
      BY <3>1
    <3> QED
      BY <3>1, <3>2, <3>3
  <2>3. Max(T) = j + 1
    <3>1. Max(T) \in T /\ j + 1 <= Max(T)
      <4> HIDE DEF T
      <4> QED
        BY <1>1, <2>2, GreatestNumber
    <3> QED
      BY <3>1
  <2>4. g[1 .. j] = After(m, s, 1 .. j) /\ s[j + 1] \in Lines
    BY <1>1, <2>1
  <2> HIDE DEF T, P
  <2>5. g[T] = ApplyLine(g[1 .. j], s[j + 1])
    BY <1>5, <2>2, <2>3
  <2>6. After(m, s, T) = ApplyLine(After(m, s, 1 .. j), s[j + 1])
    <3>1. After(m, s, T) = ApplyLine(After(m, s, T \ {Max(T)}), s[Max(T)])
      <4>1. s[Max(T)] \in Lines /\ n \in Nat /\ T \in SUBSET (1 .. n)
        BY <1>1, <2>2, <2>3, <2>4
      <4> QED
        BY <2>2, <4>1, AfterMore
    <3> QED
      BY <2>2, <2>3, <3>1
  <2>7. g[T] = After(m, s, T)
    BY <2>4, <2>5, <2>6
  <2> QED
    BY <2>7 DEF T
<1>8. P = Nat
  <2>1. P \in SUBSET Nat
    OBVIOUS
  <2> HIDE DEF P
  <2> QED
    BY <1>6, <1>7, <2>1, NumberInduction
<1>9. g[D] = After(m, s, D)
  BY <1>1, <1>8
<1>10. FoldLeft(ApplyLine, m, s) = g[D]
  BY <1>1, FoldIs DEF g
<1> QED
  BY <1>1, <1>9, <1>10

\* The valid lines are those before the first bad one.
LEMMA ValidIsPrefix ==
  ASSUME NEW s \in LineSeqs
  PROVE  /\ Cardinality(ValidLines(s)) \in 0 .. Len(s)
         /\ ValidLines(s) = 1 .. Cardinality(ValidLines(s))
<1> DEFINE V == ValidLines(s)
<1>1. V \subseteq 1 .. Len(s) /\ Len(s) \in Nat
  BY ValidAreLines
<1>2. ASSUME NEW i \in V, NEW j \in 1 .. i PROVE j \in V
  <2>1. DOMAIN s = 1 .. Len(s)
    BY LenProperties DEF LineSeqs
  <2>2. j \in DOMAIN s
    BY <1>1, <2>1
  <2>3. \A k \in 1 .. j : k \in 1 .. i
    BY <1>1
  <2> QED
    BY <2>2, <2>3 DEF ValidLines
<1> HIDE DEF V
<1>3. CASE V = {}
  <2>1. Cardinality(V) = 0
    BY <1>3, FS_EmptySet
  <2> QED
    BY <1>1, <1>3, <2>1 DEF V
<1>4. CASE V # {}
  <2>1. Max(V) \in V /\ \A y \in V : y <= Max(V)
    BY <1>1, <1>4, GreatestNumber
  <2>2. Max(V) \in 1 .. Len(s)
    BY <1>1, <2>1
  <2>3. V = 1 .. Max(V)
    <3>1. \A j \in V : j \in 1 .. Max(V)
      BY <1>1, <2>1, <2>2
    <3>2. \A j \in 1 .. Max(V) : j \in V
      BY <1>2, <2>1
    <3> QED
      BY <3>1, <3>2
  <2>4. Cardinality(1 .. Max(V)) = Max(V)
    BY <1>1, <2>2, FS_Interval
  <2> QED
    BY <1>1, <2>2, <2>3, <2>4 DEF V
<1> QED
  BY <1>3, <1>4

LEMMA ReplayIsLast ==
  ASSUME NEW m \in Map, NEW s \in LineSeqs
  PROVE  Replay(m, s) = After(m, s, ValidLines(s))
<1> DEFINE c == Cardinality(ValidLines(s))
    t == SubSeq(s, 1, c)
<1>1. c \in 0 .. Len(s) /\ ValidLines(s) = 1 .. c /\ Len(s) \in Nat
  BY ValidIsPrefix, ValidAreLines
<1>2. \A i \in 1 .. c : s[i] \in Lines
  BY <1>1, ValidAreLines
<1> HIDE DEF c
<1>3. c \in Nat /\ c \in Int /\ 1 \in Int /\ (1 <= c \/ c = 0)
  BY <1>1
<1>4. /\ t \in Seq(Lines)
      /\ Len(t) = IF 1 <= c THEN c - 1 + 1 ELSE 0
      /\ \A i \in 1 .. c - 1 + 1 : t[i] = s[1 + i - 1]
  BY <1>2, <1>3, SubSeqProperties
<1> HIDE DEF t
<1>5. Len(t) = c /\ \A i \in 1 .. c : t[i] = s[i]
  BY <1>3, <1>4
<1>6. DOMAIN t = 1 .. c
  BY <1>4, <1>5, GoodLines
<1>7. FoldLeft(ApplyLine, m, t) = After(m, t, 1 .. c)
  BY <1>4, <1>6, FoldIsAfter
<1>8. Replay(m, s) = FoldLeft(ApplyLine, m, t)
  BY DEF Replay, t, c
<1>9. After(m, s, 1 .. c) = After(m, t, 1 .. c)
  <2>1. \A k \in Keys : {i \in 1 .. c : s[i].key = k} = {i \in 1 .. c : t[i].key = k}
    BY <1>5
  <2>2. ASSUME NEW k \in Keys
        PROVE  After(m, s, 1 .. c)[k] = After(m, t, 1 .. c)[k]
    <3> DEFINE A == {i \in 1 .. c : s[i].key = k}
    <3>1. A # {} => s[Max(A)] = t[Max(A)]
      <4>1. A \subseteq 1 .. c
        OBVIOUS
      <4> HIDE DEF A
      <4> QED
        BY <1>3, <1>5, <4>1, GreatestNumber
    <3>2. A = {i \in 1 .. c : t[i].key = k}
      BY <2>1
    <3>3. /\ After(m, s, 1 .. c)[k] = IF A = {} THEN m[k] ELSE s[Max(A)].bind
          /\ After(m, t, 1 .. c)[k] = IF A = {} THEN m[k] ELSE t[Max(A)].bind
      BY <3>2 DEF After
    <3> QED
      BY <3>1, <3>3
  <2>3. /\ After(m, s, 1 .. c) = [k \in Keys |-> After(m, s, 1 .. c)[k]]
        /\ After(m, t, 1 .. c) = [k \in Keys |-> After(m, t, 1 .. c)[k]]
    BY DEF After
  <2> QED
    BY <2>2, <2>3
<1> QED
  BY <1>1, <1>7, <1>8, <1>9

LEMMA ReplayIs ==
  ASSUME NEW m \in Map, NEW s \in LineSeqs, NEW k \in Keys
  PROVE  /\ (\A i \in ValidLines(s) : s[i].key # k) => Replay(m, s)[k] = m[k]
         /\ (\E i \in ValidLines(s) : s[i].key = k) => \E i : IsLastAbout(s, i, k)
         /\ \A i : IsLastAbout(s, i, k) => Replay(m, s)[k] = s[i].bind
<1> DEFINE about == {i \in ValidLines(s) : s[i].key = k}
<1>1. Replay(m, s)[k] = IF about = {} THEN m[k] ELSE s[Max(about)].bind
  BY ReplayIsLast DEF After
<1>2. about # {} => IsLastAbout(s, Max(about), k)
  <2>1. SUFFICES ASSUME about # {} PROVE IsLastAbout(s, Max(about), k)
    OBVIOUS
  <2>2. about \subseteq 1 .. Len(s) /\ Len(s) \in Nat
    BY ValidAreLines
  <2>3. Max(about) \in about /\ \A y \in about : y <= Max(about)
    <3> HIDE DEF about
    <3> QED
      BY <2>1, <2>2, GreatestNumber
  <2> QED
    BY <2>3 DEF IsLastAbout
<1>3. ASSUME NEW i, IsLastAbout(s, i, k)
      PROVE  Replay(m, s)[k] = s[i].bind
  <2>1. i \in about /\ IsLastAbout(s, Max(about), k)
    BY <1>2, <1>3 DEF IsLastAbout
  <2>2. i \in Nat /\ Max(about) \in Nat
    <3>1. ValidLines(s) \subseteq Nat
      BY ValidAreLines
    <3> QED
      BY <2>1, <3>1 DEF IsLastAbout
  <2>3. i = Max(about)
    <3>1. i <= Max(about) /\ Max(about) <= i
      BY <1>3, <2>1 DEF IsLastAbout
    <3> QED
      BY <2>2, <3>1
  <2> QED
    BY <1>1, <2>1, <2>3
<1> QED
  BY <1>1, <1>2, <1>3

LEMMA ReplayIsMap ==
  ASSUME NEW m \in Map, NEW s \in LineSeqs
  PROVE  Replay(m, s) \in Map
<1>1. ASSUME NEW k \in Keys PROVE Replay(m, s)[k] \in Bound
  <2>1. m[k] \in Bound
    BY DEF Map
  <2>2. \A i : IsLastAbout(s, i, k) => s[i].bind \in Bound
    BY ValidAreLines, LineTypes DEF IsLastAbout
  <2> QED
    BY <2>1, <2>2, ReplayIs
<1>2. Replay(m, s) = [k \in Keys |-> Replay(m, s)[k]]
  BY ReplayIsLast DEF After
<1> QED
  BY <1>1, <1>2 DEF Map

LEMMA ReplayNothing ==
  ASSUME NEW m \in Map
  PROVE  <<>> \in LineSeqs /\ Replay(m, <<>>) = m
<1>1. <<>> \in LineSeqs /\ ValidLines(<<>>) = {}
  BY DEF LineSeqs, ValidLines
<1>2. \A k \in Keys : Replay(m, <<>>)[k] = m[k]
  BY <1>1, ReplayIs
<1>3. Replay(m, <<>>) = [k \in Keys |-> Replay(m, <<>>)[k]] /\ m = [k \in Keys |-> m[k]]
  BY <1>1, ReplayIsLast DEF After, Map
<1> QED
  BY <1>1, <1>2, <1>3

\* What a further line changes.
LEMMA ReplayAppend ==
  ASSUME NEW m \in Map, NEW s \in Seq(Lines), NEW l \in Lines
  PROVE  /\ Append(s, l) \in Seq(Lines)
         /\ Replay(m, Append(s, l))[l.key] = l.bind
         /\ \A k \in Keys : k # l.key => Replay(m, Append(s, l))[k] = Replay(m, s)[k]
<1> DEFINE t == Append(s, l)
<1>1. /\ t \in Seq(Lines) /\ Len(s) \in Nat /\ Len(t) = Len(s) + 1
      /\ t[Len(s) + 1] = l /\ \A i \in 1 .. Len(s) : t[i] = s[i]
  BY LenProperties
<1>2. /\ s \in LineSeqs /\ t \in LineSeqs
      /\ ValidLines(s) = 1 .. Len(s) /\ ValidLines(t) = 1 .. Len(s) + 1
  BY <1>1, GoodLines
<1> HIDE DEF t
<1>3. l.key \in Keys
  BY LineTypes
<1>4. Replay(m, t)[l.key] = l.bind
  <2>1. IsLastAbout(t, Len(s) + 1, l.key)
    BY <1>1, <1>2 DEF IsLastAbout
  <2> QED
    BY <1>1, <1>2, <1>3, <2>1, ReplayIs
<1>5. ASSUME NEW k \in Keys, k # l.key
      PROVE  Replay(m, t)[k] = Replay(m, s)[k]
  <2>1. \A i \in ValidLines(t) : t[i].key = k => i \in ValidLines(s) /\ s[i].key = k
    BY <1>1, <1>2, <1>5
  <2>2. \A i \in ValidLines(s) : i \in ValidLines(t) /\ t[i] = s[i]
    BY <1>1, <1>2
  <2>3. CASE \A i \in ValidLines(s) : s[i].key # k
    <3>1. Replay(m, s)[k] = m[k]
      BY <1>2, <2>3, ReplayIs
    <3>2. Replay(m, t)[k] = m[k]
      BY <1>2, <2>1, <2>3, ReplayIs
    <3> QED
      BY <3>1, <3>2
  <2>4. CASE \E i \in ValidLines(s) : s[i].key = k
    <3>1. PICK i : IsLastAbout(s, i, k)
      BY <1>2, <2>4, ReplayIs
    <3>2. IsLastAbout(t, i, k) /\ t[i] = s[i]
      BY <2>1, <2>2, <3>1 DEF IsLastAbout
    <3>3. Replay(m, s)[k] = s[i].bind
      BY <1>2, <3>1, ReplayIs
    <3>4. Replay(m, t)[k] = t[i].bind
      BY <1>2, <3>2, ReplayIs
    <3> QED
      BY <3>2, <3>3, <3>4
  <2> QED
    BY <2>3, <2>4
<1> QED
  BY <1>1, <1>4, <1>5 DEF t

-----------------------------------------------------------------------------
(* Files: what dump writes, and what was behind it.                        *)

LEMMA LinesOfAMap ==
  ASSUME NEW m \in Map
  PROVE  /\ LinesOf(m) \in SUBSET Lines
         /\ \A l \in LinesOf(m) : l.bind = m[l.key] /\ l.bind # Absent
         /\ \A k \in Keys : m[k] # Absent => Line(k, m[k]) \in LinesOf(m)
<1>1. \A k \in Keys : m[k] \in Bound
  BY DEF Map
<1>2. ASSUME NEW l \in LinesOf(m)
      PROVE  l \in Lines /\ l.bind = m[l.key] /\ l.bind # Absent
  <2>1. PICK k \in Keys : m[k] # Absent /\ l = Line(k, m[k])
    BY DEF LinesOf, Present
  <2> QED
    BY <1>1, <2>1, LineTypes
<1>3. \A k \in Keys : m[k] # Absent => Line(k, m[k]) \in LinesOf(m)
  BY DEF LinesOf, Present
<1> QED
  BY <1>2, <1>3

LEMMA LeftTypes ==
  ASSUME NEW s \in LineSeqs, NEW left \in Left(s)
  PROVE  left \in LineSeqs /\ (s = <<>> => left = <<>>)
<1>1. CASE s = <<>>
  BY <1>1 DEF Left, LineSeqs
<1>2. CASE s # <<>>
  <2>1. Len(s) \in Nat /\ \A i \in 1 .. Len(s) : s[i] \in Lines \cup {BadLine}
    BY LenProperties, ElementOfSeq DEF LineSeqs
  <2>2. PICK i \in 2 .. Len(s) + 1 :
          \/ left = SubSeq(s, i, Len(s))
          \/ \E l \in EndsOf(s[i - 1]) : left = <<l>> \o SubSeq(s, i, Len(s))
    BY <1>2 DEF Left
  <2>3. SubSeq(s, i, Len(s)) \in LineSeqs
    <3>1. i \in Int /\ i >= 1
      OBVIOUS
    <3> QED
      BY <2>1, <3>1, SubSeqProperties DEF LineSeqs
  <2>4. s[i - 1].bind \in Bound
    <3>1. i - 1 \in 1 .. Len(s)
      BY <2>1
    <3>2. BadLine.bind = Absent /\ Absent \in Bound
      BY DEF BadLine, Line, Bound
    <3> QED
      BY <2>1, <3>1, <3>2, LineTypes
  <2>5. ASSUME NEW l \in EndsOf(s[i - 1])
        PROVE  <<l>> \o SubSeq(s, i, Len(s)) \in LineSeqs
    <3>1. l \in Lines \cup {BadLine}
      BY <2>4, LineTypes DEF EndsOf
    <3>2. <<l>> \in LineSeqs
      BY <3>1 DEF LineSeqs
    <3> QED
      BY <2>3, <3>2, ConcatProperties DEF LineSeqs
  <2> QED
    BY <1>2, <2>2, <2>3, <2>5
<1> QED
  BY <1>1, <1>2

-----------------------------------------------------------------------------
(* The inductive invariant.                                                *)

Kept(k) == Saved[k] = map[k]

\* The lines that are still to be written say what the store holds, and the
\* log has a name while its descriptor leads to it.
Logged ==
  /\ logfd = "log" => log # NoFile
  /\ pc \notin {"append", "dump"} => todo = {}
  /\ \A l \in todo : map[l.key] = l.bind
  /\ pc \in {"unlink", "create"} => map = EmptyMap
  /\ pc = "create" => log = NoFile

\* The file of a dump begins with lines of the store, and the lines of the
\* store are there or still to be written.  In a fresh file there is no more.
Written ==
  pc \in {"dump", "dumped"} =>
    LET file == files[dump.file] IN
      /\ file \in LineSeqs /\ dump.lines <= Len(file)
      /\ \A i \in 1 .. dump.lines : file[i] \in LinesOf(map)
      /\ todo \subseteq LinesOf(map)
      /\ \A l \in LinesOf(map) \ todo : \E i \in 1 .. dump.lines : file[i] = l
      /\ dump.fresh => Len(file) = dump.lines

\* What was saved differs from the store only where a line is still to be
\* written.
SavedAt(k) ==
  /\ pc \in {"idle", "dump", "dumped", "reply", "create"} => Kept(k)
  /\ pc = "append" /\ (\A l \in todo : l.key # k) => Kept(k)
  /\ Saved[k] \in {before[k], map[k]}

IInv == TypeOK /\ Logged /\ Written /\ \A k \in Keys \ lost : SavedAt(k)

LEMMA EmptyIsMap == EmptyMap \in Map
BY DEF EmptyMap, Map, Bound

LEMMA SavedIsMap ==
  ASSUME TypeOK
  PROVE  Saved \in Map
<1>1. log # NoFile => log \in Seq(Lines)
  BY DEF TypeOK
<1>2. log # NoFile => Replay(EmptyMap, log) \in Map
  BY <1>1, EmptyIsMap, GoodLines, ReplayIsMap
<1> QED
  BY <1>2, EmptyIsMap DEF Saved

LEMMA InitLogs == Init => IInv
<1> SUFFICES ASSUME Init PROVE IInv
  OBVIOUS
<1>1. <<>> \in Seq(Lines) /\ <<>> # NoFile
  <2>1. <<>> \in Seq(Lines) /\ <<>> \in LineSeqs
    BY EmptySeq DEF LineSeqs
  <2> QED
    BY <2>1, NoFileAssumption DEF LineSeqs
<1>2. files \in [Files -> FileType]
  BY ContentsAssumption DEF Init
<1>3. TypeOK
  <2>1. \E f \in Files : dump = [file |-> f, fresh |-> FALSE, lines |-> 0]
    BY DEF Init
  <2>2. dump \in [file : Files, fresh : BOOLEAN, lines : Nat]
    BY <2>1
  <2> QED
    BY <1>1, <1>2, <2>2, EmptyIsMap DEF Init, TypeOK
<1>4. Saved = EmptyMap
  BY <1>1, EmptyIsMap, ReplayNothing DEF Init, Saved
<1>5. Logged /\ Written /\ \A k \in Keys \ lost : SavedAt(k)
  BY <1>1, <1>4 DEF Init, Logged, Written, SavedAt, Kept
<1> QED
  BY <1>3, <1>5 DEF IInv

\* The log stays what it is.
LEMMA SameSaved ==
  ASSUME log' = log
  PROVE  Saved' = Saved
BY DEF Saved

\* A request that changes the store: what has no line stays what it was, or
\* is known to be lost.
LEMMA ChangeStep ==
  ASSUME IInv, NEW m \in Map, NEW lines \in SUBSET Lines, Change(m, lines),
         lost' \in SUBSET Keys, lost \subseteq lost',
         \A l \in lines : m[l.key] = l.bind,
         \A k \in Keys \ lost' : m[k] = map[k] \/ \E l \in lines : l.key = k
  PROVE  IInv'
<1>1. TypeOK /\ Logged /\ pc = "idle"
  BY DEF IInv, Change
<1>2. /\ map' = m /\ todo' = lines /\ before' = map
      /\ pc' = IF lines = {} THEN "reply" ELSE "append"
      /\ UNCHANGED <<log, logfd, files, dump>>
  BY DEF Change, storeVars, logVars, dumpVars
<1>3. TypeOK' /\ Logged' /\ Written'
  BY <1>1, <1>2 DEF TypeOK, Logged, Written
<1>4. ASSUME NEW k \in Keys \ lost' PROVE SavedAt(k)'
  <2>1. Saved[k] = map[k] /\ Saved' = Saved
    BY <1>1, <1>2, <1>4, SameSaved DEF IInv, SavedAt, Kept
  <2>2. \/ m[k] = map[k]
        \/ lines # {} /\ ~ \A l \in lines : l.key # k
    BY <1>4
  <2> QED
    BY <1>2, <2>1, <2>2 DEF SavedAt, Kept
<1> QED
  BY <1>3, <1>4 DEF IInv

LEMMA SetStep ==
  ASSUME IInv, NEW k \in Keys, NEW b \in Binding, Set(k, b)
  PROVE  IInv'
<1> DEFINE m == [map EXCEPT ![k] = b]
<1>1. map \in Map /\ b \in Bound /\ lost' = lost /\ lost \in SUBSET Keys
  BY DEF IInv, TypeOK, Set, Bound
<1>2. /\ m \in Map /\ m[k] = b /\ \A j \in Keys : j # k => m[j] = map[j]
      /\ {Line(k, b)} \in SUBSET Lines /\ Line(k, b).key = k /\ Line(k, b).bind = b
  BY <1>1, LineTypes DEF Map
<1>3. Change(m, {Line(k, b)})
  BY DEF Set
<1> HIDE DEF m
<1> QED
  BY <1>1, <1>2, <1>3, ChangeStep

LEMMA DeleteStep ==
  ASSUME IInv, NEW k \in Keys, Delete(k)
  PROVE  IInv'
<1> DEFINE m == [map EXCEPT ![k] = Absent]
<1>1. map \in Map /\ Absent \in Bound /\ lost' = lost /\ lost \in SUBSET Keys
  BY DEF IInv, TypeOK, Delete, Bound
<1>2. /\ m \in Map /\ m[k] = Absent /\ \A j \in Keys : j # k => m[j] = map[j]
      /\ {Line(k, Absent)} \in SUBSET Lines
      /\ Line(k, Absent).key = k /\ Line(k, Absent).bind = Absent
  BY <1>1, LineTypes DEF Map
<1>3. Change(m, {Line(k, Absent)})
  BY DEF Delete
<1> HIDE DEF m
<1> QED
  BY <1>1, <1>2, <1>3, ChangeStep

LEMMA LoadStep ==
  ASSUME IInv, NEW f \in Files, Load(f)
  PROVE  IInv'
<1> DEFINE m == Replay(map, files[f])
<1>1. /\ map \in Map /\ files[f] \in LineSeqs /\ lost \in SUBSET Keys
      /\ Change(m, LinesOf(m)) /\ lost' = lost \cup (Present(map) \ Present(m))
  BY DEF IInv, TypeOK, Load, FileType, LineSeqs
<1>2. m \in Map
  BY <1>1, ReplayIsMap
<1> HIDE DEF m
<1>3. /\ LinesOf(m) \in SUBSET Lines /\ \A l \in LinesOf(m) : m[l.key] = l.bind
      /\ \A k \in Keys : m[k] # Absent => Line(k, m[k]) \in LinesOf(m) /\ Line(k, m[k]).key = k
  BY <1>2, LinesOfAMap, LineTypes DEF Map
<1>4. lost' \in SUBSET Keys /\ lost \subseteq lost'
  BY <1>1 DEF Present
<1>5. \A k \in Keys \ lost' : m[k] = map[k] \/ \E l \in LinesOf(m) : l.key = k
  BY <1>1, <1>3 DEF Present
<1> QED
  BY <1>1, <1>2, <1>3, <1>4, <1>5, ChangeStep

LEMMA LoadRefusedStep ==
  ASSUME IInv, NEW f \in Files, LoadRefused(f)
  PROVE  IInv'
<1> DEFINE m == Replay(map, files[f])
<1>1. /\ map \in Map /\ files[f] \in LineSeqs /\ lost \in SUBSET Keys
      /\ Change(m, {}) /\ lost' = lost \cup {k \in Keys : m[k] # map[k]}
  BY DEF IInv, TypeOK, LoadRefused, FileType, LineSeqs
<1>2. m \in Map
  BY <1>1, ReplayIsMap
<1> HIDE DEF m
<1> QED
  BY <1>1, <1>2, ChangeStep

LEMMA AppendLineStep ==
  ASSUME IInv, AppendLine
  PROVE  IInv'
<1>1. TypeOK /\ Logged /\ pc = "append"
  BY DEF IInv, AppendLine
<1>2. PICK l \in todo :
        /\ IF logfd = "log"
             THEN log' = Append(log, l) /\ lost' = lost \ {l.key}
             ELSE log' = log /\ lost' = lost \cup {l.key}
        /\ todo' = todo \ {l}
  BY DEF AppendLine
<1>3. /\ pc' = IF todo' = {} THEN "reply" ELSE "append"
      /\ UNCHANGED <<map, logfd, files, dump, before>>
  BY DEF AppendLine, storeVars, logVars, dumpVars
<1>4. /\ l \in Lines /\ l.key \in Keys /\ map[l.key] = l.bind
      /\ \A k \in todo : k \in Lines /\ map[k.key] = k.bind
  BY <1>1, <1>2, LineTypes DEF TypeOK, Logged, Written
<1>5. \A k \in todo : k.key = l.key => k = l
  BY <1>4, LineTypes
<1>6. CASE logfd = "log"
  <2>1. log \in Seq(Lines) /\ log # NoFile
    BY <1>1, <1>6 DEF TypeOK, Logged, Written
  <2>2. log' = Append(log, l) /\ lost' = lost \ {l.key}
    BY <1>2, <1>6
  <2>3. /\ log' \in Seq(Lines)
        /\ Replay(EmptyMap, log')[l.key] = l.bind
        /\ \A k \in Keys : k # l.key => Replay(EmptyMap, log')[k] = Replay(EmptyMap, log)[k]
    BY <1>4, <2>1, <2>2, EmptyIsMap, ReplayAppend
  <2>4. log' # NoFile
    <3>1. log' \in LineSeqs
      BY <2>3, GoodLines
    <3> QED
      BY <3>1, NoFileAssumption DEF LineSeqs
  <2>5. /\ Saved'[l.key] = l.bind
        /\ \A k \in Keys : k # l.key => Saved'[k] = Saved[k]
    BY <2>1, <2>3, <2>4 DEF Saved
  <2>6. TypeOK' /\ Logged' /\ Written'
    BY <1>1, <1>2, <1>3, <1>4, <2>2, <2>3, <2>4 DEF TypeOK, Logged, Written
  <2>7. ASSUME NEW k \in Keys \ lost' PROVE SavedAt(k)'
    <3>1. CASE k = l.key
      BY <1>3, <1>4, <2>5, <3>1 DEF SavedAt, Kept
    <3>2. CASE k # l.key
      <4>1. SavedAt(k) /\ Saved'[k] = Saved[k]
        BY <2>2, <2>5, <2>7, <3>2 DEF IInv
      <4>2. (\A j \in todo' : j.key # k) => \A j \in todo : j.key # k
        BY <1>2, <3>2
      <4> QED
        BY <1>1, <1>3, <4>1, <4>2 DEF SavedAt, Kept
    <3> QED
      BY <3>1, <3>2
  <2> QED
    BY <2>6, <2>7 DEF IInv
<1>7. CASE logfd # "log"
  <2>1. log' = log /\ lost' = lost \cup {l.key} /\ Saved' = Saved
    BY <1>2, <1>7, SameSaved
  <2>2. TypeOK' /\ Logged' /\ Written'
    BY <1>1, <1>2, <1>3, <1>4, <1>7, <2>1 DEF TypeOK, Logged, Written
  <2>3. ASSUME NEW k \in Keys \ lost' PROVE SavedAt(k)'
    <3>1. SavedAt(k) /\ k # l.key
      BY <2>1, <2>3 DEF IInv
    <3>2. (\A j \in todo' : j.key # k) => \A j \in todo : j.key # k
      BY <1>2, <3>1
    <3> QED
      BY <1>1, <1>3, <2>1, <3>1, <3>2 DEF SavedAt, Kept
  <2> QED
    BY <2>2, <2>3 DEF IInv
<1> QED
  BY <1>6, <1>7

LEMMA AppendFailsStep ==
  ASSUME IInv, AppendFails
  PROVE  IInv'
<1>1. TypeOK /\ Logged /\ pc = "append"
  BY DEF IInv, AppendFails
<1>2. /\ lost' = lost \cup {l.key : l \in todo} /\ todo' = {} /\ pc' = "reply"
      /\ UNCHANGED <<map, log, logfd, files, dump, before>>
  BY DEF AppendFails, storeVars, logVars, dumpVars
<1>3. \A l \in todo : l.key \in Keys
  BY <1>1, LineTypes DEF TypeOK
<1>4. TypeOK' /\ Logged' /\ Written'
  BY <1>1, <1>2, <1>3 DEF TypeOK, Logged, Written
<1>5. ASSUME NEW k \in Keys \ lost' PROVE SavedAt(k)'
  <2>1. SavedAt(k) /\ (\A l \in todo : l.key # k) /\ Saved' = Saved
    BY <1>2, <1>5, SameSaved DEF IInv
  <2> QED
    BY <1>1, <1>2, <2>1 DEF SavedAt, Kept
<1> QED
  BY <1>4, <1>5 DEF IInv

LEMMA ClearStep ==
  ASSUME IInv, Clear
  PROVE  IInv'
<1>1. TypeOK /\ Logged /\ pc = "idle"
  BY DEF IInv, Clear
<1>2. /\ map' = EmptyMap /\ before' = map /\ pc' = "unlink"
      /\ UNCHANGED <<log, logfd, files, dump, todo, lost>>
  BY DEF Clear, storeVars, logVars, dumpVars
<1>3. TypeOK' /\ Logged' /\ Written'
  BY <1>1, <1>2, EmptyIsMap DEF TypeOK, Logged, Written
<1>4. ASSUME NEW k \in Keys \ lost' PROVE SavedAt(k)'
  <2>1. SavedAt(k) /\ Saved' = Saved
    BY <1>2, <1>4, SameSaved DEF IInv
  <2> QED
    BY <1>1, <1>2, <2>1 DEF SavedAt, Kept
<1> QED
  BY <1>3, <1>4 DEF IInv

LEMMA ClearUnlinkStep ==
  ASSUME IInv, ClearUnlink
  PROVE  IInv'
<1>1. TypeOK /\ Logged /\ map = EmptyMap
  BY DEF IInv, ClearUnlink, Logged
<1>2. /\ pc = "unlink" /\ pc' = "create" /\ log' = NoFile
      /\ logfd' = "unlinked" /\ lost' = {}
      /\ UNCHANGED <<map, files, dump, todo, before>>
  BY DEF ClearUnlink, storeVars, logVars, dumpVars
<1>3. Saved' = map'
  BY <1>1, <1>2 DEF Saved
<1>4. TypeOK' /\ Logged' /\ Written'
  BY <1>1, <1>2 DEF TypeOK, Logged, Written
<1>5. \A k \in Keys : SavedAt(k)'
  BY <1>2, <1>3 DEF SavedAt, Kept
<1> QED
  BY <1>4, <1>5 DEF IInv

LEMMA UnlinkFailsStep ==
  ASSUME IInv, UnlinkFails
  PROVE  IInv'
<1>1. TypeOK /\ Logged /\ map = EmptyMap
  BY DEF IInv, UnlinkFails, Logged
<1>2. /\ pc = "unlink" /\ pc' = "reply"
      /\ \/ log = NoFile /\ lost' = {}
         \/ log # NoFile /\ lost' = lost \cup Present(before)
      /\ UNCHANGED <<map, before, log, logfd, files, dump, todo>>
  BY DEF UnlinkFails, storeVars, logVars, dumpVars
<1>3. TypeOK' /\ Logged' /\ Written'
  BY <1>1, <1>2 DEF TypeOK, Logged, Written, Present
<1>4. ASSUME NEW k \in Keys \ lost' PROVE SavedAt(k)'
  <2>1. Saved' = Saved
    BY <1>2, SameSaved
  <2>2. CASE log = NoFile
    BY <1>1, <1>2, <2>1, <2>2 DEF Saved, SavedAt, Kept
  <2>3. CASE log # NoFile
    <3>1. SavedAt(k) /\ before[k] = Absent
      BY <1>2, <1>4, <2>3 DEF IInv, Present
    <3>2. map[k] = Absent
      BY <1>1 DEF EmptyMap
    <3>3. Saved[k] = map[k]
      BY <3>1, <3>2 DEF SavedAt
    <3> QED
      BY <1>2, <2>1, <3>3 DEF SavedAt, Kept
  <2> QED
    BY <2>2, <2>3
<1> QED
  BY <1>3, <1>4 DEF IInv

LEMMA ClearCreateStep ==
  ASSUME IInv, ClearCreate
  PROVE  IInv'
<1>1. TypeOK /\ Logged /\ pc = "create" /\ log = NoFile /\ map = EmptyMap
  BY DEF IInv, ClearCreate, Logged
<1>2. /\ log' = <<>> \/ log' = log
      /\ pc' = "reply" /\ UNCHANGED <<map, logfd, files, dump, todo, before, lost>>
  BY DEF ClearCreate, storeVars, logVars, dumpVars
<1>3. Saved' = EmptyMap
  BY <1>1, <1>2, EmptyIsMap, ReplayNothing DEF Saved
<1>4. logfd # "log" \/ log' # NoFile
  BY <1>1 DEF Logged
<1>5. <<>> \in Seq(Lines)
  BY EmptySeq
<1>6. TypeOK' /\ Logged' /\ Written'
  BY <1>1, <1>2, <1>4, <1>5 DEF TypeOK, Logged, Written
<1>7. \A k \in Keys : SavedAt(k)'
  BY <1>1, <1>2, <1>3 DEF SavedAt, Kept
<1> QED
  BY <1>6, <1>7 DEF IInv

LEMMA ReplyStep ==
  ASSUME IInv, Reply
  PROVE  IInv'
<1>1. TypeOK /\ Logged /\ pc \in {"reply", "dumped"}
  BY DEF IInv, Reply
<1>2. /\ pc' = "idle" /\ before' = map
      /\ UNCHANGED <<map, log, logfd, files, dump, todo, lost>>
  BY DEF Reply, storeVars, logVars, dumpVars
<1>3. TypeOK' /\ Logged' /\ Written'
  BY <1>1, <1>2 DEF TypeOK, Logged, Written
<1>4. ASSUME NEW k \in Keys \ lost' PROVE SavedAt(k)'
  <2>1. SavedAt(k) /\ Saved' = Saved
    BY <1>2, <1>4, SameSaved DEF IInv
  <2> QED
    BY <1>1, <1>2, <2>1 DEF SavedAt, Kept
<1> QED
  BY <1>3, <1>4 DEF IInv

LEMMA OpenFailsStep ==
  ASSUME IInv, OpenFails
  PROVE  IInv'
<1>1. map \in Map /\ lost \in SUBSET Keys
  BY DEF IInv, TypeOK
<1>2. Change(map, {}) /\ lost' = lost
  BY DEF OpenFails
<1> QED
  BY <1>1, <1>2, ChangeStep

LEMMA DumpStep ==
  ASSUME IInv, NEW f \in Files, Dump(f)
  PROVE  IInv'
<1>1. /\ TypeOK /\ Logged /\ pc = "idle"
      /\ map \in Map /\ files \in [Files -> FileType]
  BY DEF IInv, TypeOK, Dump
<1>2. /\ files' = [files EXCEPT ![f] = IF @ = NoFile THEN <<>> ELSE @]
      /\ dump' = [file |-> f, fresh |-> files[f] \in {NoFile, <<>>}, lines |-> 0]
      /\ todo' = LinesOf(map) /\ pc' = "dump"
      /\ UNCHANGED <<map, before, lost, log, logfd>>
  BY DEF Dump, storeVars, logVars
<1>3. LinesOf(map) \in SUBSET Lines /\ \A l \in LinesOf(map) : map[l.key] = l.bind
  BY <1>1, LinesOfAMap
<1>4. <<>> \in LineSeqs /\ Len(<<>>) = 0
  BY DEF LineSeqs
<1>5. files'[f] \in LineSeqs /\ files' \in [Files -> FileType]
  BY <1>1, <1>2, <1>4 DEF FileType, LineSeqs
<1>6. Len(files'[f]) \in Nat
  BY <1>5, LenProperties DEF LineSeqs
<1>7. TypeOK'
  BY <1>1, <1>2, <1>3, <1>5 DEF TypeOK
<1>8. Logged'
  BY <1>1, <1>2, <1>3 DEF Logged
<1>9. Written'
  <2>1. dump'.file = f /\ dump'.lines = 0 /\ map' = map /\ todo' = LinesOf(map)
    BY <1>2
  <2>2. dump'.fresh => files'[f] = <<>>
    BY <1>1, <1>2
  <2>3. LinesOf(map)' = LinesOf(map)
    BY <1>2 DEF LinesOf, Present
  <2> QED
    BY <1>4, <1>5, <1>6, <2>1, <2>2, <2>3 DEF Written
<1>10. ASSUME NEW k \in Keys \ lost' PROVE SavedAt(k)'
  <2>1. SavedAt(k) /\ Saved' = Saved
    BY <1>2, <1>10, SameSaved DEF IInv
  <2> QED
    BY <1>1, <1>2, <2>1 DEF SavedAt, Kept
<1> QED
  BY <1>7, <1>8, <1>9, <1>10 DEF IInv

\* What a line written over the start of what was left does to the file.
LEMMA OneLineWritten ==
  ASSUME NEW s \in LineSeqs, NEW n \in Nat, n <= Len(s), NEW l \in Lines,
         NEW left \in Left(SubSeq(s, n + 1, Len(s)))
  PROVE  LET t == Append(SubSeq(s, 1, n), l) \o left IN
         /\ t \in LineSeqs /\ n + 1 <= Len(t)
         /\ t[n + 1] = l /\ \A i \in 1 .. n : t[i] = s[i]
         /\ Len(s) = n => Len(t) = n + 1
<1> DEFINE a == SubSeq(s, 1, n)
    b == SubSeq(s, n + 1, Len(s))
    c == Append(a, l)
    t == c \o left
    T == Lines \cup {BadLine}
<1>1. Len(s) \in Nat /\ \A i \in 1 .. Len(s) : s[i] \in T
  BY LenProperties, ElementOfSeq DEF LineSeqs
<1>2. /\ a \in Seq(T) /\ Len(a) = n /\ \A i \in 1 .. n : a[i] = s[i]
  <2>1. 1 \in Int /\ n \in Int /\ \A i \in 1 .. n : s[i] \in T
    BY <1>1
  <2>2. /\ a \in Seq(T)
        /\ Len(a) = IF 1 <= n THEN n - 1 + 1 ELSE 0
        /\ \A i \in 1 .. n - 1 + 1 : a[i] = s[1 + i - 1]
    BY <2>1, SubSeqProperties
  <2> HIDE DEF a
  <2> QED
    BY <2>2
<1>3. b \in LineSeqs /\ (Len(s) = n => b = <<>>)
  <2>1. n + 1 \in Int /\ Len(s) \in Int /\ \A i \in n + 1 .. Len(s) : s[i] \in T
    BY <1>1
  <2>2. /\ b \in Seq(T)
        /\ Len(b) = IF n + 1 <= Len(s) THEN Len(s) - (n + 1) + 1 ELSE 0
    BY <2>1, SubSeqProperties
  <2> HIDE DEF b
  <2>3. Len(s) = n => Len(b) = 0
    BY <1>1, <2>2
  <2> QED
    BY <2>2, <2>3, EmptySeq DEF LineSeqs
<1> HIDE DEF a, b
<1>4. left \in Seq(T) /\ (Len(s) = n => left = <<>>)
  BY <1>3, LeftTypes DEF LineSeqs, b
<1>5. c \in Seq(T) /\ Len(c) = n + 1 /\ c[n + 1] = l /\ \A i \in 1 .. n : c[i] = a[i]
  BY <1>2, AppendProperties
<1> HIDE DEF c
<1>6. Len(left) \in Nat /\ (Len(s) = n => Len(left) = 0)
  BY <1>4, LenProperties, EmptySeq
<1>7. /\ t \in Seq(T) /\ Len(t) = n + 1 + Len(left)
      /\ \A i \in 1 .. n + 1 : t[i] = c[i]
  <2>1. /\ t \in Seq(T) /\ Len(t) = Len(c) + Len(left)
        /\ \A i \in 1 .. Len(c) + Len(left) : t[i] = IF i <= Len(c) THEN c[i] ELSE left[i - Len(c)]
    BY <1>4, <1>5, ConcatProperties
  <2> HIDE DEF t
  <2> QED
    BY <1>5, <1>6, <2>1
<1> HIDE DEF t
<1>8. t \in LineSeqs /\ n + 1 <= Len(t) /\ (Len(s) = n => Len(t) = n + 1)
  BY <1>6, <1>7 DEF LineSeqs
<1>9. t[n + 1] = l /\ \A i \in 1 .. n : t[i] = s[i]
  BY <1>2, <1>5, <1>7
<1> QED
  BY <1>8, <1>9 DEF t, c, a

LEMMA DumpLineStep ==
  ASSUME IInv, DumpLine
  PROVE  IInv'
<1> DEFINE f == dump.file
    n == dump.lines
    s == files[f]
<1>1. TypeOK /\ Logged /\ Written /\ pc = "dump" /\ map \in Map
  BY DEF IInv, TypeOK, DumpLine
<1>2. PICK l \in todo, left \in Left(SubSeq(s, n + 1, Len(s))) :
        /\ files' = [files EXCEPT ![f] = Append(SubSeq(s, 1, n), l) \o left]
        /\ todo' = todo \ {l}
  BY DEF DumpLine
<1>3. /\ dump' = [dump EXCEPT !.lines = @ + 1]
      /\ UNCHANGED <<map, before, lost, log, logfd, pc>>
  BY DEF DumpLine, storeVars, logVars
<1>4. /\ f \in Files /\ n \in Nat /\ todo \in SUBSET Lines /\ files \in [Files -> FileType]
      /\ dump' \in [file : Files, fresh : BOOLEAN, lines : Nat]
      /\ dump'.file = f /\ dump'.lines = n + 1 /\ dump'.fresh = dump.fresh
  BY <1>1, <1>3 DEF TypeOK
<1>5. /\ s \in LineSeqs /\ n <= Len(s)
      /\ \A i \in 1 .. n : s[i] \in LinesOf(map)
      /\ todo \subseteq LinesOf(map)
      /\ \A j \in LinesOf(map) \ todo : \E i \in 1 .. n : s[i] = j
      /\ dump.fresh => Len(s) = n
  BY <1>1 DEF Written
<1> DEFINE t == Append(SubSeq(s, 1, n), l) \o left
<1> HIDE DEF f, n, s
<1>6. /\ t \in LineSeqs /\ n + 1 <= Len(t)
      /\ t[n + 1] = l /\ \A i \in 1 .. n : t[i] = s[i]
      /\ Len(s) = n => Len(t) = n + 1
  BY <1>2, <1>4, <1>5, OneLineWritten
<1> HIDE DEF t
<1>7. files' = [files EXCEPT ![f] = t] /\ files'[f] = t
  BY <1>2, <1>4 DEF t
<1>8. TypeOK' /\ Logged'
  <2>1. files' \in [Files -> FileType]
    BY <1>4, <1>6, <1>7 DEF FileType, LineSeqs
  <2> QED
    BY <1>1, <1>2, <1>3, <1>4, <2>1 DEF TypeOK, Logged
<1>9. Written'
  <2>1. LinesOf(map)' = LinesOf(map)
    BY <1>3 DEF LinesOf, Present
  <2>2. \A i \in 1 .. n + 1 : t[i] \in LinesOf(map)
    <3>1. l \in LinesOf(map)
      BY <1>2, <1>5
    <3>2. \A i \in 1 .. n + 1 : i = n + 1 \/ i \in 1 .. n
      BY <1>4
    <3> QED
      BY <1>5, <1>6, <3>1, <3>2
  <2>3. ASSUME NEW j \in LinesOf(map) \ todo'
        PROVE  \E i \in 1 .. n + 1 : t[i] = j
    <3>1. CASE j = l
      <4>1. n + 1 \in 1 .. n + 1
        BY <1>4
      <4> QED
        BY <1>6, <3>1, <4>1
    <3>2. CASE j # l
      <4>1. PICK i \in 1 .. n : s[i] = j
        BY <1>2, <1>5, <3>2
      <4>2. i \in 1 .. n + 1 /\ t[i] = j
        BY <1>4, <1>6, <4>1
      <4> QED
        BY <4>2
    <3> QED
      BY <3>1, <3>2
  <2>4. todo' \subseteq LinesOf(map)
    BY <1>2, <1>5
  <2>5. dump'.fresh => Len(t) = n + 1
    BY <1>4, <1>5, <1>6
  <2> QED
    BY <1>4, <1>6, <1>7, <2>1, <2>2, <2>3, <2>4, <2>5 DEF Written
<1>10. ASSUME NEW k \in Keys \ lost' PROVE SavedAt(k)'
  <2>1. SavedAt(k) /\ Saved' = Saved
    BY <1>3, <1>10, SameSaved DEF IInv
  <2> QED
    BY <1>1, <1>3, <2>1 DEF SavedAt, Kept
<1> QED
  BY <1>8, <1>9, <1>10 DEF IInv

LEMMA DumpEndsStep ==
  ASSUME IInv, DumpFails \/ DumpCloses
  PROVE  IInv'
<1>1. TypeOK /\ Logged /\ Written /\ pc = "dump"
  BY DEF IInv, DumpFails, DumpCloses
<1>2. /\ todo' = {} /\ pc' \in {"reply", "dumped"} /\ (pc' = "dumped" => todo = {})
      /\ UNCHANGED <<map, before, lost, log, logfd, files, dump>>
  BY DEF DumpFails, DumpCloses, storeVars, logVars, dumpVars
<1>3. TypeOK' /\ Logged'
  BY <1>1, <1>2 DEF TypeOK, Logged
<1>4. Written'
  <2>1. LinesOf(map)' = LinesOf(map)
    BY <1>2 DEF LinesOf, Present
  <2> QED
    BY <1>1, <1>2, <2>1 DEF Written
<1>5. ASSUME NEW k \in Keys \ lost' PROVE SavedAt(k)'
  <2>1. SavedAt(k) /\ Saved' = Saved
    BY <1>2, <1>5, SameSaved DEF IInv
  <2> QED
    BY <1>1, <1>2, <2>1 DEF SavedAt, Kept
<1> QED
  BY <1>3, <1>4, <1>5 DEF IInv

LEMMA CrashStep ==
  ASSUME IInv, Crash
  PROVE  IInv'
<1>1. TypeOK /\ Logged
  BY DEF IInv
<1>2. /\ pc' = "down" /\ todo' = {}
      /\ UNCHANGED <<map, log, logfd, files, dump, before, lost>>
  BY DEF Crash, storeVars, logVars, dumpVars
<1>3. TypeOK' /\ Logged' /\ Written'
  BY <1>1, <1>2 DEF TypeOK, Logged, Written
<1>4. ASSUME NEW k \in Keys \ lost' PROVE SavedAt(k)'
  <2>1. SavedAt(k) /\ Saved' = Saved
    BY <1>2, <1>4, SameSaved DEF IInv
  <2> QED
    BY <1>2, <2>1 DEF SavedAt, Kept
<1> QED
  BY <1>3, <1>4 DEF IInv

LEMMA RestartStep ==
  ASSUME IInv, Restart
  PROVE  IInv'
<1>1. TypeOK /\ Logged /\ pc = "down" /\ todo = {}
  BY DEF IInv, Restart, Logged
<1>2. /\ log' = (IF log = NoFile THEN <<>> ELSE log)
      /\ logfd' = "log" /\ map' = Saved /\ before' = Saved /\ lost' = {} /\ pc' = "idle"
      /\ UNCHANGED <<files, dump, todo>>
  BY DEF Restart, storeVars, logVars, dumpVars
<1>3. <<>> \in Seq(Lines) /\ <<>> # NoFile
  <2>1. <<>> \in Seq(Lines) /\ <<>> \in LineSeqs
    BY EmptySeq DEF LineSeqs
  <2> QED
    BY <2>1, NoFileAssumption DEF LineSeqs
<1>4. Saved' = Saved
  <2>1. CASE log = NoFile
    BY <1>2, <1>3, <2>1, EmptyIsMap, ReplayNothing DEF Saved
  <2>2. CASE log # NoFile
    BY <1>2, <2>2, SameSaved
  <2> QED
    BY <2>1, <2>2
<1>5. TypeOK' /\ Logged' /\ Written'
  BY <1>1, <1>2, <1>3, SavedIsMap DEF TypeOK, Logged, Written
<1>6. \A k \in Keys : SavedAt(k)'
  BY <1>2, <1>4 DEF SavedAt, Kept
<1> QED
  BY <1>5, <1>6 DEF IInv

LEMMA NextLogs == IInv /\ [Next]_vars => IInv'
<1> SUFFICES ASSUME IInv, [Next]_vars PROVE IInv'
  OBVIOUS
<1>1. CASE Next
  BY <1>1, SetStep, DeleteStep, LoadStep, LoadRefusedStep, ClearStep, AppendLineStep,
     AppendFailsStep, ClearUnlinkStep, UnlinkFailsStep, ClearCreateStep, OpenFailsStep,
     DumpStep, DumpLineStep, DumpEndsStep, ReplyStep, CrashStep, RestartStep DEF Next
<1>2. CASE UNCHANGED vars
  <2>1. UNCHANGED <<map, before, lost, log, logfd, files, dump, pc, todo>>
    BY <1>2 DEF vars, storeVars, logVars, dumpVars
  <2>2. Saved' = Saved /\ LinesOf(map)' = LinesOf(map)
    BY <2>1, SameSaved DEF LinesOf, Present
  <2>3. TypeOK' /\ Logged' /\ Written'
    BY <2>1, <2>2 DEF IInv, TypeOK, Logged, Written
  <2>4. \A k \in Keys \ lost' : SavedAt(k)'
    BY <2>1, <2>2 DEF IInv, SavedAt, Kept
  <2> QED
    BY <2>3, <2>4 DEF IInv
<1> QED
  BY <1>1, <1>2

(* Outside the variables that are known to be lost, log.txt says what the    *)
(* store holds, but for the lines that are still to be written.              *)
THEOREM Invariance == Spec => []IInv
BY InitLogs, NextLogs, PTL DEF Spec

(* Types are right in every state: log.txt only ever holds lines that        *)
(* load_log accepts.                                                         *)
THEOREM TypesAreRight == Spec => []TypeOK
<1>1. IInv => TypeOK
  BY DEF IInv
<1> QED
  BY <1>1, Invariance, PTL

(* Wherever the process ends, log.txt holds for every variable what it was   *)
(* before the request in progress or what that request made of it, and       *)
(* between requests the store, but for the changes that never reached it.    *)
THEOREM LogKeepsTheStore == Spec => []CrashKeepsOldOrNew
<1>1. IInv => CrashKeepsOldOrNew
  BY DEF IInv, SavedAt, Kept, CrashKeepsOldOrNew
<1> QED
  BY <1>1, Invariance, PTL

(* The process that starts gets the store of the one that ended, up to the   *)
(* request that one had in progress.                                         *)
THEOREM RestartIsFaithful == Spec => RestartRestores
<1> DEFINE Restored ==
      pc = "down" /\ pc' = "idle" => \A k \in Keys \ lost : map'[k] \in {before[k], map[k]}
<1>1. IInv /\ [Next]_vars => [Restored]_vars
  <2> SUFFICES ASSUME IInv, Next, pc = "down", pc' = "idle", NEW k \in Keys \ lost
               PROVE  map'[k] \in {before[k], map[k]}
    OBVIOUS
  <2>1. map' = Saved
    BY DEF Next, Set, Delete, Load, LoadRefused, OpenFails, Change, AppendLine, AppendFails,
           Clear, ClearUnlink, UnlinkFails, ClearCreate, Dump, DumpLine, DumpFails,
           DumpCloses, Reply, Crash, Restart
  <2> QED
    BY <2>1 DEF IInv, SavedAt
<1>2. Spec => [][Restored]_vars
  BY <1>1, Invariance, PTL DEF Spec
<1> QED
  BY <1>2 DEF RestartRestores

-----------------------------------------------------------------------------
(* Dumps.                                                                  *)

\* The lines of a store, in any order, are the store.
LEMMA LinesAreTheMap ==
  ASSUME NEW m \in Map, NEW s \in Seq(LinesOf(m)),
         \A l \in LinesOf(m) : \E i \in 1 .. Len(s) : s[i] = l
  PROVE  Accepts(s) /\ Replay(EmptyMap, s) = m
<1>1. /\ s \in Seq(Lines) /\ Len(s) \in Nat
      /\ \A i \in 1 .. Len(s) : s[i] \in LinesOf(m)
  BY LinesOfAMap, SeqMonotonic, LenProperties, ElementOfSeq
<1>2. s \in LineSeqs /\ ValidLines(s) = DOMAIN s /\ DOMAIN s = 1 .. Len(s)
  BY <1>1, GoodLines
<1>3. ASSUME NEW k \in Keys
      PROVE  Replay(EmptyMap, s)[k] = m[k]
  <2>1. CASE m[k] = Absent
    <3>1. \A i \in ValidLines(s) : s[i].key # k
      BY <1>1, <1>2, <2>1, LinesOfAMap
    <3>2. Replay(EmptyMap, s)[k] = EmptyMap[k]
      BY <1>2, <3>1, EmptyIsMap, ReplayIs
    <3> QED
      BY <2>1, <3>2 DEF EmptyMap
  <2>2. CASE m[k] # Absent
    <3>1. Line(k, m[k]) \in LinesOf(m) /\ Line(k, m[k]).key = k
      <4>1. m[k] \in Bound
        BY DEF Map
      <4> QED
        BY <2>2, <4>1, LinesOfAMap, LineTypes
    <3>2. PICK j \in 1 .. Len(s) : s[j] = Line(k, m[k])
      BY <3>1
    <3>3. \E i \in ValidLines(s) : s[i].key = k
      BY <1>2, <3>1, <3>2
    <3>4. PICK i : IsLastAbout(s, i, k)
      BY <1>2, <3>3, ReplayIs
    <3>5. Replay(EmptyMap, s)[k] = s[i].bind
      BY <1>2, <3>4, EmptyIsMap, ReplayIs
    <3>6. s[i].bind = m[k]
      <4>1. s[i] \in LinesOf(m) /\ s[i].key = k
        BY <1>1, <1>2, <3>4 DEF IsLastAbout
      <4> QED
        BY <4>1, LinesOfAMap
    <3> QED
      BY <3>5, <3>6
  <2> QED
    BY <2>1, <2>2
<1>4. Replay(EmptyMap, s) = [k \in Keys |-> Replay(EmptyMap, s)[k]] /\ m = [k \in Keys |-> m[k]]
  BY <1>2, EmptyIsMap, ReplayIsLast DEF After, Map
<1>5. Replay(EmptyMap, s) = m
  BY <1>3, <1>4
<1> QED
  BY <1>2, <1>5 DEF Accepts

(* A dump that is answered 0 is the store: its lines are, and so is the      *)
(* whole file if there was nothing in it before.                             *)
THEOREM DumpIsFaithful == Spec => []DumpLoadsBack
<1>1. IInv => DumpLoadsBack
  <2> SUFFICES ASSUME IInv, pc = "dumped"
               PROVE  LET file == files[dump.file] IN
                        /\ Replay(EmptyMap, SubSeq(file, 1, dump.lines)) = map
                        /\ dump.fresh => Accepts(file) /\ Replay(EmptyMap, file) = map
    BY DEF DumpLoadsBack
  <2> DEFINE n == dump.lines
      s == files[dump.file]
      t == SubSeq(s, 1, n)
  <2>1. map \in Map /\ n \in Nat /\ todo = {}
    BY DEF IInv, TypeOK, Logged
  <2>2. /\ s \in LineSeqs /\ n <= Len(s)
        /\ \A i \in 1 .. n : s[i] \in LinesOf(map)
        /\ \A l \in LinesOf(map) : \E i \in 1 .. n : s[i] = l
        /\ dump.fresh => Len(s) = n
    BY <2>1 DEF IInv, Written
  <2> HIDE DEF s, n
  <2>3. t \in Seq(LinesOf(map)) /\ Len(t) = n /\ \A i \in 1 .. n : t[i] = s[i]
    <3>1. 1 \in Int /\ n \in Int
      BY <2>1
    <3>2. /\ t \in Seq(LinesOf(map))
          /\ Len(t) = IF 1 <= n THEN n - 1 + 1 ELSE 0
          /\ \A i \in 1 .. n - 1 + 1 : t[i] = s[1 + i - 1]
      BY <2>2, <3>1, SubSeqProperties
    <3> HIDE DEF t
    <3> QED
      BY <2>1, <3>2
  <2> HIDE DEF t
  <2>4. Accepts(t) /\ Replay(EmptyMap, t) = map
    BY <2>1, <2>2, <2>3, LinesAreTheMap
  <2>5. dump.fresh => s = t
    <3>1. dump.fresh => Len(s) = Len(t) /\ \A i \in 1 .. Len(s) : s[i] = t[i]
      BY <2>2, <2>3
    <3>2. t \in LineSeqs
      BY <2>1, <2>3, LinesOfAMap, SeqMonotonic DEF LineSeqs
    <3> QED
      BY <2>2, <3>1, <3>2, SeqEqual DEF LineSeqs
  <2> QED
    BY <2>4, <2>5 DEF s, n, t
<1> QED
  BY <1>1, Invariance, PTL
=============================================================================
