--------------------------- MODULE KeyValueStore ---------------------------
(***************************************************************************)
(* The store of rpckeyvaluestore.cpp: a hash table of linked lists.  A     *)
(* list is the sequence of its nodes, head first.  A call is one action:   *)
(* kvs_mutex is held around every call (rpcserver.cpp).                    *)
(*                                                                         *)
(* A name is copied with strncpy(.., 31) into 32 bytes that malloc does    *)
(* not clear.  A name of at most 30 characters is terminated by the copy;  *)
(* after one of 31 characters (LongKeys) byte 31 is whatever the memory    *)
(* held, and if that is not NUL the string runs on and equals no name.     *)
(***************************************************************************)
EXTENDS Bindings, FiniteSets, Sequences, SequencesExt

CONSTANTS
  NumLists,    \* -H: the number of lists
  Hash,        \* hash(): name -> list
  LongKeys,    \* the names that have 31 characters
  Junk,        \* what a string without terminator reads as
  MaxInserts   \* bound: num_keys at which no key is inserted any more

Lists == 0 .. NumLists - 1

ASSUME ListsAssumption  == NumLists \in Nat \ {0} /\ Hash \in [Keys -> Lists]
ASSUME LongAssumption   == LongKeys \subseteq Keys /\ Junk \notin Keys \cup {NULL}
ASSUME BoundAssumption  == MaxInserts \in Nat

VARIABLES
  lists,      \* kvstore->lists[i]: the nodes, head first
  numItems,   \* lists[i]->num_items
  numKeys,    \* kvstore->num_keys
  reply       \* what the last call returned

vars == <<lists, numItems, numKeys, reply>>

\* keyEnd, nameEnd: byte 31 of node->key, of node->name is NUL.
Node ==
  [ key : Keys, keyEnd : BOOLEAN,
    flag : {0, 1}, value : Values \cup {0},
    name : Keys \cup {NULL}, nameEnd : BOOLEAN ]

\* What create_node leaves in them.  No call of strncpy writes byte 31, but a
\* short key ends before it; that of the name is left to a later, long name.
KeyEnds(k) == IF k \in LongKeys THEN BOOLEAN ELSE {TRUE}
NameEnds   == IF LongKeys # {} THEN BOOLEAN ELSE {TRUE}

Matches(node, k) == node.key = k /\ node.keyEnd

\* Position of the node find_node returns, 0 if it returns NULL.
Found(list, k) == {i \in DOMAIN list : Matches(list[i], k)}

FindNode(list, k) ==
  IF Found(list, k) = {} THEN 0
  ELSE CHOOSE i \in Found(list, k) : \A j \in Found(list, k) : i <= j

ListOf(k) == lists[Hash[k]]

NameIn(node) ==
  IF node.name \in LongKeys /\ ~node.nameEnd THEN Junk ELSE node.name

BindingIn(node) ==
  IF node.flag = 1 THEN Name(NameIn(node)) ELSE Number(node.value)

\* What the store holds for k.
BindingOf(k) ==
  LET i == FindNode(ListOf(k), k) IN
    IF i = 0 THEN Absent ELSE BindingIn(ListOf(k)[i])

-----------------------------------------------------------------------------
Init ==
  /\ lists    = [l \in Lists |-> <<>>]
  /\ numItems = [l \in Lists |-> 0]
  /\ numKeys  = 0
  /\ reply    = Status(0)

\* Faulty: a node with a name gets, as its number, what the lookup answers.
NewNodeFaultValue(k, flag, value, name) ==
  [key |-> k, keyEnd |-> TRUE, flag |-> flag,
   value |-> IF flag = 1 THEN EFAULT ELSE value,
   name |-> name, nameEnd |-> TRUE]

NewNode(k, flag, value, name) ==
  [key |-> k, keyEnd |-> TRUE, flag |-> flag, value |-> value,
   name |-> name, nameEnd |-> TRUE]

\* Faulty: the node keeps its flag.
OverwriteKeepsFlag(k, new) ==
  LET l == Hash[k]
      i == FindNode(lists[l], k) IN
    /\ i # 0
    /\ lists' = [lists EXCEPT ![l][i] = [new EXCEPT !.flag = lists[l][i].flag]]
    /\ UNCHANGED numItems

\* A node that exists takes the content of new: memset clears its whole name
\* if it gets a number, while strncpy leaves byte 31 of the name alone.
Overwrite(k, new) ==
  LET l == Hash[k]
      i == FindNode(lists[l], k) IN
    /\ i # 0
    /\ lists' = [lists EXCEPT ![l][i] =
                   [new EXCEPT !.nameEnd = new.flag = 0 \/ lists[l][i].nameEnd]]
    /\ UNCHANGED numItems

\* Faulty: does not look whether the key is there.
PrependAlways(k, new) ==
  LET l == Hash[k] IN
    /\ lists'    = [lists EXCEPT ![l] = <<new>> \o @]
    /\ numItems' = [numItems EXCEPT ![l] = @ + 1]

\* A new node becomes the head of its list.
Prepend(k, new) ==
  LET l == Hash[k] IN
    /\ FindNode(lists[l], k) = 0
    /\ \E keyEnd \in KeyEnds(k), nameEnd \in NameEnds :
         lists' = [lists EXCEPT ![l] =
           <<[new EXCEPT !.keyEnd = keyEnd, !.nameEnd = nameEnd]>> \o @]
    /\ numItems' = [numItems EXCEPT ![l] = @ + 1]

\* Faulty: does not count.
InsertUncounted(k, new) ==
  /\ numKeys < MaxInserts
  /\ Overwrite(k, new) \/ Prepend(k, new)
  /\ reply' = Status(0)
  /\ UNCHANGED numKeys

\* num_keys grows in both cases.
Insert(k, new) ==
  /\ numKeys < MaxInserts
  /\ Overwrite(k, new) \/ Prepend(k, new)
  /\ numKeys' = numKeys + 1
  /\ reply' = Status(0)

InsertName(k, n)  == Insert(k, NewNode(k, 1, 0, n))
InsertValue(k, v) == Insert(k, NewNode(k, 0, v, NULL))

DeleteMissing(k) ==
  /\ FindNode(ListOf(k), k) = 0
  /\ reply' = Status(ENOENT)
  /\ UNCHANGED <<lists, numItems, numKeys>>

\* Faulty: num_items stays.
DeleteKeepsNumItems(k) ==
  LET l == Hash[k]
      i == FindNode(lists[l], k) IN
    /\ i # 0
    /\ lists'    = [lists EXCEPT ![l] = RemoveAt(@, i)]
    /\ numKeys'  = numKeys - 1
    /\ reply'    = Status(0)
    /\ UNCHANGED numItems

\* The node is unlinked at the head or behind its predecessor.
Delete(k) ==
  LET l == Hash[k]
      i == FindNode(lists[l], k) IN
    /\ i # 0
    /\ lists'    = [lists EXCEPT ![l] = RemoveAt(@, i)]
    /\ numItems' = [numItems EXCEPT ![l] = @ - 1]
    /\ numKeys'  = numKeys - 1
    /\ reply'    = Status(0)

\* The four lookup functions.
Lookup(k) ==
  /\ reply' = LookupOf(BindingOf(k))
  /\ UNCHANGED <<lists, numItems, numKeys>>

\* The elements of s at the positions in P, in their order.
ElementsAt(s, P) ==
  [n \in 1 .. Cardinality(P) |->
     s[CHOOSE i \in P : Cardinality({j \in P : j < i}) = n - 1]]

\* clear_key_value_store deletes the key of every node.  The key of a node
\* without terminator hashes to some list: to its own, and the node goes, or
\* to another one, and it stays.  The next pointer is read from the freed node:
\* the allocator does not write there.
Unterminated == UNION {{<<l, i>> : i \in {n \in DOMAIN lists[l] : ~lists[l][n].keyEnd}} : l \in Lists}

Clear ==
  \E kept \in SUBSET Unterminated :
    LET left(l) == ElementsAt(lists[l], {i \in DOMAIN lists[l] : <<l, i>> \in kept})
    IN  /\ lists'    = [l \in Lists |-> left(l)]
        /\ numItems' = [l \in Lists |-> Len(left(l))]
        /\ numKeys'  = numKeys - FoldFunction(+, 0, [l \in Lists |-> Len(lists[l]) - Len(left(l))])
        /\ reply'    = Status(0)

Next ==
  \/ \E k, n \in Keys : InsertName(k, n)
  \/ \E k \in Keys, v \in Values : InsertValue(k, v)
  \/ \E k \in Keys : DeleteMissing(k)
  \/ \E k \in Keys : Delete(k)
  \/ \E k \in Keys : Lookup(k)
  \/ Clear

Spec == Init /\ [][Next]_vars

-----------------------------------------------------------------------------
Entries(l) == Len(lists[l])
NumNodes == FoldFunction(+, 0, [l \in Lists |-> Entries(l)])

TypeOK ==
  /\ lists \in [Lists -> Seq(Node)]
  /\ numItems \in [Lists -> Int]
  /\ numKeys \in Int

\* Every node can be found under its key: it is in the list its key hashes
\* to and no node before it has the same key.  A node that cannot be found
\* can be neither read nor deleted, and hides one that is inserted for it.
EveryNodeIsFound ==
  \A l \in Lists : \A i \in DOMAIN lists[l] :
    LET k == lists[l][i].key IN Hash[k] = l /\ FindNode(lists[l], k) = i

\* num_items, which linked_list_delete_all_items counts down, is the length
\* of the list it is stored with.
NumItemsIsLength == \A l \in Lists : numItems[l] = Len(lists[l])

\* num_keys counts at least the nodes, so that deletions never make the
\* unsigned counter wrap around, although overwriting a key counts it again.
NumKeysCoversNodes == numKeys >= NumNodes

\* The store is the map of KeyValueMap: this is the refinement mapping.
KVMap == INSTANCE KeyValueMap WITH map <- [k \in Keys |-> BindingOf(k)]

ImplementsMap == KVMap!Spec
=============================================================================
