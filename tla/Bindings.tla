------------------------------ MODULE Bindings ------------------------------
(***************************************************************************)
(* What a variable of rpc-server can be bound to, and what the four lookup *)
(* functions of rpckeyvaluestore.cpp answer about a binding.  A variable   *)
(* holds a number (flag 0) or the name of another variable (flag 1).       *)
(***************************************************************************)
EXTENDS Integers

CONSTANTS
  Keys,     \* variable names
  Values,   \* numbers a variable can hold
  NULL      \* the null pointer; also a variable without a binding

ENOENT == 2
EFAULT == 14

ASSUME ValuesAssumption == Values \subseteq Int
ASSUME NullAssumption   == NULL \notin Keys

Number(v) == [flag |-> 0, value |-> v]
Name(n)   == [flag |-> 1, name |-> n]

Binding == {Number(v) : v \in Values} \cup {Name(n) : n \in Keys}

Absent == [flag |-> ENOENT]

Bound == Binding \cup {Absent}

Map == [Keys -> Bound]

EmptyMap == [k \in Keys |-> Absent]

\* What a call that changes the store returns.
Status(s) == [status |-> s]

\* key_value_store_key_check, _key_flag_lookup, _key_name_lookup and
\* _key_value_lookup of a variable bound to b.
LookupOf(b) ==
  [ check |-> IF b = Absent THEN ENOENT ELSE 0,
    flag  |-> b.flag,
    name  |-> IF b.flag = 1 THEN b.name ELSE NULL,
    value |-> CASE b.flag = 0 -> b.value
                [] b.flag = 1 -> EFAULT
                [] OTHER      -> ENOENT ]
=============================================================================
