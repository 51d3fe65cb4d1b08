---------------------------- MODULE KeyValueMap ----------------------------
(***************************************************************************)
(* What the key-value store promises: a map from variable names to         *)
(* bindings, of which an insert replaces the old binding and a deletion of *)
(* a variable without one is refused.  reply is what the last call         *)
(* returned.                                                               *)
(***************************************************************************)
EXTENDS Bindings

VARIABLES map, reply

vars == <<map, reply>>

Init ==
  /\ map = EmptyMap
  /\ reply = Status(0)

Insert(k, b) ==
  /\ map' = [map EXCEPT ![k] = b]
  /\ reply' = Status(0)

Delete(k) ==
  /\ map' = [map EXCEPT ![k] = Absent]
  /\ reply' = Status(IF map[k] = Absent THEN ENOENT ELSE 0)

Lookup(k) ==
  /\ reply' = LookupOf(map[k])
  /\ UNCHANGED map

Clear ==
  /\ map' = EmptyMap
  /\ reply' = Status(0)

Next ==
  \/ \E k \in Keys : \E b \in Binding : Insert(k, b)
  \/ \E k \in Keys : Delete(k)
  \/ \E k \in Keys : Lookup(k)
  \/ Clear

Spec == Init /\ [][Next]_vars
=============================================================================
