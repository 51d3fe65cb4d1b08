----------------------------- MODULE WorkerQueue -----------------------------
(***************************************************************************)
(* The queue of rpcqueue.cpp, as it lies in memory: nodes from malloc that *)
(* point to the next one, with front, back and num_items.  The operations  *)
(* are steps for a specification that decides who calls them (main_mutex   *)
(* makes each call one step): DispatchQueue.                               *)
(***************************************************************************)
EXTENDS Integers, FiniteSets, Sequences

CONSTANTS
  Ids,      \* what is queued: thread ids
  Cells,    \* the memory malloc has for nodes
  NULL

VARIABLES
  cell,       \* what a cell holds: a node, or NULL while it is free memory
  front, back,
  num_items

Node == [value : Ids, next : Cells \cup {NULL}]

Init ==
  /\ cell      = [c \in Cells |-> NULL]
  /\ front     = NULL
  /\ back      = NULL
  /\ num_items = 0

\* The node the i-th iteration of "node = node->next" arrives at.  Free memory
\* is the end of the walk, but no good end: ListIsSound.
Walk[i \in 0 .. Cardinality(Cells)] ==
  IF i = 0 THEN front
  ELSE IF Walk[i-1] = NULL \/ cell[Walk[i-1]] = NULL THEN NULL
  ELSE cell[Walk[i-1]].next

Reached == {Walk[i] : i \in DOMAIN Walk} \ {NULL}

find_node(v) == \E c \in Reached : cell[c] # NULL /\ cell[c].value = v

\* The values from front on.
Contents == [i \in 1 .. Cardinality(Reached) |-> cell[Walk[i-1]].value]

-----------------------------------------------------------------------------
EnqueueDuplicate(v) ==
  /\ find_node(v)
  /\ UNCHANGED <<cell, front, back, num_items>>

EnqueueFirst(v) ==
  /\ ~find_node(v)
  /\ num_items = 0
  /\ \E c \in Cells :
       /\ cell[c] = NULL
       /\ cell'  = [cell EXCEPT ![c] = [value |-> v, next |-> back]]
       /\ front' = c
       /\ back'  = c
  /\ num_items' = num_items + 1

\* Faulty: back stays where it was.
EnqueueBehindKeepsBack(v) ==
  /\ ~find_node(v)
  /\ num_items > 0
  /\ \E c \in Cells :
       /\ cell[c] = NULL
       /\ cell' = [cell EXCEPT ![c]         = [value |-> v, next |-> NULL],
                               ![back].next = c]
  /\ num_items' = num_items + 1
  /\ UNCHANGED <<front, back>>

EnqueueBehind(v) ==
  /\ ~find_node(v)
  /\ num_items > 0
  /\ \E c \in Cells :
       /\ cell[c] = NULL
       /\ cell' = [cell EXCEPT ![c]         = [value |-> v, next |-> NULL],
                               ![back].next = c]
       /\ back' = c
  /\ num_items' = num_items + 1
  /\ UNCHANGED front

Enqueue(v) == EnqueueDuplicate(v) \/ EnqueueFirst(v) \/ EnqueueBehind(v)

\* Faulty: the last node is taken out like any other, so that back points to
\* free memory.
DequeueLastKeepsBack ==
  /\ num_items = 1
  /\ cell'  = [cell EXCEPT ![front] = NULL]
  /\ front' = cell[front].next
  /\ num_items' = num_items - 1
  /\ UNCHANGED back

DequeueLast ==
  /\ num_items = 1
  /\ cell'  = [cell EXCEPT ![front] = NULL]
  /\ front' = NULL
  /\ back'  = NULL
  /\ num_items' = num_items - 1

DequeueFront ==
  /\ num_items > 1
  /\ cell'  = [cell EXCEPT ![front] = NULL]
  /\ front' = cell[front].next
  /\ num_items' = num_items - 1
  /\ UNCHANGED back

\* The value a call of dequeue returns.
Dequeued == cell[front].value

Dequeue == DequeueLast \/ DequeueFront

-----------------------------------------------------------------------------
\* The list and the memory agree: the nodes that are reached from front are
\* exactly those that were allocated and not freed, num_items of them; back
\* is the last one.  No pointer leads to freed memory, and none is lost.
ListIsSound ==
  /\ Reached = {c \in Cells : cell[c] # NULL}
  /\ num_items = Cardinality(Reached)
  /\ IF num_items = 0
     THEN front = NULL /\ back = NULL
     ELSE back = Walk[num_items - 1] /\ cell[back].next = NULL
=============================================================================
