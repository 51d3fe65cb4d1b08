---------------------------- MODULE DispatchQueue ----------------------------
(***************************************************************************)
(* The dispatcher together with the list in memory that it calls its       *)
(* queue: whenever Dispatch changes the sequence `queue', the list of      *)
(* WorkerQueue changes by the call the code makes there.                   *)
(***************************************************************************)
EXTENDS Dispatch

CONSTANTS
  Cells,    \* the memory malloc has for nodes
  NULL

ASSUME CellsAssumption == NULL \notin Cells /\ IsFiniteSet(Cells)

VARIABLES cell, front, back, num_items

listVars == <<cell, front, back, num_items>>

List == INSTANCE WorkerQueue WITH Ids <- Workers

\* The null pointer is the address of no node, and no node.
ASSUME NodesAssumption == NULL \notin List!Node

QueueInit == Init /\ List!Init

QueueNext ==
  \/ InitThread /\ List!Enqueue(spawned)
  \/ Assign /\ List!Dequeue
  \/ \E w \in Workers : EnqueueSelf(w) /\ List!Enqueue(w)
  \/ Next /\ UNCHANGED queue /\ UNCHANGED listVars

QueueSpec == QueueInit /\ [][QueueNext]_<<vars, listVars>>

-----------------------------------------------------------------------------
\* At every moment the list in memory holds exactly the ids of the abstract
\* queue, in its order, so that dequeue() gives main() the worker that has been
\* idle longest (rpcqueue.cpp, enqueue and dequeue).
ListHoldsQueue == List!Contents = queue

\* No call leaves a pointer to freed memory behind, loses a node, or counts
\* wrong: num_items, and not a pointer, decides which branch the next call
\* takes.
ListIsSound == List!ListIsSound
=============================================================================
