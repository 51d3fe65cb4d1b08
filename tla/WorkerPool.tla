----------------------------- MODULE WorkerPool -----------------------------
(***************************************************************************)
(* What the dispatcher of rpc-server promises, without its queue, mutex,   *)
(* condition variables or semaphore: client connections arrive, each one   *)
(* is handed to a worker that serves nobody else, and is served until that *)
(* worker lets it go.  A connection is handed out at most once.            *)
(***************************************************************************)
EXTENDS Integers, FiniteSets

CONSTANTS
  Workers,    \* the worker threads
  Clients,    \* the client connections
  NoConn,     \* a worker that serves nobody
  BadFd       \* the descriptor a failed accept() returns

VARIABLES
  waiting,    \* connections that arrived and were not handed out
  served,     \* connections that were handed out, at some time
  serving     \* worker -> the connection it serves, BadFd, or NoConn

vars == <<waiting, served, serving>>

Init ==
  /\ waiting = {}
  /\ served  = {}
  /\ serving = [w \in Workers |-> NoConn]

\* A client connects.
Arrive(c) ==
  /\ c \notin waiting \cup served
  /\ waiting' = waiting \cup {c}
  /\ UNCHANGED <<served, serving>>

\* A connection that waits is handed to a worker that is free.
Take(c, w) ==
  /\ c \in waiting
  /\ serving[w] = NoConn
  /\ waiting' = waiting \ {c}
  /\ served'  = served \cup {c}
  /\ serving' = [serving EXCEPT ![w] = c]

\* A failed accept() hands its error value to a free worker.
TakeBad(w) ==
  /\ serving[w] = NoConn
  /\ serving' = [serving EXCEPT ![w] = BadFd]
  /\ UNCHANGED <<waiting, served>>

\* A worker is done with its connection.
Finish(w) ==
  /\ serving[w] \in Clients
  /\ serving' = [serving EXCEPT ![w] = NoConn]
  /\ UNCHANGED <<waiting, served>>

Next ==
  \/ \E c \in Clients : Arrive(c)
  \/ \E c \in Clients, w \in Workers : Take(c, w)
  \/ \E w \in Workers : TakeBad(w)
  \/ \E w \in Workers : Finish(w)

Spec == Init /\ [][Next]_vars
=============================================================================
