--------------------------- MODULE DispatchProofs ---------------------------
(***************************************************************************)
(* The safety properties of Dispatch for every number of workers, clients, *)
(* requests and descriptors, and those of the list of DispatchQueue.       *)
(*                                                                         *)
(* None of them is inductive by itself: that dequeue() finds a thread id   *)
(* rests on counting the tickets of the semaphore (Tickets), that the      *)
(* thread is idle on who may be in the queue (QueueInv), that a connection *)
(* has one worker on where a connection can be (ConnInv), that no signal   *)
(* is lost on who holds main_mutex (LockInv), and why the process ends on  *)
(* the descriptors in use (FdInv).  The list of DispatchQueue holds the    *)
(* queue because there is a path of distinct cells through memory, one for *)
(* every id, that the pointers follow (ListInv).                           *)
(***************************************************************************)
EXTENDS DispatchQueue, Induction

-----------------------------------------------------------------------------
(* The inductive invariant, in parts.                                      *)

\* main() has created the workers below spawned; while it creates them no
\* connection exists, so none of them gets past its wait loop.
StartInv ==
  /\ IF Starting THEN spawned < N ELSE spawned = N
  /\ \A w \in Workers : pc[w] = "unborn" <=> w >= spawned
  /\ Starting =>
       /\ \A w \in Workers : /\ cl[w] = NoConn
                             /\ pc[w] \in {"unborn", "lock", "check", "condwait", "waiting"}
       /\ \A w \in Elements(queue) : w < spawned \/ (mainpc = "create" /\ w = spawned)
       /\ Len(queue) = IF mainpc = "create" THEN spawned + 1 ELSE spawned
       /\ (mainpc = "create" \/ spawned > 0) => sem = N

\* Who is in the queue, and which workers have a connection.
Injective(s) == \A i, j \in DOMAIN s : s[i] = s[j] => i = j
QueueInv ==
  /\ Injective(queue)
  /\ \A w \in Elements(queue) : cl[w] = NoConn /\ pc[w] \notin {"relock", "enqueue"}
  /\ \A w \in Workers :
       /\ pc[w] \in {"unlock", "recv", "run", "clear"} => cl[w] # NoConn
       /\ pc[w] \in {"relock", "enqueue"} => cl[w] = NoConn

\* A connection is in the backlog, in the hands of main(), or with one worker.
Handing == mainpc \in {"semwait", "lock", "assign"}
ConnInv ==
  /\ Injective(backlog)
  /\ \A c \in Elements(backlog) :
       conn[c] # "idle" /\ (Handing => connfd # c) /\ \A w \in Workers : cl[w] # c
  /\ Handing => connfd # NoConn /\ (connfd \in Clients => conn[connfd] # "idle")
  /\ \A w \in Workers : cl[w] \in Clients => conn[cl[w]] # "idle"
  /\ OneWorkerPerConnection

\* Who is in a critical section holds the mutex, until it is torn from it.
LockInv ==
  ~torn =>
    /\ \A w \in Workers : InWorkerSection(w) => owner = w
    /\ InMainSection => owner = Main

\* A worker leaves its connection when there is nothing left to do on it.
DoneInv ==
  \A w \in Workers : pc[w] = "clear" =>
    /\ cl[w] \in Clients
    /\ conn[cl[w]] \in {"closed", "reset"}
    /\ handled[cl[w]] = sent[cl[w]]

\* accept() failed only when the descriptors were used up but for those the
\* workers need, and it has failed if there is a worker, or main(), with the
\* value it returned.
SawBadFd == connfd = BadFd \/ \E w \in Workers : cl[w] = BadFd
FdInv ==
  /\ IsFiniteSet(Accepted)
  /\ SawBadFd => InUse + N >= FdLimit
  /\ ExitHasCause

IInv ==
  /\ TypeOK /\ StartInv /\ Tickets /\ QueueInv
  /\ ConnInv /\ LockInv /\ NoLostSignal /\ DoneInv /\ FdInv

-----------------------------------------------------------------------------
(* Sequences.                                                              *)

(* Append adds its argument to the elements. *)
LEMMA ElementsOfAppend ==
  ASSUME NEW S, NEW s \in Seq(S), NEW x \in S
  PROVE  /\ Append(s, x) \in Seq(S)
         /\ Len(Append(s, x)) = Len(s) + 1
         /\ Elements(Append(s, x)) = Elements(s) \cup {x}
         /\ Injective(s) /\ x \notin Elements(s) => Injective(Append(s, x))
<1>1. /\ Append(s, x) \in Seq(S)
      /\ Len(Append(s, x)) = Len(s) + 1
      /\ DOMAIN Append(s, x) = 1 .. Len(s) + 1
      /\ DOMAIN s = 1 .. Len(s)
      /\ Len(s) \in Nat
  OBVIOUS
<1>2. /\ \A i \in 1 .. Len(s) : Append(s, x)[i] = s[i]
      /\ Append(s, x)[Len(s) + 1] = x
  OBVIOUS
<1>3. Elements(Append(s, x)) = Elements(s) \cup {x}
  BY <1>1, <1>2 DEF Elements
<1>4. ASSUME Injective(s), x \notin Elements(s)
      PROVE  Injective(Append(s, x))
  BY <1>1, <1>2, <1>4 DEF Injective, Elements
<1> QED
  BY <1>1, <1>3, <1>4

(* The elements of a queue are its head and those of its tail. *)
LEMMA ElementsOfTail ==
  ASSUME NEW S, NEW s \in Seq(S), s # <<>>
  PROVE  /\ Head(s) \in S /\ Tail(s) \in Seq(S)
         /\ Len(s) \in Nat /\ Len(s) > 0 /\ Len(Tail(s)) = Len(s) - 1
         /\ Elements(s) = Elements(Tail(s)) \cup {Head(s)}
         /\ Injective(s) => Injective(Tail(s)) /\ Head(s) \notin Elements(Tail(s))
<1>1. /\ Head(s) \in S /\ Tail(s) \in Seq(S)
      /\ Len(s) \in Nat /\ Len(s) > 0
      /\ Len(Tail(s)) = Len(s) - 1
      /\ DOMAIN s = 1 .. Len(s)
      /\ DOMAIN Tail(s) = 1 .. Len(s) - 1
      /\ Head(s) = s[1]
  OBVIOUS
<1>2. \A i \in 1 .. Len(s) - 1 : Tail(s)[i] = s[i + 1]
  OBVIOUS
<1>3. Elements(s) = Elements(Tail(s)) \cup {Head(s)}
  <2>1. ASSUME NEW e \in Elements(s)
        PROVE  e \in Elements(Tail(s)) \cup {Head(s)}
    <3>1. PICK i \in 1 .. Len(s) : e = s[i]
      BY <1>1, <2>1 DEF Elements
    <3>2. i = 1 \/ (i - 1 \in 1 .. Len(s) - 1 /\ Tail(s)[i - 1] = s[i])
      BY <1>1, <1>2
    <3> QED
      BY <1>1, <3>1, <3>2 DEF Elements
  <2>2. Elements(Tail(s)) \cup {Head(s)} \subseteq Elements(s)
    BY <1>1, <1>2 DEF Elements
  <2> QED
    BY <2>1, <2>2
<1>4. ASSUME Injective(s)
      PROVE  Injective(Tail(s)) /\ Head(s) \notin Elements(Tail(s))
  BY <1>1, <1>2, <1>4 DEF Injective, Elements
<1> QED
  BY <1>1, <1>3, <1>4

-----------------------------------------------------------------------------
(* Types, and the creation of the workers.                                 *)

LEMMA InitIInv == Init => IInv
<1> SUFFICES ASSUME Init PROVE IInv
  OBVIOUS
<1>1. N \in Nat \ {0} /\ Clients \subseteq Nat \ {0}
  BY NAssumption, ClientsAssumption
<1>2. Elements(queue) = {} /\ Elements(backlog) = {} /\ Injective(queue) /\ Injective(backlog)
  BY DEF Init, Elements, Injective
<1>3. TypeOK /\ StartInv
  <2>1. 0 \in 0 .. MaxLeaks
    BY BoundAssumption
  <2> QED
    BY <1>1, <1>2, <2>1 DEF Init, TypeOK, StartInv, Starting, Workers
<1>4. Tickets /\ QueueInv /\ ConnInv
  BY <1>1, <1>2 DEF Init, Tickets, Starting, QueueInv, ConnInv, Handing,
                    OneWorkerPerConnection, NoConn
<1>5. LockInv /\ NoLostSignal /\ DoneInv
  BY DEF Init, LockInv, InWorkerSection, InMainSection, NoLostSignal, DoneInv
<1>6. FdInv
  <2>1. Accepted = {}
    BY DEF Init, Accepted
  <2>2. ~SawBadFd
    BY DEF Init, SawBadFd, NoConn, BadFd
  <2> QED
    BY <2>1, <2>2, FS_EmptySet DEF Init, FdInv, ExitHasCause
<1> QED
  BY <1>3, <1>4, <1>5, <1>6 DEF IInv

LEMMA TypeStep ==
  ASSUME TypeOK, StartInv, [Next]_vars
  PROVE  TypeOK'
<1>0. /\ N \in Nat \ {0} /\ NoConn \notin Clients /\ BadFd \notin Clients
      /\ Workers \subseteq Nat
  BY NAssumption, ClientsAssumption DEF Workers, NoConn, BadFd
<1>1. CASE InitThread
  <2>1. spawned \in Workers
    BY <1>0, <1>1 DEF InitThread, Step, StartInv, Starting, TypeOK, Workers
  <2> QED
    BY <1>0, <1>1, <2>1, ElementsOfAppend DEF InitThread, Step, TypeOK, Enqueue, clientVars
<1>2. CASE CreateThread
  BY <1>0, <1>2 DEF CreateThread, Step, StartInv, Starting, TypeOK, Workers, clientVars
<1>3. CASE Accept
  BY <1>3, ElementsOfTail DEF Accept, Step, TypeOK
<1>4. CASE Assign
  BY <1>4, ElementsOfTail DEF Assign, Step, TypeOK, clientVars
<1>5. CASE Listen \/ AcceptFails \/ SemWait \/ MainLock \/ MainUnlock
  BY <1>5 DEF Listen, AcceptFails, SemWait, MainLock, MainUnlock, Step, TypeOK, clientVars
<1>6. ASSUME NEW w \in Workers, WorkerNext(w)
      PROVE  TypeOK'
  <2>1. CASE EnqueueSelf(w)
    BY <2>1, ElementsOfAppend DEF EnqueueSelf, Go, Enqueue, TypeOK, mainVars, clientVars
  <2>2. CASE Run(w)
    <3>1. ASSUME NEW c \in Clients
          PROVE  handled'[c] \in Nat
      <4>1. handled[c] \in Nat /\ handled[c] + 1 \in Nat
        BY DEF TypeOK
      <4>2. handled'[c] = IF c = cl[w] THEN handled[c] + 1 ELSE handled[c]
        BY <2>2 DEF Run, TypeOK
      <4> QED
        BY <4>1, <4>2
    <3>2. handled' \in [Clients -> Nat]
      BY <2>2, <3>1 DEF Run, TypeOK
    <3>3. leaked' \in 0 .. MaxLeaks
      BY <2>2, BoundAssumption DEF Run, TypeOK
    <3> QED
      BY <2>2, <3>2, <3>3 DEF Run, Go, TypeOK, mainVars
  <2>3. CASE ClearCl(w)
    BY <2>3 DEF ClearCl, Go, TypeOK, mainVars, clientVars
  <2>4. CASE SemPost(w)
    BY <2>4 DEF SemPost, Go, TypeOK, mainVars, clientVars
  <2>5. CASE WorkerLock(w) \/ CondWait(w) \/ WorkerUnlock(w) \/ Relock(w) \/ Release(w)
    BY <2>5 DEF WorkerLock, CondWait, WorkerUnlock, Relock, Release, Go, TypeOK,
                mainVars, clientVars
  <2>6. CASE \/ CheckIdle(w) \/ CheckBusy(w) \/ SpuriousWakeup(w)
             \/ RecvRequest(w) \/ RecvEof(w)
    BY <2>6 DEF CheckIdle, CheckBusy, SpuriousWakeup, RecvRequest, RecvEof, Go, TypeOK,
                mainVars, clientVars
  <2>7. CASE ConnError(w) \/ RunIsFatal(w)
    BY <2>7 DEF ConnError, RunIsFatal, TypeOK, mainVars, clientVars
  <2> QED
    BY <1>6, <2>1, <2>2, <2>3, <2>4, <2>5, <2>6, <2>7 DEF WorkerNext
<1>7. CASE Undefined \/ CreateFails \/ ListenFails
  BY <1>7 DEF Undefined, CreateFails, ListenFails, TypeOK, mainVars, clientVars
<1>8. ASSUME NEW c \in Clients, ClientNext(c)
      PROVE  TypeOK'
  <2>1. CASE Connect(c)
    BY <2>1, ElementsOfAppend DEF Connect, TypeOK, mainVars
  <2>2. CASE Send(c)
    BY <2>2 DEF Send, TypeOK, mainVars
  <2>3. CASE Close(c) \/ Reset(c)
    BY <2>3 DEF Close, Reset, TypeOK, mainVars
  <2> QED
    BY <1>8, <2>1, <2>2, <2>3 DEF ClientNext
<1>9. CASE UNCHANGED vars
  BY <1>9 DEF vars, TypeOK
<1> QED
  BY <1>1, <1>2, <1>3, <1>4, <1>5, <1>6, <1>7, <1>8, <1>9 DEF Next, MainNext

LEMMA StartStep ==
  ASSUME TypeOK, StartInv, [Next]_vars
  PROVE  StartInv'
<1>0. N \in Nat \ {0} /\ Workers = 0 .. N-1 /\ spawned \in 0 .. N
  BY NAssumption DEF Workers, TypeOK
<1>1. CASE InitThread
  <2>1. spawned \in Workers /\ spawned \notin Elements(queue)
    BY <1>0, <1>1 DEF InitThread, Step, StartInv, Starting
  <2>2. /\ Len(queue') = spawned + 1
        /\ Elements(queue') = Elements(queue) \cup {spawned}
    BY <1>1, <2>1, ElementsOfAppend DEF InitThread, Step, StartInv, Starting, Enqueue, TypeOK
  <2> QED
    BY <1>0, <1>1, <2>2 DEF InitThread, Step, StartInv, Starting
<1>2. CASE CreateThread
  <2>1. /\ mainpc = "create" /\ spawned < N /\ spawned' = spawned + 1
        /\ mainpc' = IF spawned + 1 = N THEN "listen" ELSE "init"
        /\ cl' = cl /\ queue' = queue /\ sem' = sem
    BY <1>2 DEF CreateThread, Step, StartInv, Starting
  <2>2. \A w \in Workers : pc'[w] = IF w = spawned THEN "lock" ELSE pc[w]
    BY <1>2 DEF CreateThread, TypeOK
  <2>3. \A w \in Workers : pc'[w] = "unborn" <=> w >= spawned'
    BY <1>0, <2>1, <2>2 DEF StartInv
  <2>4. \A w \in Workers :
          cl'[w] = NoConn /\ pc'[w] \in {"unborn", "lock", "check", "condwait", "waiting"}
    BY <2>1, <2>2 DEF StartInv, Starting
  <2>5. /\ \A w \in Elements(queue') : w < spawned'
        /\ Len(queue') = spawned' /\ sem' = N
    <3>1. Elements(queue) \subseteq Workers
      BY DEF Elements, TypeOK
    <3> QED
      BY <1>0, <2>1, <3>1 DEF StartInv, Starting
  <2> QED
    BY <1>0, <2>1, <2>3, <2>4, <2>5 DEF StartInv, Starting
<1>3. CASE Assign
  BY <1>0, <1>3, ElementsOfTail DEF Assign, Step, StartInv, Starting, TypeOK
<1>4. CASE Listen \/ Accept \/ AcceptFails \/ SemWait \/ MainLock \/ MainUnlock
  BY <1>0, <1>4
     DEF Listen, Accept, AcceptFails, SemWait, MainLock, MainUnlock, Step, StartInv, Starting
<1>5. ASSUME NEW w \in Workers, WorkerNext(w)
      PROVE  StartInv'
  <2>1. CASE WorkerLock(w) \/ CheckIdle(w) \/ CondWait(w) \/ SpuriousWakeup(w)
    <3>1. /\ mainpc' = mainpc /\ spawned' = spawned /\ cl' = cl /\ queue' = queue /\ sem' = sem
          /\ pc[w] # "unborn" /\ pc'[w] \in {"lock", "check", "condwait", "waiting"}
          /\ \A v \in Workers : v # w => pc'[v] = pc[v]
      BY <2>1 DEF WorkerLock, CheckIdle, CondWait, SpuriousWakeup, Go, TypeOK, mainVars
    <3>2. \A v \in Workers : pc'[v] = "unborn" <=> v >= spawned'
      BY <3>1 DEF StartInv
    <3>3. Elements(queue') = Elements(queue) /\ (Starting' <=> Starting)
      BY <3>1 DEF Elements, Starting
    <3>4. IF Starting' THEN spawned' < N ELSE spawned' = N
      BY <3>1, <3>3 DEF StartInv
    <3>5. ASSUME Starting'
          PROVE  /\ \A v \in Workers :
                      /\ cl'[v] = NoConn
                      /\ pc'[v] \in {"unborn", "lock", "check", "condwait", "waiting"}
                 /\ \A v \in Elements(queue') : v < spawned' \/ (mainpc' = "create" /\ v = spawned')
                 /\ Len(queue') = IF mainpc' = "create" THEN spawned' + 1 ELSE spawned'
                 /\ (mainpc' = "create" \/ spawned' > 0) => sem' = N
      BY <3>1, <3>3, <3>5 DEF StartInv
    <3> QED
      BY <3>2, <3>4, <3>5 DEF StartInv
  <2>2. CASE ~Starting
    <3>1. /\ mainpc' = mainpc /\ spawned' = spawned
          /\ pc[w] # "unborn" /\ pc'[w] # "unborn" /\ \A v \in Workers : v # w => pc'[v] = pc[v]
      BY <1>5
         DEF WorkerNext, WorkerLock, CheckIdle, CheckBusy, CondWait, SpuriousWakeup,
             WorkerUnlock, RecvRequest, Run, RecvEof, ConnError, RunIsFatal, ClearCl, Relock,
             EnqueueSelf, Release, SemPost, Go, TypeOK, mainVars
    <3> QED
      BY <2>2, <3>1 DEF StartInv, Starting
  <2>3. CASE Starting /\ ~(WorkerLock(w) \/ CheckIdle(w) \/ CondWait(w) \/ SpuriousWakeup(w))
    <3>1. cl[w] = NoConn /\ pc[w] \in {"unborn", "lock", "check", "condwait", "waiting"}
      BY <2>3 DEF StartInv
    <3> QED
      BY <1>5, <2>3, <3>1
         DEF WorkerNext, CheckBusy, WorkerUnlock, RecvRequest, Run, RecvEof, ConnError, RunIsFatal,
             ClearCl, Relock, EnqueueSelf, Release, SemPost, Go
  <2> QED
    BY <2>1, <2>2, <2>3
<1>6. CASE Undefined \/ CreateFails \/ ListenFails
  BY <1>6 DEF Undefined, CreateFails, ListenFails, StartInv, Starting, mainVars
<1>7. ASSUME NEW c \in Clients, ClientNext(c)
      PROVE  StartInv'
  BY <1>7 DEF ClientNext, Connect, Send, Close, Reset, StartInv, Starting, mainVars
<1>8. CASE UNCHANGED vars
  BY <1>8 DEF vars, StartInv, Starting
<1> QED
  BY <1>1, <1>2, <1>3, <1>4, <1>5, <1>6, <1>7, <1>8 DEF Next, MainNext

-----------------------------------------------------------------------------
(* The queue and the semaphore.                                            *)

LEMMA QueueStep ==
  ASSUME TypeOK, StartInv, QueueInv, [Next]_vars
  PROVE  QueueInv'
<1>0. N \in Nat \ {0} /\ Workers = 0 .. N-1
  BY NAssumption DEF Workers
<1>1. CASE InitThread
  <2>1. spawned \in Workers /\ spawned \notin Elements(queue)
    BY <1>0, <1>1 DEF InitThread, Step, StartInv, Starting, TypeOK
  <2>2. /\ Injective(queue')
        /\ Elements(queue') = Elements(queue) \cup {spawned}
    BY <1>1, <2>1, ElementsOfAppend DEF InitThread, QueueInv, Enqueue, TypeOK
  <2> QED
    BY <1>1, <2>1, <2>2 DEF InitThread, Step, StartInv, Starting, QueueInv
<1>2. CASE CreateThread
  BY <1>2 DEF CreateThread, Step, QueueInv, TypeOK
<1>3. CASE Assign
  <2> DEFINE h == Head(queue)
  <2>1. /\ h \in Workers /\ h \notin Elements(Tail(queue))
        /\ Injective(Tail(queue))
        /\ Elements(queue) = Elements(Tail(queue)) \cup {h}
    BY <1>3, ElementsOfTail DEF Assign, QueueInv, TypeOK
  <2>2. /\ queue' = Tail(queue)
        /\ \A w \in Workers : /\ w # h => cl'[w] = cl[w] /\ pc'[w] = pc[w]
                              /\ pc'[w] = pc[w] \/ pc'[w] = "lock"
        /\ cl[h] = NoConn /\ pc[h] \notin {"relock", "enqueue"}
    BY <1>3, <2>1 DEF Assign, QueueInv, TypeOK
  <2>3. pc[h] \notin {"unlock", "recv", "run", "clear", "relock", "enqueue"}
    BY <2>1, <2>2 DEF QueueInv
  <2>4. pc'[h] \notin {"unlock", "recv", "run", "clear", "relock", "enqueue"}
    BY <2>1, <2>2, <2>3
  <2>5. \A w \in Elements(queue') : w \in Workers /\ w # h
    BY <2>1, <2>2, ElementsOfTail DEF Elements, TypeOK
  <2> HIDE DEF h
  <2> QED
    BY <2>1, <2>2, <2>4, <2>5 DEF QueueInv
<1>4. CASE Listen \/ Accept \/ AcceptFails \/ SemWait \/ MainLock \/ MainUnlock
  BY <1>4 DEF Listen, Accept, AcceptFails, SemWait, MainLock, MainUnlock, Step, QueueInv
<1>5. ASSUME NEW w \in Workers, WorkerNext(w)
      PROVE  QueueInv'
  <2>0. Elements(queue) \subseteq Workers
    BY DEF Elements, TypeOK
  <2>1. CASE EnqueueSelf(w)
    <3>1. w \notin Elements(queue)
      BY <2>1 DEF EnqueueSelf, Go, QueueInv
    <3>2. Injective(queue') /\ Elements(queue') = Elements(queue) \cup {w}
      BY <2>1, <3>1, ElementsOfAppend DEF EnqueueSelf, QueueInv, Enqueue, TypeOK
    <3> QED
      BY <2>0, <2>1, <3>1, <3>2 DEF EnqueueSelf, Go, QueueInv, TypeOK
  <2>2. CASE ClearCl(w)
    <3>1. w \notin Elements(queue)
      BY <2>2 DEF ClearCl, Go, QueueInv
    <3> QED
      BY <2>0, <2>2, <3>1 DEF ClearCl, Go, QueueInv, TypeOK, NoConn
  <2>3. CASE Relock(w)
    BY <2>0, <2>3 DEF Relock, Go, QueueInv, TypeOK
  <2>4. CASE CheckBusy(w) \/ WorkerUnlock(w) \/ RecvRequest(w) \/ Run(w) \/ RecvEof(w)
    BY <2>0, <2>4 DEF CheckBusy, WorkerUnlock, RecvRequest, Run, RecvEof, Go, QueueInv, TypeOK
  <2>5. CASE WorkerLock(w) \/ CheckIdle(w) \/ CondWait(w) \/ SpuriousWakeup(w)
    BY <2>0, <2>5 DEF WorkerLock, CheckIdle, CondWait, SpuriousWakeup, Go, QueueInv, TypeOK
  <2>6. CASE Release(w) \/ SemPost(w)
    BY <2>0, <2>6 DEF Release, SemPost, Go, QueueInv, TypeOK
  <2>7. CASE ConnError(w) \/ RunIsFatal(w)
    BY <2>7 DEF ConnError, RunIsFatal, QueueInv
  <2> QED
    BY <1>5, <2>1, <2>2, <2>3, <2>4, <2>5, <2>6, <2>7 DEF WorkerNext
<1>6. CASE Undefined \/ CreateFails \/ ListenFails
  BY <1>6 DEF Undefined, CreateFails, ListenFails, QueueInv
<1>7. ASSUME NEW c \in Clients, ClientNext(c)
      PROVE  QueueInv'
  BY <1>7 DEF ClientNext, Connect, Send, Close, Reset, QueueInv
<1>8. CASE UNCHANGED vars
  BY <1>8 DEF vars, QueueInv
<1> QED
  BY <1>1, <1>2, <1>3, <1>4, <1>5, <1>6, <1>7, <1>8 DEF Next, MainNext

LEMMA PostingIsFinite == IsFiniteSet(Posting) /\ Cardinality(Posting) \in Nat
<1>1. IsFiniteSet(Workers)
  BY NAssumption, FS_Interval DEF Workers
<1>2. IsFiniteSet(Posting)
  BY <1>1, FS_Subset DEF Posting
<1> QED
  BY <1>2, FS_CardinalityType

LEMMA TicketStep ==
  ASSUME TypeOK, StartInv, QueueInv, Tickets, [Next]_vars
  PROVE  Tickets'
<1>0. /\ N \in Nat \ {0} /\ Workers = 0 .. N-1
      /\ sem \in Int /\ queue \in Seq(Workers) /\ Len(queue) \in Nat
  BY NAssumption DEF Workers, TypeOK
<1>1. CASE InitThread
  BY <1>0, <1>1 DEF InitThread, Step, Tickets, Starting
<1>2. CASE CreateThread
  <2>1. \A w \in Workers : pc'[w] \notin {"release", "post"}
    BY <1>2 DEF CreateThread, Step, StartInv, Starting, TypeOK
  <2>2. Cardinality(Posting') = 0
    BY <2>1, FS_EmptySet DEF Posting
  <2> QED
    BY <1>0, <1>2, <2>2 DEF CreateThread, Step, StartInv, Starting, Tickets
<1>3. CASE Assign
  <2>1. Posting' = Posting
    BY <1>3 DEF Assign, Posting, TypeOK
  <2>2. Len(queue') = Len(queue) - 1
    BY <1>3, ElementsOfTail DEF Assign, TypeOK
  <2>3. mainpc = "assign" /\ mainpc' = "unlock" /\ sem' = sem
    BY <1>3 DEF Assign, Step
  <2>4. Len(queue) = sem + Cardinality(Posting) + 1
    BY <2>3 DEF Tickets, Starting
  <2>5. Len(queue') = sem' + Cardinality(Posting')
    BY <1>0, <2>1, <2>2, <2>3, <2>4, PostingIsFinite
  <2> QED
    BY <1>0, <2>3, <2>5, PostingIsFinite DEF Tickets
<1>4. CASE Listen \/ Accept \/ AcceptFails \/ SemWait \/ MainLock \/ MainUnlock
  <2>1. Posting' = Posting /\ queue' = queue
    BY <1>4 DEF Listen, Accept, AcceptFails, SemWait, MainLock, MainUnlock, Posting
  <2> QED
    BY <1>0, <1>4, <2>1, PostingIsFinite
       DEF Listen, Accept, AcceptFails, SemWait, MainLock, MainUnlock, Step, Starting, Tickets
<1>5. ASSUME NEW w \in Workers, WorkerNext(w)
      PROVE  Tickets'
  <2>1. CASE EnqueueSelf(w)
    <3>1. w \notin Elements(queue) /\ w \notin Posting
      BY <2>1 DEF EnqueueSelf, Go, QueueInv, Posting
    <3>2. Len(queue') = Len(queue) + 1
      BY <2>1, <3>1, ElementsOfAppend DEF EnqueueSelf, Enqueue, TypeOK
    <3>3. Posting' = Posting \cup {w}
      BY <2>1 DEF EnqueueSelf, Go, Posting, TypeOK
    <3>4. Cardinality(Posting') = Cardinality(Posting) + 1
      BY <3>1, <3>3, PostingIsFinite, FS_AddElement
    <3>5. sem' = sem /\ mainpc' = mainpc
      BY <2>1 DEF EnqueueSelf, mainVars
    <3> QED
      BY <1>0, <3>2, <3>4, <3>5, PostingIsFinite DEF Starting, Tickets
  <2>2. CASE SemPost(w)
    <3>1. Posting' = Posting \ {w} /\ w \in Posting
      BY <2>2 DEF SemPost, Go, Posting, TypeOK
    <3>2. Cardinality(Posting') = Cardinality(Posting) - 1
      BY <3>1, PostingIsFinite, FS_RemoveElement
    <3> QED
      BY <1>0, <2>2, <3>2, PostingIsFinite DEF SemPost, Starting, Tickets, mainVars
  <2>3. CASE ~EnqueueSelf(w) /\ ~SemPost(w)
    <3>1. /\ queue' = queue /\ sem' = sem /\ mainpc' = mainpc
          /\ pc' = pc \/ \E from, to : /\ Go(w, from, to)
                                       /\ from \in {"release", "post"} <=> to \in {"release", "post"}
      BY <1>5, <2>3
         DEF WorkerNext, WorkerLock, CheckIdle, CheckBusy, CondWait, SpuriousWakeup,
             WorkerUnlock, RecvRequest, Run, RecvEof, ConnError, RunIsFatal, ClearCl, Relock,
             Release, mainVars
    <3>2. Posting' = Posting
      BY <3>1 DEF Go, Posting, TypeOK
    <3> QED
      BY <3>1, <3>2 DEF Tickets, Starting
  <2> QED
    BY <2>1, <2>2, <2>3
<1>6. CASE Undefined \/ CreateFails \/ ListenFails
  BY <1>6 DEF Undefined, CreateFails, ListenFails, Tickets, Starting, Posting, mainVars
<1>7. ASSUME NEW c \in Clients, ClientNext(c)
      PROVE  Tickets'
  BY <1>7 DEF ClientNext, Connect, Send, Close, Reset, Tickets, Starting, Posting, mainVars
<1>8. CASE UNCHANGED vars
  BY <1>8 DEF vars, Tickets, Starting, Posting
<1> QED
  BY <1>1, <1>2, <1>3, <1>4, <1>5, <1>6, <1>7, <1>8 DEF Next, MainNext

(* Whenever main() holds a ticket there is a thread id to dequeue. *)
LEMMA TicketsFindWorker ==
  ASSUME TypeOK, Tickets
  PROVE  DispatchFindsWorker
<1> SUFFICES ASSUME mainpc \in {"lock", "assign"} PROVE queue # <<>>
  BY DEF DispatchFindsWorker
<1>1. Len(queue) = sem + Cardinality(Posting) + 1
  BY DEF Tickets, Starting
<1>2. Len(queue) >= 1
  BY <1>1, PostingIsFinite DEF Tickets, TypeOK
<1> QED
  BY <1>2 DEF TypeOK

-----------------------------------------------------------------------------
(* The mutex and the condition variables.                                  *)

LEMMA LockStep ==
  ASSUME TypeOK, QueueInv, LockInv, NoLostSignal, [Next]_vars
  PROVE  LockInv' /\ NoLostSignal'
<1> SUFFICES ASSUME ~torn'
             PROVE  /\ \A v \in Workers : InWorkerSection(v)' => owner' = v
                    /\ InMainSection' => owner' = Main
                    /\ \A v \in Workers : cl'[v] # NoConn => pc'[v] \notin {"condwait", "waiting"}
  BY DEF LockInv, NoLostSignal
<1>0. ~torn /\ \A w \in Workers : w # Main /\ w # Free
  BY NAssumption
     DEF Next, MainNext, InitThread, CreateThread, Listen, Accept, AcceptFails, SemWait,
         MainLock, Assign, MainUnlock, WorkerNext, WorkerLock, CheckIdle, CheckBusy, CondWait,
         SpuriousWakeup, WorkerUnlock, RecvRequest, Run, RecvEof, ConnError, RunIsFatal, ClearCl, Relock,
         EnqueueSelf, Release, SemPost, Undefined, CreateFails, ListenFails, ClientNext, Connect, Send, Close, Reset,
         vars, TypeOK, Workers, Main, Free
<1>a. /\ \A w \in Workers : InWorkerSection(w) => owner = w
      /\ InMainSection => owner = Main
      /\ \A w \in Workers : cl[w] # NoConn => pc[w] \notin {"condwait", "waiting"}
  BY <1>0 DEF LockInv, NoLostSignal
<1>1. CASE InitThread
  <2>1. owner = Free
    BY <1>1 DEF InitThread, TypeOK
  <2> QED
    BY <1>0, <1>1, <1>a, <2>1 DEF InitThread, Step, InWorkerSection, InMainSection
<1>2. CASE CreateThread
  BY <1>2, <1>a DEF CreateThread, Step, InWorkerSection, InMainSection, TypeOK
<1>3. CASE Assign
  <2> DEFINE h == Head(queue)
  <2>1. /\ h \in Workers
        /\ \A v \in Workers :
             /\ v # h => cl'[v] = cl[v] /\ pc'[v] = pc[v]
             /\ pc'[v] = IF v = h /\ pc[v] = "waiting" THEN "lock" ELSE pc[v]
        /\ owner = Main /\ owner' = Main /\ mainpc' = "unlock"
    BY <1>3, ElementsOfTail DEF Assign, Step, TypeOK
  <2>2. \A v \in Workers : ~InWorkerSection(v)
    BY <1>0, <1>a, <2>1
  <2> HIDE DEF h
  <2> QED
    BY <1>a, <2>1, <2>2 DEF InWorkerSection
<1>4. CASE MainLock
  BY <1>0, <1>4, <1>a DEF MainLock, Step, InWorkerSection
<1>5. CASE MainUnlock
  BY <1>0, <1>5, <1>a DEF MainUnlock, Step, InWorkerSection, InMainSection
<1>6. CASE Listen \/ Accept \/ AcceptFails \/ SemWait
  BY <1>6, <1>a DEF Listen, Accept, AcceptFails, SemWait, Step, InWorkerSection, InMainSection
<1>7. ASSUME NEW w \in Workers, WorkerNext(w)
      PROVE  /\ \A v \in Workers : InWorkerSection(v)' => owner' = v
             /\ InMainSection' => owner' = Main
             /\ \A v \in Workers : cl'[v] # NoConn => pc'[v] \notin {"condwait", "waiting"}
  <2>1. CASE WorkerLock(w) \/ Relock(w)
    <3>1. owner = Free /\ owner' = w /\ cl' = cl /\ mainpc' = mainpc
      BY <2>1 DEF WorkerLock, Relock, mainVars
    <3>2. \A v \in Workers : ~InWorkerSection(v)
      BY <1>0, <1>a, <3>1
    <3>3. ~InMainSection
      BY <1>a, <3>1 DEF Main, Free
    <3>4. /\ pc'[w] \in {"check", "enqueue"}
          /\ \A v \in Workers : v # w => pc'[v] = pc[v]
      BY <2>1 DEF WorkerLock, Relock, Go, TypeOK
    <3> QED
      BY <1>a, <3>1, <3>2, <3>3, <3>4 DEF InWorkerSection, InMainSection
  <2>2. CASE CheckIdle(w) \/ CheckBusy(w) \/ EnqueueSelf(w)
    BY <1>0, <1>a, <2>2 DEF CheckIdle, CheckBusy, EnqueueSelf, Go, InWorkerSection, InMainSection,
                            TypeOK, mainVars
  <2>3. CASE CondWait(w) \/ WorkerUnlock(w) \/ Release(w)
    BY <1>0, <1>a, <2>3 DEF CondWait, WorkerUnlock, Release, Go, InWorkerSection, InMainSection,
                            TypeOK, mainVars
  <2>4. CASE SpuriousWakeup(w) \/ RecvRequest(w) \/ Run(w) \/ RecvEof(w) \/ SemPost(w)
    BY <1>0, <1>a, <2>4 DEF SpuriousWakeup, RecvRequest, Run, RecvEof, SemPost, Go,
                            InWorkerSection, InMainSection, TypeOK, mainVars
  <2>5. CASE ClearCl(w)
    BY <1>0, <1>a, <2>5 DEF ClearCl, Go, InWorkerSection, InMainSection, TypeOK, mainVars
  <2>6. CASE ConnError(w) \/ RunIsFatal(w)
    BY <1>a, <2>6 DEF ConnError, RunIsFatal, InWorkerSection, InMainSection, mainVars
  <2> QED
    BY <1>7, <2>1, <2>2, <2>3, <2>4, <2>5, <2>6 DEF WorkerNext
<1>8. CASE Undefined \/ CreateFails \/ ListenFails
  BY <1>8, <1>a DEF Undefined, CreateFails, ListenFails, InWorkerSection, InMainSection, mainVars
<1>9. ASSUME NEW c \in Clients, ClientNext(c)
      PROVE  owner' = owner /\ pc' = pc /\ cl' = cl /\ mainpc' = mainpc
  BY <1>9 DEF ClientNext, Connect, Send, Close, Reset, mainVars
<1>10. CASE UNCHANGED vars
  BY <1>10, <1>a DEF vars, InWorkerSection, InMainSection
<1> QED
  BY <1>1, <1>2, <1>3, <1>4, <1>5, <1>6, <1>7, <1>8, <1>9, <1>10, <1>a
     DEF Next, MainNext, InWorkerSection, InMainSection

-----------------------------------------------------------------------------
(* The connections.                                                        *)

LEMMA ConnStep ==
  ASSUME TypeOK, QueueInv, ConnInv, [Next]_vars
  PROVE  ConnInv'
<1>0. /\ NoConn \notin Clients /\ BadFd \notin Clients /\ BadFd # NoConn
      /\ Elements(backlog) \subseteq Clients
  BY ClientsAssumption DEF NoConn, BadFd, TypeOK, Elements
<1>1. CASE InitThread \/ CreateThread \/ Listen \/ MainUnlock
  BY <1>1 DEF InitThread, CreateThread, Listen, MainUnlock, Step, ConnInv, Handing,
              OneWorkerPerConnection, clientVars
<1>2. CASE Accept
  <2> DEFINE h == Head(backlog)
  <2>1. /\ h \in Clients /\ h \notin Elements(backlog')
        /\ Injective(backlog')
        /\ Elements(backlog) = Elements(backlog') \cup {h}
    BY <1>2, ElementsOfTail DEF Accept, ConnInv, TypeOK
  <2>2. connfd' = h /\ cl' = cl /\ conn' = conn
    BY <1>2 DEF Accept
  <2>3. conn[h] # "idle" /\ \A w \in Workers : cl[w] # h
    BY <2>1 DEF ConnInv
  <2> HIDE DEF h
  <2> QED
    BY <1>0, <2>1, <2>2, <2>3 DEF ConnInv, Handing, OneWorkerPerConnection
<1>3. CASE AcceptFails
  BY <1>0, <1>3 DEF AcceptFails, Step, ConnInv, Handing, OneWorkerPerConnection, clientVars
<1>4. CASE SemWait \/ MainLock
  BY <1>4 DEF SemWait, MainLock, Step, ConnInv, Handing, OneWorkerPerConnection, clientVars
<1>5. CASE Assign
  <2> DEFINE h == Head(queue)
  <2>1. /\ h \in Workers /\ cl'[h] = connfd
        /\ \A w \in Workers : w # h => cl'[w] = cl[w]
        /\ backlog' = backlog /\ conn' = conn /\ ~Handing' /\ Handing
        /\ mainpc = "assign" /\ mainpc' = "unlock"
    BY <1>5, ElementsOfTail DEF Assign, Step, Handing, TypeOK, clientVars
  <2> HIDE DEF h
  <2>2. \A w \in Workers : connfd \in Clients => cl[w] # connfd
    BY <2>1 DEF ConnInv, OneWorkerPerConnection
  <2>3. OneWorkerPerConnection'
    BY <2>1, <2>2 DEF ConnInv, OneWorkerPerConnection
  <2> QED
    BY <2>1, <2>3 DEF ConnInv
<1>6. ASSUME NEW w \in Workers, WorkerNext(w)
      PROVE  ConnInv'
  <2>1. CASE ClearCl(w)
    <3>1. /\ cl'[w] = NoConn
          /\ \A v \in Workers : v # w => cl'[v] = cl[v]
          /\ mainpc' = mainpc /\ connfd' = connfd /\ backlog' = backlog /\ conn' = conn
      BY <2>1 DEF ClearCl, TypeOK, mainVars, clientVars
    <3> QED
      BY <1>0, <3>1 DEF ConnInv, Handing, OneWorkerPerConnection
  <2>2. CASE ~ClearCl(w)
    <3>1. cl' = cl /\ mainpc' = mainpc /\ connfd' = connfd /\ backlog' = backlog /\ conn' = conn
      BY <1>6, <2>2
         DEF WorkerNext, WorkerLock, CheckIdle, CheckBusy, CondWait, SpuriousWakeup,
             WorkerUnlock, RecvRequest, Run, RecvEof, ConnError, RunIsFatal, Relock, EnqueueSelf,
             Release, SemPost, mainVars, clientVars
    <3> QED
      BY <3>1 DEF ConnInv, Handing, OneWorkerPerConnection
  <2> QED
    BY <2>1, <2>2
<1>7. CASE Undefined \/ CreateFails \/ ListenFails
  BY <1>7 DEF Undefined, CreateFails, ListenFails, ConnInv, Handing, OneWorkerPerConnection, mainVars, clientVars
<1>8. ASSUME NEW c \in Clients, ClientNext(c)
      PROVE  ConnInv'
  <2>1. cl' = cl /\ mainpc' = mainpc /\ connfd' = connfd
    BY <1>8 DEF ClientNext, Connect, Send, Close, Reset, mainVars
  <2>2. CASE Connect(c)
    <3>1. c \notin Elements(backlog) /\ (Handing => connfd # c) /\ \A w \in Workers : cl[w] # c
      BY <2>2 DEF Connect, ConnInv
    <3>2. Injective(backlog') /\ Elements(backlog') = Elements(backlog) \cup {c}
      BY <2>2, <3>1, ElementsOfAppend DEF Connect, ConnInv, TypeOK
    <3>3. conn'[c] # "idle" /\ \A d \in Clients : d # c => conn'[d] = conn[d]
      BY <2>2 DEF Connect, TypeOK
    <3> QED
      BY <1>0, <2>1, <3>1, <3>2, <3>3 DEF ConnInv, Handing, OneWorkerPerConnection
  <2>3. CASE ~Connect(c)
    <3>1. backlog' = backlog /\ \A d \in Clients : conn[d] # "idle" => conn'[d] # "idle"
      BY <1>8, <2>3 DEF ClientNext, Send, Close, Reset, TypeOK
    <3> QED
      BY <1>0, <2>1, <3>1 DEF ConnInv, Handing, OneWorkerPerConnection
  <2> QED
    BY <2>2, <2>3
<1>9. CASE UNCHANGED vars
  BY <1>9 DEF vars, ConnInv, Handing, OneWorkerPerConnection
<1> QED
  BY <1>1, <1>2, <1>3, <1>4, <1>5, <1>6, <1>7, <1>8, <1>9 DEF Next, MainNext

LEMMA DoneStep ==
  ASSUME TypeOK, QueueInv, ConnInv, DoneInv, [Next]_vars
  PROVE  DoneInv'
<1>0. NoConn \notin Clients
  BY ClientsAssumption DEF NoConn
<1>1. CASE MainNext /\ ~CreateThread /\ ~Assign
  BY <1>1 DEF MainNext, InitThread, CreateFails, Listen, ListenFails, Accept, AcceptFails, SemWait, MainLock, MainUnlock,
              DoneInv, clientVars
<1>2. CASE CreateThread
  BY <1>2 DEF CreateThread, DoneInv, TypeOK, clientVars
<1>3. CASE Assign
  <2> DEFINE h == Head(queue)
  <2>1. /\ h \in Workers /\ cl[h] = NoConn
        /\ \A w \in Workers : /\ w # h => cl'[w] = cl[w] /\ pc'[w] = pc[w]
                              /\ pc'[w] = "clear" => pc[w] = "clear"
        /\ conn' = conn /\ handled' = handled /\ sent' = sent
    BY <1>3, ElementsOfTail DEF Assign, QueueInv, TypeOK, clientVars
  <2> HIDE DEF h
  <2> QED
    BY <1>0, <2>1 DEF DoneInv
<1>4. ASSUME NEW w \in Workers, WorkerNext(w)
      PROVE  DoneInv'
  <2>1. CASE Run(w)
    <3>1. /\ pc[w] = "run" /\ pc'[w] = "recv" /\ cl' = cl /\ conn' = conn /\ sent' = sent
          /\ \A v \in Workers : v # w => pc'[v] = pc[v]
          /\ \A c \in Clients : c # cl[w] => handled'[c] = handled[c]
      BY <2>1 DEF Run, Go, TypeOK
    <3> QED
      BY <3>1 DEF DoneInv, ConnInv, OneWorkerPerConnection
  <2>2. CASE RecvEof(w)
    BY <2>2 DEF RecvEof, Go, DoneInv, TypeOK, clientVars
  <2>3. CASE ClearCl(w)
    BY <2>3 DEF ClearCl, Go, DoneInv, TypeOK, clientVars
  <2>4. CASE ~Run(w) /\ ~RecvEof(w) /\ ~ClearCl(w)
    <3>1. /\ cl' = cl /\ conn' = conn /\ handled' = handled /\ sent' = sent
          /\ pc' = pc \/ \E from, to : Go(w, from, to) /\ to # "clear"
      BY <1>4, <2>4
         DEF WorkerNext, WorkerLock, CheckIdle, CheckBusy, CondWait, SpuriousWakeup,
             WorkerUnlock, RecvRequest, ConnError, RunIsFatal, Relock, EnqueueSelf,
             Release, SemPost, clientVars
    <3>2. \A v \in Workers : pc'[v] = "clear" => pc[v] = "clear"
      BY <3>1 DEF Go, TypeOK
    <3> QED
      BY <3>1, <3>2 DEF DoneInv
  <2> QED
    BY <2>1, <2>2, <2>3, <2>4
<1>5. CASE Undefined \/ CreateFails \/ ListenFails
  BY <1>5 DEF Undefined, CreateFails, ListenFails, DoneInv, clientVars
<1>6. ASSUME NEW c \in Clients, ClientNext(c)
      PROVE  DoneInv'
  <2>1. /\ cl' = cl /\ pc' = pc /\ handled' = handled
        /\ \A d \in Clients : conn[d] \in {"closed", "reset"} =>
             conn'[d] = conn[d] /\ sent'[d] = sent[d]
    BY <1>6 DEF ClientNext, Connect, Send, Close, Reset, TypeOK
  <2> QED
    BY <2>1 DEF DoneInv
<1>7. CASE UNCHANGED vars
  BY <1>7 DEF vars, DoneInv
<1> QED
  BY <1>1, <1>2, <1>3, <1>4, <1>5, <1>6, <1>7 DEF Next

-----------------------------------------------------------------------------
(* The file descriptors, and the end of the process.                       *)

\* What may change without effect on FdInv.
LEMMA FdUnchanged ==
  ASSUME FdInv,
         conn' = conn, backlog' = backlog, leaked' = leaked, status' # "exited",
         SawBadFd' => SawBadFd
  PROVE  FdInv'
<1>1. Accepted' = Accepted /\ InUse' = InUse
  BY DEF Accepted, InUse
<1> QED
  BY <1>1 DEF FdInv, ExitHasCause

LEMMA RunningAreFew == Cardinality(Running) \in 0 .. N
<1>1. IsFiniteSet(Workers) /\ Cardinality(Workers) = N
  <2>1. 0 \in Int /\ N - 1 \in Int /\ ~(0 > N - 1) /\ (N - 1) - 0 + 1 = N
    BY NAssumption
  <2> QED
    BY <2>1, FS_Interval DEF Workers
<1>2. Running \subseteq Workers
  BY DEF Running
<1> QED
  BY <1>1, <1>2, NAssumption, FS_Subset, FS_CardinalityType

LEMMA FdStep ==
  ASSUME TypeOK, ConnInv, FdInv, [Next]_vars
  PROVE  FdInv'
<1>0. /\ NoConn # BadFd /\ BadFd \notin Clients /\ FdLimit \in Nat /\ N \in Nat
      /\ IsFiniteSet(Accepted) /\ Cardinality(Accepted) \in Nat
      /\ leaked \in Nat /\ InUse \in Nat /\ InUse = Cardinality(Accepted) + leaked
      /\ Elements(backlog) \subseteq Clients
  BY NAssumption, ClientsAssumption, BoundAssumption, FS_CardinalityType
     DEF NoConn, BadFd, FdInv, InUse, TypeOK, Elements
<1>1. CASE MainNext /\ ~Accept /\ ~AcceptFails /\ ~Assign /\ ~CreateFails /\ ~ListenFails
  BY <1>1, FdUnchanged
     DEF MainNext, InitThread, CreateThread, Listen, SemWait, MainLock, MainUnlock, Step,
         SawBadFd, clientVars
<1>2. CASE Accept
  <2> DEFINE h == Head(backlog)
  <2>1. /\ h \in Clients /\ h \notin Elements(backlog') /\ connfd' = h
        /\ Elements(backlog) = Elements(backlog') \cup {h}
        /\ conn' = conn /\ cl' = cl /\ leaked' = leaked /\ status' = "running"
    BY <1>2, ElementsOfTail DEF Accept, Step, ConnInv, TypeOK
  <2>2. conn[h] # "idle" /\ h \notin Accepted
    BY <2>1 DEF ConnInv, Accepted
  <2> HIDE DEF h
  <2>3. Accepted' = Accepted \cup {h}
    BY <2>1, <2>2 DEF Accepted
  <2>4. IsFiniteSet(Accepted') /\ Cardinality(Accepted') = Cardinality(Accepted) + 1
    BY <1>0, <2>2, <2>3, FS_AddElement
  <2>5. InUse' = InUse + 1
    BY <1>0, <2>1, <2>4 DEF InUse
  <2>6. SawBadFd' => SawBadFd
    BY <1>0, <2>1 DEF SawBadFd
  <2> QED
    BY <1>0, <2>1, <2>4, <2>5, <2>6 DEF FdInv, ExitHasCause
<1>3. CASE AcceptFails
  <2>1. /\ Accepted' = Accepted /\ InUse' = InUse /\ status' = "running"
        /\ InUse + Cardinality(Running) >= FdLimit
    BY <1>3 DEF AcceptFails, Step, Accepted, InUse, clientVars
  <2>2. InUse + N >= FdLimit
    BY <1>0, <2>1, RunningAreFew
  <2> QED
    BY <1>0, <2>1, <2>2 DEF FdInv, ExitHasCause
<1>4. CASE Assign
  <2>1. SawBadFd' => SawBadFd
    BY <1>4, ElementsOfTail DEF Assign, SawBadFd, TypeOK
  <2> QED
    BY <1>4, <2>1, FdUnchanged DEF Assign, Step, clientVars
<1>5. CASE CreateFails \/ ListenFails
  <2>1. /\ Accepted' = Accepted /\ InUse' = InUse /\ cl' = cl /\ connfd' = connfd
        /\ ~Listening'
    BY <1>5 DEF CreateFails, ListenFails, Accepted, InUse, Listening, mainVars, clientVars
  <2> QED
    BY <2>1 DEF FdInv, ExitHasCause, SawBadFd
<1>6. ASSUME NEW w \in Workers, WorkerNext(w)
      PROVE  FdInv'
  <2>1. CASE ConnError(w) \/ RunIsFatal(w)
    <3>1. /\ Accepted' = Accepted /\ InUse' = InUse /\ conn' = conn /\ cl' = cl
          /\ connfd' = connfd /\ pc' = pc /\ handled' = handled
      BY <2>1 DEF ConnError, RunIsFatal, Accepted, InUse, mainVars, clientVars
    <3>2. \/ cl[w] = BadFd
          \/ \E c \in Clients : conn[c] = "reset"
          \/ pc[w] = "run" /\ Request(w) \in FatalRequests
      BY <2>1 DEF ConnError, RunIsFatal
    <3>3. Request(w)' = Request(w)
      BY <3>1 DEF Request
    <3>4. cl[w] = BadFd => InUse + N >= FdLimit
      BY DEF FdInv, SawBadFd
    <3>5. ExitHasCause'
      BY <3>1, <3>2, <3>3, <3>4 DEF ExitHasCause
    <3> QED
      BY <3>1, <3>5 DEF FdInv, SawBadFd
  <2>2. CASE ClearCl(w)
    <3>1. SawBadFd' => SawBadFd
      BY <1>0, <2>2 DEF ClearCl, SawBadFd, TypeOK, mainVars
    <3> QED
      BY <2>2, <3>1, FdUnchanged DEF ClearCl, Go, clientVars
  <2>3. CASE Run(w)
    <3>1. /\ Accepted' = Accepted /\ cl' = cl /\ connfd' = connfd /\ status' = "running"
          /\ leaked' \in leaked .. MaxLeaks
      BY <2>3 DEF Run, Go, Accepted, mainVars
    <3>2. InUse' \in Int /\ InUse' >= InUse
      BY <1>0, <3>1, BoundAssumption DEF InUse
    <3>3. SawBadFd => InUse' + N >= FdLimit
      <4>1. \A i, j \in Int : j >= i /\ i + N >= FdLimit => j + N >= FdLimit
        BY <1>0
      <4>2. SawBadFd => InUse + N >= FdLimit
        BY DEF FdInv
      <4>3. InUse \in Int
        BY <1>0
      <4> HIDE DEF InUse
      <4> QED
        BY <3>2, <4>1, <4>2, <4>3
    <3> QED
      BY <3>1, <3>3 DEF FdInv, ExitHasCause, SawBadFd
  <2>4. CASE ~(ConnError(w) \/ RunIsFatal(w)) /\ ~ClearCl(w) /\ ~Run(w)
    <3>1. /\ cl' = cl /\ connfd' = connfd /\ conn' = conn /\ backlog' = backlog
          /\ leaked' = leaked /\ status' = status /\ status = "running"
      BY <1>6, <2>4
         DEF WorkerNext, WorkerLock, CheckIdle, CheckBusy, CondWait, SpuriousWakeup,
             WorkerUnlock, RecvRequest, RecvEof, Relock, EnqueueSelf,
             Release, SemPost, Go, mainVars, clientVars
    <3> QED
      BY <3>1, FdUnchanged DEF SawBadFd
  <2> QED
    BY <2>1, <2>2, <2>3, <2>4
<1>7. CASE Undefined
  BY <1>7, FdUnchanged DEF Undefined, SawBadFd, mainVars, clientVars
<1>8. ASSUME NEW c \in Clients, ClientNext(c)
      PROVE  FdInv'
  <2>1. /\ status' = "running" /\ cl' = cl /\ connfd' = connfd /\ leaked' = leaked
        /\ \A d \in Clients : d # c => conn'[d] = conn[d]
        /\ conn'[c] # "idle" \/ conn' = conn
    BY <1>8 DEF ClientNext, Connect, Send, Close, Reset, TypeOK, mainVars
  <2>2. Accepted' = Accepted
    <3>1. CASE Connect(c)
      <4>1. Elements(backlog') = Elements(backlog) \cup {c} /\ conn[c] = "idle"
        BY <3>1, ElementsOfAppend DEF Connect, TypeOK
      <4> QED
        BY <2>1, <4>1 DEF Accepted
    <3>2. CASE ~Connect(c)
      <4>1. backlog' = backlog /\ (conn[c] # "idle" \/ conn' = conn)
        BY <1>8, <3>2 DEF ClientNext, Send, Close, Reset
      <4> QED
        BY <2>1, <4>1 DEF Accepted
    <3> QED
      BY <3>1, <3>2
  <2>3. InUse' = InUse
    BY <2>1, <2>2 DEF InUse
  <2> QED
    BY <2>1, <2>2, <2>3 DEF FdInv, ExitHasCause, SawBadFd
<1>9. CASE UNCHANGED vars
  <2>1. /\ Accepted' = Accepted /\ InUse' = InUse /\ (SawBadFd <=> SawBadFd')
        /\ (Listening <=> Listening') /\ \A w \in Workers : Request(w)' = Request(w)
    BY <1>9 DEF vars, Accepted, InUse, SawBadFd, Listening, Request
  <2> QED
    BY <1>9, <2>1 DEF vars, FdInv, ExitHasCause
<1> QED
  BY <1>1, <1>2, <1>3, <1>4, <1>5, <1>6, <1>7, <1>8, <1>9 DEF Next, MainNext

-----------------------------------------------------------------------------
(* The theorems.                                                           *)

THEOREM Invariance == Spec => []IInv
<1>1. IInv /\ [Next]_vars => IInv'
  BY TypeStep, StartStep, QueueStep, TicketStep, LockStep, ConnStep, DoneStep, FdStep DEF IInv
<1> QED
  BY <1>1, InitIInv, PTL DEF Spec

(* Every variable keeps its type, for every number of workers and clients. *)
THEOREM TypeCorrect == Spec => []TypeOK
<1>1. IInv => TypeOK
  BY DEF IInv
<1> QED
  BY <1>1, Invariance, PTL

(* dequeue() in main() never finds the queue empty: the semaphore, posted   *)
(* outside the mutex, never runs ahead of the queue.                        *)
THEOREM DequeueSucceeds == Spec => []DispatchFindsWorker
<1>1. IInv => DispatchFindsWorker
  BY TicketsFindWorker DEF IInv
<1> QED
  BY <1>1, Invariance, PTL

(* The thread main() takes from the queue serves nobody, and is not in the  *)
(* queue a second time.                                                     *)
THEOREM DequeuedIsIdle == Spec => []QueuedWorkersAreIdle
<1>1. IInv => QueuedWorkersAreIdle
  <2> SUFFICES ASSUME IInv PROVE QueuedWorkersAreIdle
    OBVIOUS
  <2>1. Elements(queue) \subseteq Workers
    BY DEF IInv, TypeOK, Elements
  <2> QED
    BY <2>1 DEF IInv, QueueInv, Injective, QueuedWorkersAreIdle
<1> QED
  BY <1>1, Invariance, PTL

(* A connection never has two workers. *)
THEOREM ConnectionHasOneWorker == Spec => []OneWorkerPerConnection
<1>1. IInv => OneWorkerPerConnection
  BY DEF IInv, ConnInv
<1> QED
  BY <1>1, Invariance, PTL

(* The semaphore counts the ids in the queue, up to the steps between the  *)
(* two changes: no post is forgotten, no ticket is given out twice.        *)
THEOREM TicketsAddUp == Spec => []Tickets
<1>1. IInv => Tickets
  BY DEF IInv
<1> QED
  BY <1>1, Invariance, PTL

(* While main_mutex was never torn from its holder, its critical sections   *)
(* exclude each other.                                                      *)
THEOREM MutexWorks == Spec => []MutualExclusion
<1>1. IInv => MutualExclusion
  <2>1. \A w \in Workers : w # Main
    BY NAssumption DEF Workers, Main
  <2> QED
    BY <2>1 DEF IInv, LockInv, MutualExclusion
<1> QED
  BY <1>1, Invariance, PTL

(* While main_mutex was never torn from its holder, a worker that was given *)
(* a connection neither sleeps nor is about to: no signal is lost.          *)
THEOREM SignalsArrive == Spec => []NoLostSignal
<1>1. IInv => NoLostSignal
  BY DEF IInv
<1> QED
  BY <1>1, Invariance, PTL

(* The process ends only if it did not start, because of a request that is  *)
(* fatal or a client that reset its connection, or because accept() failed  *)
(* when the descriptors but for those of the workers were used up.          *)
THEOREM ExitsHaveCauses == Spec => []ExitHasCause
<1>1. IInv => ExitHasCause
  BY DEF IInv, FdInv
<1> QED
  BY <1>1, Invariance, PTL

(* A worker lets go of a connection only when the client is gone and all   *)
(* its requests have been run.                                             *)
THEOREM ServesToTheEnd == Spec => ServedToTheEnd
<1> DEFINE Served(w) == cl[w] \in Clients /\ cl'[w] # cl[w] =>
                          /\ conn[cl[w]] \in {"closed", "reset"}
                          /\ handled[cl[w]] = sent[cl[w]]
<1>1. IInv /\ [Next]_vars => [\A w \in Workers : Served(w)]_vars
  <2> SUFFICES ASSUME IInv, [Next]_vars, NEW w \in Workers PROVE Served(w)
    OBVIOUS
  <2>1. CASE Assign
    <3>1. /\ Head(queue) \in Workers /\ cl[Head(queue)] = NoConn
          /\ w # Head(queue) => cl'[w] = cl[w]
      BY <2>1, ElementsOfTail DEF Assign, IInv, QueueInv, TypeOK
    <3> QED
      BY <3>1, ClientsAssumption DEF NoConn
  <2>2. ASSUME NEW v \in Workers, ClearCl(v)
        PROVE  Served(w)
    BY <2>2 DEF ClearCl, Go, IInv, DoneInv, TypeOK
  <2>3. CASE ~Assign /\ ~\E v \in Workers : ClearCl(v)
    <3>1. cl' = cl
      BY <2>3
         DEF Next, MainNext, InitThread, CreateThread, Listen, Accept, AcceptFails, SemWait,
             MainLock, MainUnlock, WorkerNext, WorkerLock, CheckIdle, CheckBusy, CondWait,
             SpuriousWakeup, WorkerUnlock, RecvRequest, Run, RecvEof, ConnError, RunIsFatal, Relock,
             EnqueueSelf, Release, SemPost, Undefined, CreateFails, ListenFails, ClientNext, Connect, Send, Close,
             Reset, vars
    <3> QED
      BY <3>1
  <2> QED
    BY <2>1, <2>2, <2>3
<1> QED
  BY <1>1, Invariance, PTL DEF Spec, ServedToTheEnd

-----------------------------------------------------------------------------
(* The refinement: every step of the threads is a step of the pool, or     *)
(* leaves what the pool sees alone.                                        *)

poolServed == {c \in Clients : conn[c] # "idle"} \ poolWaiting

LEMMA PoolStutters ==
  ASSUME poolWaiting' = poolWaiting, cl' = cl,
         \A c \in Clients : conn'[c] # "idle" <=> conn[c] # "idle"
  PROVE  UNCHANGED Pool!vars
  BY DEF Pool!vars

LEMMA PoolStep ==
  ASSUME IInv, [Next]_vars
  PROVE  [Pool!Next]_(Pool!vars)
<1>0. /\ NoConn \notin Clients /\ BadFd \notin Clients
      /\ TypeOK /\ ConnInv /\ QueueInv /\ DoneInv
      /\ Elements(backlog) \subseteq Clients
  BY ClientsAssumption DEF NoConn, BadFd, IInv, TypeOK, Elements
<1>1. CASE InitThread \/ CreateThread \/ Listen \/ MainUnlock
  BY <1>1, PoolStutters DEF InitThread, CreateThread, Listen, MainUnlock, Step, poolWaiting,
                            InHand, clientVars
<1>2. CASE Accept
  <2>1. /\ Head(backlog) \in Clients
        /\ Elements(backlog) = Elements(backlog') \cup {Head(backlog)}
        /\ InHand = {} /\ InHand' = {Head(backlog)} /\ cl' = cl /\ conn' = conn
    BY <1>0, <1>2, ElementsOfTail DEF Accept, Step, InHand, TypeOK
  <2>2. poolWaiting' = poolWaiting
    BY <1>0, <2>1 DEF poolWaiting
  <2> QED
    BY <2>1, <2>2, PoolStutters
<1>3. CASE AcceptFails
  <2>1. InHand = {} /\ InHand' = {BadFd} /\ backlog' = backlog /\ cl' = cl /\ conn' = conn
    BY <1>3 DEF AcceptFails, Step, InHand, clientVars
  <2>2. poolWaiting' = poolWaiting
    BY <1>0, <2>1 DEF poolWaiting
  <2> QED
    BY <2>1, <2>2, PoolStutters
<1>4. CASE SemWait \/ MainLock
  BY <1>4, PoolStutters DEF SemWait, MainLock, Step, poolWaiting, InHand, clientVars
<1>5. CASE Assign
  <2> DEFINE h == Head(queue)
  <2>1. /\ h \in Workers /\ cl[h] = NoConn /\ cl' = [cl EXCEPT ![h] = connfd]
        /\ InHand = {connfd} /\ InHand' = {} /\ backlog' = backlog /\ conn' = conn
        /\ connfd \in Clients \/ connfd = BadFd
        /\ connfd \notin Elements(backlog)
        /\ connfd \in Clients => conn[connfd] # "idle"
    BY <1>0, <1>5, ElementsOfTail
       DEF Assign, Step, InHand, QueueInv, ConnInv, Handing, TypeOK, clientVars
  <2>2. poolWaiting' = poolWaiting \ {connfd} /\ (connfd \in Clients => connfd \in poolWaiting)
    BY <1>0, <2>1 DEF poolWaiting
  <2> HIDE DEF h
  <2>3. CASE connfd \in Clients
    <3>1. poolServed' = poolServed \cup {connfd}
      BY <2>1, <2>2, <2>3 DEF poolServed
    <3>2. Pool!Take(connfd, h)
      BY <2>1, <2>2, <2>3, <3>1 DEF Pool!Take, poolServed
    <3> QED
      BY <2>1, <2>3, <3>2 DEF Pool!Next, Pool!Take
  <2>4. CASE connfd = BadFd
    <3>1. poolWaiting' = poolWaiting
      BY <1>0, <2>2, <2>4 DEF poolWaiting
    <3>2. Pool!TakeBad(h)
      BY <2>1, <2>4, <3>1 DEF Pool!TakeBad
    <3> QED
      BY <2>1, <3>2 DEF Pool!Next
  <2> QED
    BY <2>1, <2>3, <2>4
<1>6. ASSUME NEW w \in Workers, WorkerNext(w)
      PROVE  [Pool!Next]_(Pool!vars)
  <2>1. mainpc' = mainpc /\ connfd' = connfd /\ backlog' = backlog /\ conn' = conn
    BY <1>6
       DEF WorkerNext, WorkerLock, CheckIdle, CheckBusy, CondWait, SpuriousWakeup,
           WorkerUnlock, RecvRequest, Run, RecvEof, ConnError, RunIsFatal, ClearCl, Relock, EnqueueSelf,
           Release, SemPost, mainVars, clientVars
  <2>2. poolWaiting' = poolWaiting
    BY <2>1 DEF poolWaiting, InHand
  <2>3. CASE ClearCl(w)
    <3>1. Pool!Finish(w)
      BY <1>0, <2>1, <2>2, <2>3 DEF ClearCl, Go, DoneInv, Pool!Finish
    <3> QED
      BY <3>1 DEF Pool!Next
  <2>4. CASE ~ClearCl(w)
    <3>1. cl' = cl
      BY <1>6, <2>4
         DEF WorkerNext, WorkerLock, CheckIdle, CheckBusy, CondWait, SpuriousWakeup,
             WorkerUnlock, RecvRequest, Run, RecvEof, ConnError, RunIsFatal, Relock, EnqueueSelf,
             Release, SemPost
    <3> QED
      BY <2>1, <2>2, <3>1, PoolStutters
  <2> QED
    BY <2>3, <2>4
<1>7. CASE Undefined \/ CreateFails \/ ListenFails
  BY <1>7, PoolStutters DEF Undefined, CreateFails, ListenFails, poolWaiting, InHand, mainVars, clientVars
<1>8. ASSUME NEW c \in Clients, ClientNext(c)
      PROVE  [Pool!Next]_(Pool!vars)
  <2>1. InHand' = InHand /\ cl' = cl
    BY <1>8 DEF ClientNext, Connect, Send, Close, Reset, InHand, mainVars
  <2>2. CASE Connect(c)
    <3>1. /\ Elements(backlog') = Elements(backlog) \cup {c}
          /\ conn[c] = "idle" /\ conn' = [conn EXCEPT ![c] = "open"]
      BY <2>2, ElementsOfAppend DEF Connect, IInv, TypeOK
    <3>2. c \notin poolWaiting /\ poolWaiting' = poolWaiting \cup {c}
      BY <1>0, <2>1, <3>1 DEF poolWaiting, InHand, ConnInv, Handing
    <3>3. c \notin poolServed /\ poolServed' = poolServed
      BY <1>0, <3>1, <3>2 DEF poolServed, TypeOK
    <3>4. Pool!Arrive(c)
      BY <2>1, <3>2, <3>3 DEF Pool!Arrive, poolServed
    <3> QED
      BY <3>4 DEF Pool!Next
  <2>3. CASE ~Connect(c)
    <3>1. backlog' = backlog /\ \A d \in Clients : conn'[d] # "idle" <=> conn[d] # "idle"
      BY <1>0, <1>8, <2>3 DEF ClientNext, Send, Close, Reset, TypeOK
    <3> QED
      BY <2>1, <3>1, PoolStutters DEF poolWaiting
  <2> QED
    BY <2>2, <2>3
<1>9. CASE UNCHANGED vars
  BY <1>9, PoolStutters DEF vars, poolWaiting, InHand
<1> QED
  BY <1>1, <1>2, <1>3, <1>4, <1>5, <1>6, <1>7, <1>8, <1>9 DEF Next, MainNext

(* The threads, with their queue, mutex, condition variables and semaphore, *)
(* implement the pool that hands every connection out at most once.         *)
THEOREM ImplementsPool == Spec => PoolSpec
<1>1. Init => Pool!Init
  <2>1. Init => poolWaiting = {} /\ {c \in Clients : conn[c] # "idle"} = {}
    BY DEF Init, poolWaiting, InHand, Elements
  <2> QED
    BY <2>1 DEF Init, Pool!Init
<1> QED
  BY <1>1, Invariance, PoolStep, PTL DEF Spec, PoolSpec, Pool!Spec

-----------------------------------------------------------------------------
(* The list in memory.                                                     *)

\* A path through memory: p[i] is the address of the node with the i-th id of
\* the queue.  Every other cell is free.
Paths == [1 .. Len(queue) -> Cells]
NodeAt(p, i) ==
  [value |-> queue[i], next |-> IF i = Len(queue) THEN NULL ELSE p[i + 1]]
PathHolds(p) ==
  /\ \A i, j \in 1 .. Len(queue) : p[i] = p[j] => i = j
  /\ \A i \in 1 .. Len(queue) : cell[p[i]] = NodeAt(p, i)
  /\ \A c \in Cells : (\A i \in 1 .. Len(queue) : p[i] # c) => cell[c] = NULL
  /\ queue = <<>> => front = NULL /\ back = NULL
  /\ queue # <<>> => front = p[1] /\ back = p[Len(queue)]

ListInv ==
  /\ queue \in Seq(Workers)
  /\ cell \in [Cells -> List!Node \cup {NULL}]
  /\ num_items = Len(queue)
  /\ \E p \in Paths : PathHolds(p)

(* Every step of the dispatcher with its list is one of the dispatcher. *)
LEMMA QueueStepIsStep == QueueSpec => Spec
<1>1. QueueInit => Init
  BY DEF QueueInit
<1>2. [QueueNext]_<<vars, listVars>> => [Next]_vars
  <2>1. \A w \in Workers : EnqueueSelf(w) => Next
    BY DEF Next, WorkerNext
  <2>2. InitThread \/ Assign => Next
    BY DEF Next, MainNext
  <2> QED
    BY <2>1, <2>2 DEF QueueNext
<1> QED
  BY <1>1, <1>2, PTL DEF QueueSpec, Spec

(* The nodes of a path are allocated, and as many as there are ids. *)
LEMMA PathIsInMemory ==
  ASSUME ListInv, NEW p \in Paths, PathHolds(p)
  PROVE  LET T == {p[i] : i \in 1 .. Len(queue)} IN
         /\ Len(queue) \in Nat
         /\ T = {c \in Cells : cell[c] # NULL}
         /\ Cardinality(T) = Len(queue)
         /\ Cardinality(Cells) \in Nat /\ Len(queue) <= Cardinality(Cells)
<1> DEFINE D == 1 .. Len(queue)
           T == {p[i] : i \in D}
<1>1. Len(queue) \in Nat /\ IsFiniteSet(D) /\ Cardinality(D) = Len(queue)
  <2>1. Len(queue) \in Nat
    BY DEF ListInv
  <2>2. IF 1 > Len(queue) THEN Len(queue) = 0 ELSE Len(queue) - 1 + 1 = Len(queue)
    BY <2>1
  <2> QED
    BY <2>1, <2>2, FS_Interval
<1>2. p \in Surjection(D, T) /\ p \in Injection(D, T)
  <2>1. p \in [D -> Cells] /\ \A i \in D : p[i] \in T
    BY DEF Paths
  <2>2. p \in [D -> T] /\ \A c \in T : \E i \in D : p[i] = c
    BY <2>1
  <2>3. \A i, j \in D : p[i] = p[j] => i = j
    BY DEF PathHolds
  <2> HIDE DEF T, D
  <2> QED
    BY <2>2, <2>3 DEF Surjection, Injection, IsInjective
<1>3. IsFiniteSet(T) /\ Cardinality(T) = Len(queue)
  BY <1>1, <1>2, FS_Surjection
<1>4. T \subseteq Cells
  BY DEF Paths
<1>5. Cardinality(Cells) \in Nat /\ Len(queue) <= Cardinality(Cells)
  BY <1>3, <1>4, CellsAssumption, FS_Subset, FS_CardinalityType
<1>6. \A i \in D : cell[p[i]] # NULL
  <2>1. SUFFICES ASSUME NEW i \in D PROVE cell[p[i]] # NULL
    OBVIOUS
  <2>2. NodeAt(p, i) \in List!Node
    <3>1. queue[i] \in Workers /\ i \in Nat
      BY <1>1 DEF ListInv
    <3>2. i # Len(queue) => p[i + 1] \in Cells
      BY <1>1, <3>1 DEF Paths
    <3> QED
      BY <3>1, <3>2 DEF NodeAt, List!Node
  <2> QED
    BY <2>2, NodesAssumption DEF PathHolds
<1>7. T = {c \in Cells : cell[c] # NULL}
  BY <1>4, <1>6 DEF PathHolds
<1> QED
  BY <1>1, <1>3, <1>5, <1>7

LEMMA SameCardinality == \A S : List!Cardinality(S) = Cardinality(S)
  BY Zenon DEF List!Cardinality, Cardinality

(* Following the pointers from front leads along the path, and then nowhere. *)
LEMMA WalkFollowsPath ==
  ASSUME ListInv, NEW p \in Paths, PathHolds(p)
  PROVE  List!Walk = [i \in 0 .. Cardinality(Cells) |->
                        IF i < Len(queue) THEN p[i + 1] ELSE NULL]
<1> DEFINE C == Cardinality(Cells)
           Goal == [i \in 0 .. C |-> IF i < Len(queue) THEN p[i + 1] ELSE NULL]
           Is(f) == f = [i \in 0 .. C |->
                           IF i = 0 THEN front
                           ELSE IF f[i-1] = NULL \/ cell[f[i-1]] = NULL THEN NULL
                           ELSE cell[f[i-1]].next]
<1>1. /\ Len(queue) \in Nat /\ C \in Nat /\ Len(queue) <= C
      /\ \A i \in 1 .. Len(queue) : p[i] \in Cells /\ cell[p[i]] # NULL
  BY PathIsInMemory DEF Paths
<1>2. \A i \in 1 .. Len(queue) : p[i] # NULL
  BY <1>1, CellsAssumption
<1>3. Goal[0] = front
  <2>1. queue = <<>> <=> Len(queue) = 0
    BY DEF ListInv
  <2> QED
    BY <1>1, <2>1 DEF PathHolds
<1>4. \A i \in 1 .. C :
        Goal[i] = IF Goal[i-1] = NULL \/ cell[Goal[i-1]] = NULL THEN NULL
                  ELSE cell[Goal[i-1]].next
  <2>1. SUFFICES ASSUME NEW i \in 1 .. C
                 PROVE  Goal[i] = IF Goal[i-1] = NULL \/ cell[Goal[i-1]] = NULL THEN NULL
                                  ELSE cell[Goal[i-1]].next
    OBVIOUS
  <2>2. i \in 0 .. C /\ i - 1 \in 0 .. C /\ (i - 1) + 1 = i
    BY <1>1
  <2>3. /\ Goal[i] = IF i < Len(queue) THEN p[i + 1] ELSE NULL
        /\ Goal[i-1] = IF i - 1 < Len(queue) THEN p[i] ELSE NULL
    BY <2>2
  <2>4. CASE i <= Len(queue)
    <3>1. i \in 1 .. Len(queue) /\ Goal[i-1] = p[i]
      BY <1>1, <2>2, <2>3, <2>4
    <3>2. cell[p[i]].next = IF i = Len(queue) THEN NULL ELSE p[i + 1]
      <4>1. cell[p[i]] = [value |-> queue[i],
                          next |-> IF i = Len(queue) THEN NULL ELSE p[i + 1]]
        BY <3>1 DEF PathHolds, NodeAt
      <4> QED
        BY <4>1
    <3>3. Goal[i] = IF i = Len(queue) THEN NULL ELSE p[i + 1]
      BY <1>1, <2>2, <2>3, <2>4
    <3> HIDE DEF Goal
    <3> QED
      BY <1>1, <1>2, <3>1, <3>2, <3>3
  <2>5. CASE i > Len(queue)
    <3>1. Goal[i] = NULL /\ Goal[i-1] = NULL
      BY <1>1, <2>2, <2>3, <2>5
    <3> HIDE DEF Goal
    <3> QED
      BY <3>1
  <2> QED
    BY <1>1, <2>4, <2>5
<1>5. Is(Goal)
  <2>1. \A i \in 0 .. C :
          Goal[i] = IF i = 0 THEN front
                    ELSE IF Goal[i-1] = NULL \/ cell[Goal[i-1]] = NULL THEN NULL
                    ELSE cell[Goal[i-1]].next
    <3>1. \A i \in 0 .. C : i = 0 \/ i \in 1 .. C
      BY <1>1
    <3> HIDE DEF Goal
    <3> QED
      BY <1>1, <1>3, <1>4, <3>1
  <2>2. Goal = [i \in 0 .. C |-> Goal[i]]
    BY Zenon
  <2> HIDE DEF Goal
  <2> QED
    BY <2>1, <2>2, Zenon
<1>6. Is(List!Walk)
  <2> HIDE DEF Goal
  <2> QED
    BY <1>5, SameCardinality, Zenon DEF List!Walk
<1>7. \A i \in 0 .. C : List!Walk[i] = Goal[i]
  <2> DEFINE P == {n \in Nat : n \in 0 .. C => List!Walk[n] = Goal[n]}
  <2>1. /\ List!Walk[0] = front
        /\ \A i \in 1 .. C :
             List!Walk[i] = IF List!Walk[i-1] = NULL \/ cell[List!Walk[i-1]] = NULL THEN NULL
                            ELSE cell[List!Walk[i-1]].next
    <3>1. 0 \in 0 .. C /\ \A i \in 1 .. C : i \in 0 .. C /\ i # 0
      BY <1>1
    <3> HIDE DEF Goal
    <3> QED
      BY <1>6, <3>1, Zenon
  <2> HIDE DEF Goal, Is
  <2>2. 0 \in P
    BY <1>3, <2>1
  <2>3. ASSUME NEW n \in P PROVE n + 1 \in P
    <3>1. SUFFICES ASSUME n + 1 \in 0 .. C PROVE List!Walk[n + 1] = Goal[n + 1]
      OBVIOUS
    <3>2. n \in 0 .. C /\ n + 1 \in 1 .. C /\ (n + 1) - 1 = n
      BY <1>1, <3>1
    <3>3. List!Walk[n] = Goal[n]
      BY <3>2
    <3> QED
      BY <1>4, <2>1, <3>2, <3>3
  <2>4. P = Nat
    <3>1. P \in SUBSET Nat
      OBVIOUS
    <3> HIDE DEF P
    <3> QED
      BY <2>2, <2>3, <3>1, NumberInduction
  <2> QED
    BY <1>1, <2>4
<1>8. List!Walk = [i \in 0 .. C |-> List!Walk[i]]
  <2>1. \E f : List!Walk = [i \in 0 .. C |->
                              IF i = 0 THEN front
                              ELSE IF f[i-1] = NULL \/ cell[f[i-1]] = NULL THEN NULL
                              ELSE cell[f[i-1]].next]
    BY <1>6, Zenon
  <2> HIDE DEF Is, Goal
  <2> QED
    BY <2>1, Zenon
<1> QED
  BY <1>7, <1>8

(* The nodes that are reached from front are those of the path. *)
LEMMA PathIsReached ==
  ASSUME ListInv, NEW p \in Paths, PathHolds(p)
  PROVE  /\ List!Reached = {p[i] : i \in 1 .. Len(queue)}
         /\ \A i \in 1 .. Len(queue) : List!Walk[i-1] = p[i]
<1> DEFINE C == Cardinality(Cells)
           T == {p[i] : i \in 1 .. Len(queue)}
<1>1. /\ Len(queue) \in Nat /\ C \in Nat /\ Len(queue) <= C
      /\ T \subseteq Cells /\ NULL \notin T
  BY PathIsInMemory, CellsAssumption DEF Paths
<1>2. /\ DOMAIN List!Walk = 0 .. C
      /\ \A i \in 0 .. C : List!Walk[i] = IF i < Len(queue) THEN p[i + 1] ELSE NULL
  BY WalkFollowsPath
<1>3. \A i \in 1 .. Len(queue) : i - 1 \in 0 .. C /\ i - 1 < Len(queue) /\ (i - 1) + 1 = i
  BY <1>1
<1>4. \A i \in 1 .. Len(queue) : List!Walk[i-1] = p[i]
  BY <1>2, <1>3
<1>5. List!Reached \subseteq T
  <2>1. \A i \in 0 .. C : i < Len(queue) => i + 1 \in 1 .. Len(queue)
    BY <1>1
  <2> QED
    BY <1>2, <2>1 DEF List!Reached
<1>6. T \subseteq List!Reached
  <2>1. \A i \in 1 .. Len(queue) : p[i] # NULL
    BY <1>1
  <2> QED
    BY <1>2, <1>3, <1>4, <2>1 DEF List!Reached
<1> QED
  BY <1>4, <1>5, <1>6

(* A list that lies along a path is sound, holds the ids of the queue, and *)
(* the search for an id finds those.                                       *)
LEMMA PathIsQueue ==
  ASSUME ListInv
  PROVE  /\ ListIsSound
         /\ ListHoldsQueue
         /\ \A v \in Workers : List!find_node(v) <=> v \in Elements(queue)
<1>1. PICK p \in Paths : PathHolds(p)
  BY DEF ListInv
<1> DEFINE T == {p[i] : i \in 1 .. Len(queue)}
<1>2. /\ Len(queue) \in Nat /\ num_items = Len(queue)
      /\ T = {c \in Cells : cell[c] # NULL} /\ Cardinality(T) = Len(queue)
      /\ List!Reached = T
      /\ \A i \in 1 .. Len(queue) : List!Walk[i-1] = p[i]
  BY <1>1, PathIsInMemory, PathIsReached DEF ListInv
<1>3. \A i \in 1 .. Len(queue) :
        cell[p[i]].value = queue[i] /\ cell[p[i]] # NULL /\
        cell[p[i]].next = IF i = Len(queue) THEN NULL ELSE p[i + 1]
  <2>1. SUFFICES ASSUME NEW i \in 1 .. Len(queue)
                 PROVE  /\ cell[p[i]].value = queue[i] /\ cell[p[i]] # NULL
                        /\ cell[p[i]].next = IF i = Len(queue) THEN NULL ELSE p[i + 1]
    OBVIOUS
  <2>2. cell[p[i]] = [value |-> queue[i], next |-> IF i = Len(queue) THEN NULL ELSE p[i + 1]]
    BY <1>1 DEF PathHolds, NodeAt
  <2>3. cell[p[i]] # NULL
    BY <1>2
  <2> QED
    BY <2>2, <2>3
<1>4. queue = <<>> <=> Len(queue) = 0
  BY DEF ListInv
<1>5. ListIsSound
  <2>1. num_items = List!Cardinality(List!Reached)
    BY <1>2, SameCardinality
  <2>2. CASE num_items = 0
    BY <1>1, <1>2, <1>4, <2>1, <2>2 DEF ListIsSound, List!ListIsSound, PathHolds
  <2>3. CASE num_items # 0
    <3>1. Len(queue) \in 1 .. Len(queue)
      BY <1>2, <2>3
    <3>2. back = List!Walk[num_items - 1] /\ cell[back].next = NULL
      BY <1>1, <1>2, <1>3, <1>4, <2>3, <3>1 DEF PathHolds
    <3> QED
      BY <1>2, <2>1, <2>3, <3>2 DEF ListIsSound, List!ListIsSound
  <2> QED
    BY <2>2, <2>3
<1>6. ListHoldsQueue
  <2>1. List!Contents = [i \in 1 .. Len(queue) |-> cell[List!Walk[i-1]].value]
    BY <1>2, SameCardinality DEF List!Contents
  <2>2. queue = [i \in 1 .. Len(queue) |-> queue[i]]
    BY DEF ListInv
  <2>3. \A i \in 1 .. Len(queue) : cell[List!Walk[i-1]].value = queue[i]
    BY <1>2, <1>3
  <2> QED
    BY <2>1, <2>2, <2>3 DEF ListHoldsQueue
<1>7. \A v \in Workers : List!find_node(v) <=> v \in Elements(queue)
  <2>1. DOMAIN queue = 1 .. Len(queue)
    BY DEF ListInv
  <2>2. ASSUME NEW v, v \in Elements(queue) PROVE List!find_node(v)
    BY <1>2, <1>3, <2>1, <2>2 DEF List!find_node, Elements
  <2>3. ASSUME NEW v, List!find_node(v) PROVE v \in Elements(queue)
    <3>1. PICK c \in List!Reached : cell[c] # NULL /\ cell[c].value = v
      BY <2>3 DEF List!find_node
    <3>2. PICK i \in 1 .. Len(queue) : c = p[i]
      BY <1>2
    <3> QED
      BY <1>3, <2>1, <3>1, <3>2 DEF Elements
  <2> QED
    BY <2>2, <2>3
<1> QED
  BY <1>5, <1>6, <1>7

(* enqueue() keeps the list along a path, which it makes longer at the end. *)
LEMMA EnqueueKeepsPath ==
  ASSUME ListInv, NEW v \in Workers, queue' = Enqueue(queue, v), List!Enqueue(v)
  PROVE  ListInv'
<1>1. PICK p \in Paths : PathHolds(p)
  BY DEF ListInv
<1>2. /\ List!find_node(v) <=> v \in Elements(queue)
      /\ queue \in Seq(Workers) /\ Len(queue) \in Nat /\ num_items = Len(queue)
      /\ cell \in [Cells -> List!Node \cup {NULL}]
      /\ queue = <<>> <=> Len(queue) = 0
      /\ p \in [1 .. Len(queue) -> Cells]
  BY <1>1, PathIsQueue DEF ListInv, Paths
<1>3. CASE List!EnqueueDuplicate(v)
  <2>1. queue' = queue
    BY <1>2, <1>3 DEF List!EnqueueDuplicate, Enqueue
  <2>2. cell' = cell /\ front' = front /\ back' = back /\ num_items' = num_items
    BY <1>3 DEF List!EnqueueDuplicate
  <2> QED
    BY <2>1, <2>2 DEF ListInv, Paths, PathHolds, NodeAt
<1>4. CASE List!EnqueueFirst(v) \/ List!EnqueueBehind(v)
  <2> DEFINE n == Len(queue)
  <2>1. /\ queue' = Append(queue, v) /\ queue' \in Seq(Workers) /\ Len(queue') = n + 1
        /\ num_items' = Len(queue') /\ queue' # <<>>
        /\ \A i \in 1 .. n : queue'[i] = queue[i]
        /\ queue'[n + 1] = v
    BY <1>2, <1>4 DEF List!EnqueueFirst, List!EnqueueBehind, Enqueue
  <2>2. PICK c \in Cells :
          /\ cell[c] = NULL
          /\ n = 0 => /\ cell' = [cell EXCEPT ![c] = [value |-> v, next |-> back]]
                      /\ front' = c
          /\ n # 0 => /\ cell' = [cell EXCEPT ![c] = [value |-> v, next |-> NULL],
                                              ![back].next = c]
                      /\ front' = front
          /\ back' = c
    <3>1. CASE List!EnqueueFirst(v)
      BY <1>2, <3>1 DEF List!EnqueueFirst
    <3>2. CASE List!EnqueueBehind(v)
      <4>1. n # 0
        BY <1>2, <3>2 DEF List!EnqueueBehind
      <4> HIDE DEF n
      <4> QED
        BY <3>2, <4>1 DEF List!EnqueueBehind
    <3> QED
      BY <1>4, <3>1, <3>2
  <2>3. \A i \in 1 .. n : p[i] # c
    BY <1>1, <2>2, PathIsInMemory
  <2>4. PICK q : q = [i \in 1 .. n + 1 |-> IF i = n + 1 THEN c ELSE p[i]]
    OBVIOUS
  <2>5. /\ q \in [1 .. n + 1 -> Cells]
        /\ q[n + 1] = c /\ \A i \in 1 .. n : q[i] = p[i]
    <3>1. \A i \in 1 .. n + 1 : i = n + 1 \/ i \in 1 .. n
      BY <1>2
    <3>2. n + 1 \in 1 .. n + 1 /\ \A i \in 1 .. n : i \in 1 .. n + 1 /\ i # n + 1
      BY <1>2
    <3> QED
      BY <1>2, <2>4, <3>1, <3>2
  <2>6. /\ cell'[c] = [value |-> v, next |-> NULL]
        /\ \A i \in 1 .. n : cell'[p[i]] = [value |-> queue[i], next |-> q[i + 1]]
        /\ \A d \in Cells : d # c /\ (\A i \in 1 .. n : p[i] # d) => cell'[d] = cell[d]
        /\ cell' \in [Cells -> List!Node \cup {NULL}]
    <3>0. /\ [value |-> v, next |-> NULL] \in List!Node
          /\ \A w \in Workers : [value |-> w, next |-> c] \in List!Node
      BY DEF List!Node
    <3>1. CASE n = 0
      <4>1. cell' = [cell EXCEPT ![c] = [value |-> v, next |-> NULL]]
        BY <1>1, <1>2, <2>2, <3>1 DEF PathHolds
      <4>2. 1 .. n = {}
        BY <3>1
      <4> HIDE DEF n
      <4> QED
        BY <1>2, <3>0, <4>1, <4>2
    <3>2. CASE n # 0
      <4>1. /\ n \in 1 .. n /\ back = p[n] /\ back \in Cells /\ back # c
            /\ cell[back] = [value |-> queue[n], next |-> NULL] /\ queue[n] \in Workers
        <5>1. n \in 1 .. n /\ queue # <<>>
          BY <1>2, <3>2
        <5>2. cell[p[n]] = NodeAt(p, n) /\ back = p[n]
          BY <1>1, <5>1 DEF PathHolds
        <5>3. NodeAt(p, n) = [value |-> queue[n], next |-> NULL]
          BY DEF NodeAt
        <5> QED
          BY <1>2, <2>3, <5>1, <5>2, <5>3
      <4>2. \A d \in Cells :
              cell'[d] = IF d = c THEN [value |-> v, next |-> NULL]
                         ELSE IF d = back THEN [value |-> queue[n], next |-> c]
                         ELSE cell[d]
        <5>1. cell' = [[cell EXCEPT ![c] = [value |-> v, next |-> NULL]]
                         EXCEPT ![back] = [cell[back] EXCEPT !.next = c]]
          BY <1>2, <2>2, <3>2, <4>1
        <5>2. [cell[back] EXCEPT !.next = c] = [value |-> queue[n], next |-> c]
          BY <4>1
        <5> QED
          BY <1>2, <4>1, <5>1, <5>2
      <4>3. cell' \in [Cells -> List!Node \cup {NULL}]
        <5>1. cell' = [d \in Cells |-> cell'[d]]
          BY <1>2, <2>2, <3>2
        <5>2. \A d \in Cells : cell'[d] \in List!Node \cup {NULL}
          BY <1>2, <3>0, <4>1, <4>2
        <5> QED
          BY <5>1, <5>2
      <4>4. ASSUME NEW i \in 1 .. n
            PROVE  cell'[p[i]] = [value |-> queue[i], next |-> q[i + 1]]
        <5>0. p[i] \in Cells /\ p[i] # c
          BY <1>2, <2>3
        <5>1. CASE i = n
          BY <2>5, <4>1, <4>2, <5>0, <5>1
        <5>2. CASE i # n
          <6>1. i + 1 \in 1 .. n
            BY <1>2, <5>2
          <6>2. p[i] # back
            BY <1>1, <4>1, <5>2 DEF PathHolds
          <6>3. cell[p[i]] = [value |-> queue[i], next |-> p[i + 1]]
            BY <1>1, <5>2 DEF PathHolds, NodeAt
          <6> QED
            BY <2>5, <4>2, <5>0, <6>1, <6>2, <6>3
        <5> QED
          BY <5>1, <5>2
      <4> QED
        BY <3>0, <4>1, <4>2, <4>3, <4>4
    <3> QED
      BY <3>1, <3>2
  <2>7. \A i \in 1 .. n + 1 : i = n + 1 \/ (i \in 1 .. n /\ i + 1 \in 1 .. n + 1 /\ i # n + 1)
    BY <1>2
  <2>8. \A i \in 1 .. n + 1 :
          cell'[q[i]] = [value |-> queue'[i], next |-> IF i = n + 1 THEN NULL ELSE q[i + 1]]
    BY <2>1, <2>5, <2>6, <2>7
  <2>9. \A i, j \in 1 .. n + 1 : q[i] = q[j] => i = j
    <3>1. \A i, j \in 1 .. n : p[i] = p[j] => i = j
      BY <1>1 DEF PathHolds
    <3> QED
      BY <2>3, <2>5, <2>7, <3>1
  <2>10. \A d \in Cells : (\A i \in 1 .. n + 1 : q[i] # d) => cell'[d] = NULL
    <3>1. 1 .. n \subseteq 1 .. n + 1 /\ n + 1 \in 1 .. n + 1
      BY <1>2
    <3>2. \A d \in Cells : (\A i \in 1 .. n : p[i] # d) => cell[d] = NULL
      BY <1>1 DEF PathHolds
    <3> QED
      BY <2>5, <2>6, <3>1, <3>2
  <2>11. front' = q[1] /\ back' = q[n + 1]
    <3>1. n # 0 => 1 \in 1 .. n /\ front = p[1]
      BY <1>1, <1>2 DEF PathHolds
    <3> QED
      BY <2>2, <2>5, <3>1
  <2>12. q \in Paths' /\ PathHolds(q)'
    <3> HIDE DEF n
    <3>1. Len(queue') = n + 1 /\ queue' # <<>>
      BY <2>1
    <3> QED
      BY <2>5, <2>8, <2>9, <2>10, <2>11, <3>1 DEF Paths, PathHolds, NodeAt
  <2> QED
    BY <2>1, <2>6, <2>12 DEF ListInv
<1> QED
  BY <1>3, <1>4 DEF List!Enqueue

(* dequeue() of a queue that is not empty leaves the list along the rest of *)
(* its path, and gives back the memory of the first node.                   *)
LEMMA DequeueKeepsPath ==
  ASSUME ListInv, queue # <<>>, queue' = Tail(queue), List!Dequeue
  PROVE  ListInv'
<1> DEFINE n == Len(queue)
<1>1. PICK p \in Paths : PathHolds(p)
  BY DEF ListInv
<1>2. /\ n \in Nat /\ n > 0 /\ num_items = n
      /\ cell \in [Cells -> List!Node \cup {NULL}]
      /\ p \in [1 .. n -> Cells] /\ front = p[1] /\ back = p[n]
      /\ 1 \in 1 .. n /\ n \in 1 .. n
  <2>1. n \in Nat /\ n > 0
    BY DEF ListInv
  <2> QED
    BY <1>1, <2>1 DEF ListInv, Paths, PathHolds
<1>3. /\ queue' \in Seq(Workers) /\ Len(queue') = n - 1 /\ (queue' = <<>> <=> n = 1)
      /\ \A i \in 1 .. n - 1 : queue'[i] = queue[i + 1]
  <2>1. /\ Tail(queue) \in Seq(Workers) /\ Len(Tail(queue)) = n - 1
    BY DEF ListInv
  <2>2. \A i \in 1 .. n - 1 : Tail(queue)[i] = queue[i + 1]
    BY DEF ListInv
  <2>3. \A s \in Seq(Workers) : s = <<>> <=> Len(s) = 0
    OBVIOUS
  <2>4. n - 1 = 0 <=> n = 1
    BY <1>2
  <2> HIDE DEF n
  <2>5. queue' = <<>> <=> n = 1
    BY <2>1, <2>3, <2>4
  <2> QED
    BY <2>1, <2>2, <2>5
<1>4. \A i \in 1 .. n : cell[p[i]] = [value |-> queue[i],
                                      next |-> IF i = n THEN NULL ELSE p[i + 1]]
  BY <1>1 DEF PathHolds, NodeAt
<1>5. /\ cell' = [cell EXCEPT ![p[1]] = NULL] /\ num_items' = Len(queue')
      /\ n = 1 => front' = NULL /\ back' = NULL
      /\ n > 1 => front' = p[2] /\ back' = back
  <2>1. n > 1 => cell[front].next = p[2]
    <3>1. cell[p[1]] = [value |-> queue[1], next |-> IF 1 = n THEN NULL ELSE p[1 + 1]]
      BY <1>2, <1>4
    <3> QED
      BY <1>2, <3>1
  <2> HIDE DEF n
  <2>2. num_items' = n - 1
    BY <1>2 DEF List!Dequeue, List!DequeueLast, List!DequeueFront
  <2> QED
    BY <1>2, <1>3, <2>1, <2>2 DEF List!Dequeue, List!DequeueLast, List!DequeueFront
<1>6. PICK q : q = [i \in 1 .. n - 1 |-> p[i + 1]]
  OBVIOUS
<1>7. \A i \in 1 .. n - 1 : i + 1 \in 1 .. n /\ i + 1 # 1 /\ i \in Nat
  BY <1>2
<1>8. q \in [1 .. n - 1 -> Cells] /\ \A i \in 1 .. n - 1 : q[i] = p[i + 1]
  BY <1>2, <1>6, <1>7
<1>9. \A i, j \in 1 .. n : p[i] = p[j] => i = j
  BY <1>1 DEF PathHolds
<1>10. \A i, j \in 1 .. n - 1 : q[i] = q[j] => i = j
  <2>1. SUFFICES ASSUME NEW i \in 1 .. n - 1, NEW j \in 1 .. n - 1, q[i] = q[j] PROVE i = j
    OBVIOUS
  <2>2. i + 1 = j + 1
    BY <1>7, <1>8, <1>9, <2>1
  <2> QED
    BY <1>7, <2>2
<1>11. \A i \in 1 .. n - 1 :
         cell'[q[i]] = [value |-> queue'[i], next |-> IF i = n - 1 THEN NULL ELSE q[i + 1]]
  <2>1. SUFFICES ASSUME NEW i \in 1 .. n - 1
                 PROVE  cell'[q[i]] = [value |-> queue'[i],
                                       next |-> IF i = n - 1 THEN NULL ELSE q[i + 1]]
    OBVIOUS
  <2>2. q[i] = p[i + 1] /\ p[i + 1] # p[1] /\ p[i + 1] \in Cells
    BY <1>2, <1>7, <1>8, <1>9
  <2>3. cell'[q[i]] = [value |-> queue[i + 1],
                       next |-> IF i + 1 = n THEN NULL ELSE p[(i + 1) + 1]]
    BY <1>2, <1>4, <1>5, <1>7, <2>2
  <2>4. (i + 1 = n <=> i = n - 1) /\ (i # n - 1 => i + 1 \in 1 .. n - 1)
    BY <1>2
  <2>5. i # n - 1 => q[i + 1] = p[(i + 1) + 1]
    BY <1>8, <2>4
  <2> QED
    BY <1>3, <2>3, <2>4, <2>5
<1>12. ASSUME NEW d \in Cells, \A i \in 1 .. n - 1 : q[i] # d
       PROVE  cell'[d] = NULL
  <2>1. CASE d = p[1]
    BY <1>2, <1>5, <2>1
  <2>2. CASE d # p[1]
    <3>1. \A i \in 1 .. n : i = 1 \/ (i - 1 \in 1 .. n - 1 /\ (i - 1) + 1 = i)
      BY <1>2
    <3>2. ASSUME NEW i \in 1 .. n PROVE p[i] # d
      <4>1. CASE i = 1
        BY <2>2, <4>1
      <4>2. CASE i # 1
        <5>1. i - 1 \in 1 .. n - 1 /\ (i - 1) + 1 = i
          BY <3>1, <4>2
        <5> QED
          BY <1>8, <1>12, <5>1
      <4> QED
        BY <4>1, <4>2
    <3>3. cell[d] = NULL
      BY <1>1, <3>2 DEF PathHolds
    <3> QED
      BY <1>2, <1>5, <2>2, <3>3
  <2> QED
    BY <2>1, <2>2
<1>13. n > 1 => front' = q[1] /\ back' = q[n - 1]
  <2>1. n > 1 => 1 \in 1 .. n - 1 /\ n - 1 \in 1 .. n - 1 /\ (n - 1) + 1 = n /\ 1 + 1 = 2
    BY <1>2
  <2> QED
    BY <1>2, <1>5, <1>8, <2>1
<1>14. q \in Paths' /\ PathHolds(q)'
  <2>1. n # 1 => n > 1
    BY <1>2
  <2> HIDE DEF n
  <2> QED
    BY <1>3, <1>5, <1>8, <1>10, <1>11, <1>12, <1>13, <2>1 DEF Paths, PathHolds, NodeAt
<1>15. cell' \in [Cells -> List!Node \cup {NULL}]
  BY <1>2, <1>5
<1> QED
  BY <1>3, <1>5, <1>14, <1>15 DEF ListInv

(* The list follows the queue of the dispatcher in every step. *)
LEMMA ListStep ==
  ASSUME TypeOK, StartInv, ListInv, [QueueNext]_<<vars, listVars>>
  PROVE  ListInv'
<1>1. CASE InitThread /\ List!Enqueue(spawned)
  <2>1. spawned \in Workers
    BY <1>1, NAssumption DEF InitThread, Step, StartInv, Starting, TypeOK, Workers
  <2> QED
    BY <1>1, <2>1, EnqueueKeepsPath DEF InitThread
<1>2. CASE Assign /\ List!Dequeue
  BY <1>2, DequeueKeepsPath DEF Assign
<1>3. ASSUME NEW w \in Workers, EnqueueSelf(w), List!Enqueue(w)
      PROVE  ListInv'
  BY <1>3, EnqueueKeepsPath DEF EnqueueSelf
<1>4. CASE UNCHANGED queue /\ UNCHANGED listVars
  BY <1>4 DEF listVars, ListInv, Paths, PathHolds, NodeAt
<1>5. CASE UNCHANGED <<vars, listVars>>
  BY <1>4, <1>5 DEF vars
<1> QED
  BY <1>1, <1>2, <1>3, <1>4, <1>5 DEF QueueNext

LEMMA InitListInv == QueueInit => ListInv
<1> SUFFICES ASSUME QueueInit PROVE ListInv
  OBVIOUS
<1>1. /\ queue = <<>> /\ num_items = 0 /\ front = NULL /\ back = NULL
      /\ cell = [c \in Cells |-> NULL]
  BY DEF QueueInit, Init, List!Init
<1>2. Len(queue) = 0 /\ 1 .. Len(queue) = {} /\ queue \in Seq(Workers)
  BY <1>1
<1>3. PICK p : p \in [1 .. Len(queue) -> Cells]
  <2>1. [i \in {} |-> NULL] \in [{} -> Cells]
    OBVIOUS
  <2> QED
    BY <1>2, <2>1
<1>4. PathHolds(p)
  BY <1>1, <1>2 DEF PathHolds
<1> QED
  BY <1>1, <1>2, <1>3, <1>4 DEF ListInv, Paths

THEOREM ListInvariance == QueueSpec => []ListInv
<1>1. IInv => TypeOK /\ StartInv
  BY DEF IInv
<1> QED
  BY <1>1, InitListInv, ListStep, Invariance, QueueStepIsStep, PTL DEF QueueSpec

(* The list in memory holds the ids of the idle workers in the order of the *)
(* queue: dequeue() returns the one that has been idle longest.             *)
THEOREM ListIsQueue == QueueSpec => []ListHoldsQueue
<1>1. ListInv => ListHoldsQueue
  BY PathIsQueue
<1> QED
  BY <1>1, ListInvariance, PTL

(* No call of enqueue() or dequeue() leaves a pointer to freed memory, loses *)
(* a node, or makes num_items differ from the nodes there are.               *)
THEOREM ListStaysSound == QueueSpec => []ListIsSound
<1>1. ListInv => ListIsSound
  BY PathIsQueue
<1> QED
  BY <1>1, ListInvariance, PTL
=============================================================================
