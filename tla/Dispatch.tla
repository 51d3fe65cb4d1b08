------------------------------ MODULE Dispatch ------------------------------
(***************************************************************************)
(* The threads of rpc-server: main() (rpcmain.cpp) starts N workers, then  *)
(* accepts connections and hands each one to the worker at the front of a  *)
(* queue of idle thread ids; a worker (server_start, rpcserver.cpp) sleeps *)
(* on its own condition variable until it is given a connection, runs      *)
(* requests until the client closes it, and queues its id again.           *)
(*                                                                         *)
(* One action is one step between two points where another thread can      *)
(* interleave.  What server_run does to the variables is in RpcRequest and *)
(* KeyValueStore: here a request is a count.                               *)
(***************************************************************************)
EXTENDS Integers, Sequences, FiniteSets

CONSTANTS
  N,            \* -N: the number of worker threads
  Clients,      \* descriptors that accept() returns, one per connection
  MaxRequests,  \* bound: requests a client sends on its connection
  FatalRequests, \* <<c, n>>: running the n-th request of c ends the process
  FdLimit,      \* descriptors the process has for connections and files
  MaxLeaks      \* bound: descriptors that requests leave open

ASSUME NAssumption       == N \in Nat \ {0}
ASSUME ClientsAssumption == Clients \subseteq Nat \ {0}
ASSUME FatalAssumption   == FatalRequests \subseteq Clients \X Nat
ASSUME BoundAssumption   == MaxRequests \in Nat /\ FdLimit \in Nat /\ MaxLeaks \in Nat

Workers == 0 .. N-1

NoConn == 0       \* thread->cl of an idle worker
BadFd  == -1      \* what a failed accept() returns
Main   == -1      \* the main thread, as an owner of main_mutex
Free   == -2      \* main_mutex is not locked

VARIABLES
  \* main()
  mainpc,       \* where main() is
  spawned,      \* loop index i of the thread-creation loop
  connfd,       \* the connection accept() returned last
  \* shared by all threads
  queue,        \* thread ids of idle workers (the Queue of rpcqueue.cpp)
  sem,          \* value of the semaphore dispatch_lock
  owner,        \* who holds main_mutex
  cl,           \* worker -> thread->cl
  \* workers
  pc,           \* worker -> where server_start is
  \* clients and the kernel
  conn,         \* client -> "idle", "open", "closed", "reset"
  backlog,      \* connections the kernel holds until accept()
  sent,         \* client -> requests it sent
  handled,      \* client -> requests a worker has run
  leaked,       \* descriptors of files that requests left open
  \* the process
  status,       \* "running", "exited" (err() or a signal), "undefined"
  torn          \* history: main_mutex was initialised while it was held

mainVars   == <<mainpc, spawned, connfd>>
clientVars == <<conn, backlog, sent, handled, leaked>>
vars == <<mainpc, spawned, connfd, queue, sem, owner, cl, pc,
          conn, backlog, sent, handled, leaked, status, torn>>

Elements(s) == {s[i] : i \in DOMAIN s}

\* Connections accept() has returned: none of them is ever closed by the
\* server, so each one keeps its file descriptor.
Accepted == {c \in Clients : conn[c] # "idle"} \ Elements(backlog)

\* Descriptors that will never be free again, and the workers that may have
\* a file open at the moment.
InUse   == Cardinality(Accepted) + leaked
Running == {w \in Workers : pc[w] = "run"}

Listening == mainpc \notin {"init", "create", "listen"}

-----------------------------------------------------------------------------
(* The queue of rpcqueue.cpp: a FIFO list that refuses duplicates.         *)

Enqueue(q, v) == IF v \in Elements(q) THEN q ELSE Append(q, v)

-----------------------------------------------------------------------------
Init ==
  /\ mainpc  = "init"
  /\ spawned = 0
  /\ connfd  = NoConn
  /\ queue   = <<>>
  /\ sem     = 0
  /\ owner   = Free
  /\ cl      = [w \in Workers |-> NoConn]
  /\ pc      = [w \in Workers |-> "unborn"]
  /\ conn    = [c \in Clients |-> "idle"]
  /\ backlog = <<>>
  /\ sent    = [c \in Clients |-> 0]
  /\ handled = [c \in Clients |-> 0]
  /\ leaked  = 0
  /\ status  = "running"
  /\ torn    = FALSE

-----------------------------------------------------------------------------
(* main(): creating the workers.                                           *)

Step(from, to) ==
  /\ status = "running"
  /\ mainpc = from
  /\ mainpc' = to

\* Faulty: the semaphore counts one worker more than there are.
InitThreadSemTooHigh ==
  /\ Step("init", "create")
  /\ torn'   = (torn \/ owner # Free)
  /\ owner'  = Free
  /\ sem'    = N + 1
  /\ queue'  = Enqueue(queue, spawned)
  /\ UNCHANGED <<spawned, connfd, cl, pc, clientVars, status>>

\* Faulty: the ids in the queue begin with one.
InitThreadIdsFromOne ==
  /\ Step("init", "create")
  /\ torn'   = (torn \/ owner # Free)
  /\ owner'  = Free
  /\ sem'    = N
  /\ queue'  = Enqueue(queue, spawned + 1)
  /\ UNCHANGED <<spawned, connfd, cl, pc, clientVars, status>>

\* Body of the creation loop up to pthread_create.  The two mutexes and the
\* semaphore are shared, so every iteration initialises them again, also when
\* a worker created before holds main_mutex: the lock word becomes zero.
InitThread ==
  /\ Step("init", "create")
  /\ torn'   = (torn \/ owner # Free)
  /\ owner'  = Free
  /\ sem'    = N
  /\ queue'  = Enqueue(queue, spawned)
  /\ UNCHANGED <<spawned, connfd, cl, pc, clientVars, status>>

CreateThread ==
  /\ Step("create", IF spawned + 1 = N THEN "listen" ELSE "init")
  /\ pc'      = [pc EXCEPT ![spawned] = "lock"]
  /\ spawned' = spawned + 1
  /\ UNCHANGED <<connfd, queue, sem, owner, cl, clientVars, status, torn>>

\* sem_init() or pthread_create() fails: err(2, ...) ends the process, with
\* the workers that were created.
CreateFails ==
  /\ status = "running"
  /\ mainpc \in {"init", "create"}
  /\ status' = "exited"
  /\ UNCHANGED <<mainVars, queue, sem, owner, cl, pc, clientVars, torn>>

\* server_connect: socket, bind, listen.
Listen ==
  /\ Step("listen", "accept")
  /\ UNCHANGED <<spawned, connfd, queue, sem, owner, cl, pc, clientVars,
                 status, torn>>

\* The name of the host is not known, or socket, setsockopt, bind or listen
\* fails: exit() or err() in server_connect, or err() on the -1 it returns.
ListenFails ==
  /\ status = "running"
  /\ mainpc = "listen"
  /\ status' = "exited"
  /\ UNCHANGED <<mainVars, queue, sem, owner, cl, pc, clientVars, torn>>

-----------------------------------------------------------------------------
(* main(): the accept loop.                                                *)

Accept ==
  /\ Step("accept", "semwait")
  /\ backlog # <<>>
  /\ InUse < FdLimit
  /\ connfd'  = Head(backlog)
  /\ backlog' = Tail(backlog)
  /\ UNCHANGED <<spawned, queue, sem, owner, cl, pc, conn, sent, handled,
                 leaked, status, torn>>

\* Faulty: a failed accept() leaves the last descriptor in connfd.
AcceptFailsKeepsFd ==
  /\ Step("accept", "semwait")
  /\ InUse + Cardinality(Running) >= FdLimit
  /\ UNCHANGED <<spawned, connfd, queue, sem, owner, cl, pc, clientVars,
                 status, torn>>

\* With no descriptor left accept() returns -1 at once; files that requests
\* have open at the moment may have taken the last ones.  The return value is
\* not tested.
AcceptFails ==
  /\ Step("accept", "semwait")
  /\ InUse + Cardinality(Running) >= FdLimit
  /\ connfd' = BadFd
  /\ UNCHANGED <<spawned, queue, sem, owner, cl, pc, clientVars, status, torn>>

SemWait ==
  /\ Step("semwait", "lock")
  /\ sem > 0
  /\ sem'    = sem - 1
  /\ UNCHANGED <<spawned, connfd, queue, owner, cl, pc, clientVars, status,
                 torn>>

\* Faulty: does not wait for the mutex.
MainLockByForce ==
  /\ Step("lock", "assign")
  /\ owner'  = Main
  /\ UNCHANGED <<spawned, connfd, queue, sem, cl, pc, clientVars, status, torn>>

MainLock ==
  /\ Step("lock", "assign")
  /\ owner = Free
  /\ owner'  = Main
  /\ UNCHANGED <<spawned, connfd, queue, sem, cl, pc, clientVars, status, torn>>

\* Faulty: the worker's id stays in the queue.
AssignWithoutDequeue ==
  /\ Step("assign", "unlock")
  /\ owner = Main
  /\ queue # <<>>
  /\ LET w == Head(queue) IN
       /\ cl' = [cl EXCEPT ![w] = connfd]
       /\ pc' = [pc EXCEPT ![w] = IF pc[w] = "waiting" THEN "lock" ELSE @]
  /\ UNCHANGED <<spawned, connfd, queue, sem, owner, clientVars, status, torn>>

\* Faulty: the condition variable is not signalled.
AssignWithoutSignal ==
  /\ Step("assign", "unlock")
  /\ owner = Main
  /\ queue # <<>>
  /\ queue' = Tail(queue)
  /\ cl'    = [cl EXCEPT ![Head(queue)] = connfd]
  /\ UNCHANGED <<spawned, connfd, sem, owner, pc, clientVars, status, torn>>

\* dequeue, thread->cl = connfd, pthread_cond_signal: a worker that is not
\* blocked on its condition variable yet does not see the signal.
Assign ==
  /\ Step("assign", "unlock")
  /\ owner = Main
  /\ queue # <<>>
  /\ LET w == Head(queue) IN
       /\ queue' = Tail(queue)
       /\ cl'    = [cl EXCEPT ![w] = connfd]
       /\ pc'    = [pc EXCEPT ![w] = IF pc[w] = "waiting" THEN "lock" ELSE @]
  /\ UNCHANGED <<spawned, connfd, sem, owner, clientVars, status, torn>>

MainUnlock ==
  /\ Step("unlock", "accept")
  /\ owner'  = Free
  /\ UNCHANGED <<spawned, connfd, queue, sem, cl, pc, clientVars, status, torn>>

-----------------------------------------------------------------------------
(* server_start(): a worker.                                               *)

Go(w, from, to) ==
  /\ status = "running"
  /\ pc[w] = from
  /\ pc' = [pc EXCEPT ![w] = to]

\* pthread_mutex_lock, or the lock pthread_cond_wait takes before it returns.
WorkerLock(w) ==
  /\ Go(w, "lock", "check")
  /\ owner = Free
  /\ owner' = w
  /\ UNCHANGED <<mainVars, queue, sem, cl, clientVars, status, torn>>

\* while (thread->cl == 0)
CheckIdle(w) ==
  /\ Go(w, "check", "condwait")
  /\ cl[w] = NoConn
  /\ UNCHANGED <<mainVars, queue, sem, owner, cl, clientVars, status, torn>>

CheckBusy(w) ==
  /\ Go(w, "check", "unlock")
  /\ cl[w] # NoConn
  /\ UNCHANGED <<mainVars, queue, sem, owner, cl, clientVars, status, torn>>

\* pthread_cond_wait: unlock the mutex and block, in one step.
CondWait(w) ==
  /\ Go(w, "condwait", "waiting")
  /\ owner' = Free
  /\ UNCHANGED <<mainVars, queue, sem, cl, clientVars, status, torn>>

\* POSIX lets pthread_cond_wait return without a signal.
SpuriousWakeup(w) ==
  /\ Go(w, "waiting", "lock")
  /\ UNCHANGED <<mainVars, queue, sem, owner, cl, clientVars, status, torn>>

WorkerUnlock(w) ==
  /\ Go(w, "unlock", "recv")
  /\ owner' = Free
  /\ UNCHANGED <<mainVars, queue, sem, cl, clientVars, status, torn>>

\* recv_loop returns 6: there is a request.
RecvRequest(w) ==
  /\ Go(w, "recv", "run")
  /\ cl[w] \in Clients
  /\ handled[cl[w]] < sent[cl[w]]
  /\ UNCHANGED <<mainVars, queue, sem, owner, cl, clientVars, status, torn>>

\* server_run, with its reply.  Its error paths, and a clear request, leave
\* files open that it opened.
Request(w) == <<cl[w], handled[cl[w]] + 1>>
Run(w) ==
  /\ Go(w, "run", "recv")
  /\ Request(w) \notin FatalRequests
  /\ handled' = [handled EXCEPT ![cl[w]] = @ + 1]
  /\ leaked' \in leaked .. MaxLeaks
  /\ leaked' # leaked => Cardinality(Accepted) + leaked' <= FdLimit
  /\ UNCHANGED <<mainVars, queue, sem, owner, cl, conn, backlog, sent, status,
                 torn>>

\* A request whose run is the end of the process: INT64_MIN / -1 (SIGFPE), or
\* the name NULL, for an empty one, in a set request (SIGSEGV).
RunIsFatal(w) ==
  /\ status = "running"
  /\ pc[w] = "run"
  /\ Request(w) \in FatalRequests
  /\ status' = "exited"
  /\ UNCHANGED <<mainVars, queue, sem, owner, cl, pc, clientVars, torn>>

\* Faulty: a closed connection is noticed before its last requests are run.
RecvEofEarly(w) ==
  /\ Go(w, "recv", "clear")
  /\ cl[w] \in Clients
  /\ conn[cl[w]] \in {"closed", "reset"}
  /\ UNCHANGED <<mainVars, queue, sem, owner, cl, clientVars, status, torn>>

\* recv_loop returns less than 6: the client closed its end.  The connection
\* is not closed on this side.
RecvEof(w) ==
  /\ Go(w, "recv", "clear")
  /\ cl[w] \in Clients
  /\ conn[cl[w]] \in {"closed", "reset"}
  /\ handled[cl[w]] = sent[cl[w]]
  /\ UNCHANGED <<mainVars, queue, sem, owner, cl, clientVars, status, torn>>

\* Faulty: recv() of a closed connection, which is 0, taken for an error.
ConnErrorOnEof(w) ==
  /\ status = "running"
  /\ pc[w] \in {"recv", "run"}
  /\ \/ cl[w] = BadFd
     \/ cl[w] \in Clients /\ conn[cl[w]] \in {"closed", "reset"}
  /\ status' = "exited"
  /\ UNCHANGED <<mainVars, queue, sem, owner, cl, pc, clientVars, torn>>

\* recv() returns -1 and err(1, ...) ends the process; or send() to a
\* connection the client reset raises SIGPIPE, which nothing handles.
ConnError(w) ==
  /\ status = "running"
  /\ pc[w] \in {"recv", "run"}
  /\ \/ cl[w] = BadFd
     \/ cl[w] \in Clients /\ conn[cl[w]] = "reset"
  /\ status' = "exited"
  /\ UNCHANGED <<mainVars, queue, sem, owner, cl, pc, clientVars, torn>>

\* thread->cl = 0, with no lock held.
ClearCl(w) ==
  /\ Go(w, "clear", "relock")
  /\ cl' = [cl EXCEPT ![w] = NoConn]
  /\ UNCHANGED <<mainVars, queue, sem, owner, clientVars, status, torn>>

Relock(w) ==
  /\ Go(w, "relock", "enqueue")
  /\ owner = Free
  /\ owner' = w
  /\ UNCHANGED <<mainVars, queue, sem, cl, clientVars, status, torn>>

EnqueueSelf(w) ==
  /\ Go(w, "enqueue", "release")
  /\ owner = w
  /\ queue' = Enqueue(queue, w)
  /\ UNCHANGED <<mainVars, sem, owner, cl, clientVars, status, torn>>

\* Faulty: the mutex is not released.
ReleaseForgotten(w) ==
  /\ Go(w, "release", "post")
  /\ UNCHANGED <<mainVars, queue, sem, owner, cl, clientVars, status, torn>>

Release(w) ==
  /\ Go(w, "release", "post")
  /\ owner' = Free
  /\ UNCHANGED <<mainVars, queue, sem, cl, clientVars, status, torn>>

\* Faulty: the semaphore is not posted.
SemPostForgotten(w) ==
  /\ Go(w, "post", "lock")
  /\ UNCHANGED <<mainVars, queue, sem, owner, cl, clientVars, status, torn>>

SemPost(w) ==
  /\ Go(w, "post", "lock")
  /\ sem' = sem + 1
  /\ UNCHANGED <<mainVars, queue, owner, cl, clientVars, status, torn>>

\* The queue used by a thread that does not hold main_mutex (it was torn from
\* it), or dequeue() of an empty queue, whose -1 would index threads[]: what
\* follows is undefined and is not modelled further.
Undefined ==
  /\ status = "running"
  /\ \/ mainpc = "assign" /\ (owner # Main \/ queue = <<>>)
     \/ \E w \in Workers : pc[w] = "enqueue" /\ owner # w
  /\ status' = "undefined"
  /\ UNCHANGED <<mainVars, queue, sem, owner, cl, pc, clientVars, torn>>

-----------------------------------------------------------------------------
(* The clients.                                                            *)

\* Connections are numbered in the order in which they come, as the kernel
\* numbers their descriptors: none is ever free again.
Connect(c) ==
  /\ status = "running"
  /\ Listening
  /\ conn[c] = "idle"
  /\ \A d \in Clients : d < c => conn[d] # "idle"
  /\ conn'    = [conn EXCEPT ![c] = "open"]
  /\ backlog' = Append(backlog, c)
  /\ UNCHANGED <<mainVars, queue, sem, owner, cl, pc, sent, handled, leaked,
                 status, torn>>

Send(c) ==
  /\ status = "running"
  /\ conn[c] = "open"
  /\ sent[c] < MaxRequests
  /\ sent' = [sent EXCEPT ![c] = @ + 1]
  /\ UNCHANGED <<mainVars, queue, sem, owner, cl, pc, conn, backlog, handled,
                 leaked, status, torn>>

\* A client that has its replies closes the connection.
Close(c) ==
  /\ status = "running"
  /\ conn[c] = "open"
  /\ handled[c] = sent[c]
  /\ conn' = [conn EXCEPT ![c] = "closed"]
  /\ UNCHANGED <<mainVars, queue, sem, owner, cl, pc, backlog, sent, handled,
                 leaked, status, torn>>

\* A client goes away with replies outstanding or unread.
Reset(c) ==
  /\ status = "running"
  /\ conn[c] = "open"
  /\ conn' = [conn EXCEPT ![c] = "reset"]
  /\ UNCHANGED <<mainVars, queue, sem, owner, cl, pc, backlog, sent, handled,
                 leaked, status, torn>>

-----------------------------------------------------------------------------
MainNext ==
  \/ InitThread \/ CreateThread \/ CreateFails \/ Listen \/ ListenFails
  \/ Accept \/ AcceptFails \/ SemWait \/ MainLock \/ Assign \/ MainUnlock

WorkerNext(w) ==
  \/ WorkerLock(w) \/ CheckIdle(w) \/ CheckBusy(w) \/ CondWait(w)
  \/ SpuriousWakeup(w) \/ WorkerUnlock(w)
  \/ RecvRequest(w) \/ Run(w) \/ RunIsFatal(w) \/ RecvEof(w) \/ ConnError(w)
  \/ ClearCl(w) \/ Relock(w) \/ EnqueueSelf(w) \/ Release(w) \/ SemPost(w)

ClientNext(c) == Connect(c) \/ Send(c) \/ Close(c) \/ Reset(c)

Next ==
  \/ MainNext
  \/ \E w \in Workers : WorkerNext(w)
  \/ Undefined
  \/ \E c \in Clients : ClientNext(c)

Spec == Init /\ [][Next]_vars

(***************************************************************************)
(* Fairness.  Threads are scheduled: a step a thread can take without      *)
(* waiting for another is taken.  Taking the mutex is strongly fair: a     *)
(* thread that contends for it gets it in the end, although other threads  *)
(* (woken spuriously, again and again) may take it in between.  Clients    *)
(* need not connect or send, but one that got its replies hangs up: N      *)
(* connections left open would keep all the workers.                       *)
(***************************************************************************)
Fairness ==
  /\ WF_vars(MainNext /\ mainpc # "lock")
  /\ SF_vars(MainLock)
  /\ \A w \in Workers :
       /\ WF_vars(WorkerNext(w) /\ pc[w] \notin {"lock", "relock", "waiting"})
       /\ SF_vars(WorkerLock(w))
       /\ SF_vars(Relock(w))
  /\ \A c \in Clients : WF_vars(Close(c))

FairSpec == Spec /\ Fairness

-----------------------------------------------------------------------------
(* What is expected of it.                                                 *)

TypeOK ==
  /\ mainpc \in {"init", "create", "listen", "accept", "semwait", "lock",
                 "assign", "unlock"}
  /\ spawned \in 0 .. N
  /\ connfd \in Clients \cup {NoConn, BadFd}
  /\ queue \in Seq(Workers)
  /\ sem \in Int
  /\ owner \in Workers \cup {Main, Free}
  /\ cl \in [Workers -> Clients \cup {NoConn, BadFd}]
  /\ pc \in [Workers -> {"unborn", "lock", "check", "condwait", "waiting",
                         "unlock", "recv", "run", "clear", "relock",
                         "enqueue", "release", "post"}]
  /\ conn \in [Clients -> {"idle", "open", "closed", "reset"}]
  /\ backlog \in Seq(Clients)
  /\ sent \in [Clients -> Nat]
  /\ handled \in [Clients -> Nat]
  /\ leaked \in 0 .. MaxLeaks
  /\ status \in {"running", "exited", "undefined"}
  /\ torn \in BOOLEAN

\* The semaphore and the queue agree although they change at different
\* times: whenever sem_wait() let main() through, an idle thread id is in the
\* queue, so that dequeue() never returns -1 (rpcmain.cpp, accept loop).
DispatchFindsWorker ==
  mainpc \in {"lock", "assign"} => queue # <<>>

\* Every thread id in the queue stands for a ticket: one in the semaphore,
\* the one main() has taken, or one a worker is about to post.  A worker that
\* came back without its post would never be used again, and the connections
\* behind it would wait (rpcserver.cpp, sem_post; rpcmain.cpp, sem_wait).
Starting == mainpc \in {"init", "create"}
Posting == {w \in Workers : pc[w] \in {"release", "post"}}
Tickets ==
  /\ sem >= 0
  /\ ~Starting =>
       Len(queue) = sem + Cardinality(Posting)
                    + IF mainpc \in {"lock", "assign"} THEN 1 ELSE 0

\* A thread id in the queue is there once, and belongs to a worker that was
\* given no connection: assigning thread->cl never overwrites the connection
\* of a client that is being served.
QueuedWorkersAreIdle ==
  /\ \A i, j \in DOMAIN queue : queue[i] = queue[j] => i = j
  /\ \A w \in Elements(queue) :
       /\ cl[w] = NoConn
       /\ pc[w] \notin {"recv", "run", "clear", "relock", "enqueue"}

\* No connection is served by two workers at a time, and the one main() has
\* just accepted is served by none.
OneWorkerPerConnection ==
  /\ \A v, w \in Workers : cl[v] = cl[w] /\ cl[v] \in Clients => v = w
  /\ mainpc \in {"semwait", "lock", "assign"} /\ connfd \in Clients =>
       \A w \in Workers : cl[w] # connfd

\* The critical sections of main_mutex exclude each other, unless one of its
\* initialisations found it held.
InWorkerSection(w) == pc[w] \in {"check", "condwait", "unlock", "enqueue", "release"}
InMainSection == mainpc \in {"assign", "unlock"}
MutualExclusion ==
  ~torn =>
    /\ \A v, w \in Workers : InWorkerSection(v) /\ InWorkerSection(w) => v = w
    /\ \A w \in Workers : ~(InWorkerSection(w) /\ InMainSection)

\* A worker that was given a connection does not sleep, or decide to sleep,
\* on its condition variable: no signal of main() is lost.
NoLostSignal ==
  ~torn => \A w \in Workers :
             cl[w] # NoConn => pc[w] \notin {"condwait", "waiting"}

\* The comment at the wait loop of server_start, taken at its word: a thread
\* waits "while it is not being used".
UsedThreadDoesNotWait ==
  \A w \in Workers : cl[w] # NoConn => pc[w] \notin {"condwait", "waiting"}

\* The process ends only if it did not start, because of one request or one
\* client that reset its connection, or because accept() failed when the
\* descriptors that files of the N workers do not need were used up
\* (rpcserver.cpp and rpcio.cpp, all that ends in err(), exit() or a signal).
ExitHasCause ==
  status = "exited" =>
    \/ ~Listening
    \/ \E c \in Clients : conn[c] = "reset"
    \/ \E w \in Workers : pc[w] = "run" /\ Request(w) \in FatalRequests
    \/ (\E w \in Workers : cl[w] = BadFd) /\ InUse + N >= FdLimit

\* README: once the server runs, client programs can be run to connect with
\* it.  When a client waits to be accepted, accept() fails only if as many
\* connections as there are descriptors are still in use, by a client or a
\* worker (rpcserver.cpp, the end of the loop of server_start).
InService == {c \in Accepted : conn[c] = "open" \/ \E w \in Workers : cl[w] = c}
WaitingClientsAreAccepted ==
  [][mainpc = "accept" /\ mainpc' # "accept" /\ connfd' = BadFd /\ backlog # <<>> =>
       Cardinality(InService) >= FdLimit]_vars

\* A worker keeps its connection until the client is gone and every request
\* it sent has been run.
ServedToTheEnd ==
  [][\A w \in Workers :
       cl[w] \in Clients /\ cl'[w] # cl[w] =>
         /\ conn[cl[w]] \in {"closed", "reset"}
         /\ handled[cl[w]] = sent[cl[w]]]_vars

\* When requests are waiting, there comes a time when all of them have been run
\* (each client sends a bounded number), also when there are more clients than
\* workers, as long as the process runs and the mutex was not torn.
Undisturbed == [](~torn /\ status = "running")
EveryRequestRuns ==
  Undisturbed =>
    ((\E c \in Clients : handled[c] < sent[c]) ~> (\A c \in Clients : handled[c] = sent[c]))

\* Every worker that was given a connection is back in the queue in the end.
WorkersReturn ==
  Undisturbed => \A w \in Workers : (cl[w] # NoConn) ~> (w \in Elements(queue))

-----------------------------------------------------------------------------
(* The dispatcher implements the pool of WorkerPool.                       *)

InHand == IF mainpc \in {"semwait", "lock", "assign"} THEN {connfd} ELSE {}

poolWaiting == Elements(backlog) \cup (InHand \cap Clients)

Pool == INSTANCE WorkerPool WITH
  waiting <- poolWaiting,
  served  <- {c \in Clients : conn[c] # "idle"} \ poolWaiting,
  serving <- cl

PoolSpec == Pool!Spec
=============================================================================
