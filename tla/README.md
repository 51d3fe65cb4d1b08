# rpc-server in TLA+

TLA+ modules for `rpc-server`: a multi-threaded server (C++, pthreads, sockets)
that runs requests of clients on numbers, on variables it keeps in a key-value
store with a log, and on files. This page says what the system consists of,
which module models which part, what the model checker and the proof system
established, and what is left.

Line numbers refer to the files in `src/`.

## 1. The system

| Part | State | Operations | What makes it correct |
|---|---|---|---|
| `main()` (rpcmain.cpp) | loop index, `connfd` | create the workers, `listen`, then for ever `accept`, `sem_wait`, `dequeue`, assign, signal | each connection goes to one idle worker; `dequeue` finds one |
| workers, `server_start` (rpcserver.cpp 1113-1159) | `thread->cl`, `thread->cv` | wait for a connection, run its requests, return to the queue | no signal is lost, a connection is served to its end, the worker returns |
| queue of idle workers (rpcqueue.cpp) | linked list of ids | `enqueue` (refuses duplicates), `dequeue` | FIFO, each id at most once |
| requests, `server_run` (rpcserver.cpp 68-1110) | local variables, `kvs_mutex` | decode, look operands up, compute, store, reply | each request is atomic, recursion ends |
| arithmetic (rpcmath.cpp) | none | `add` `sub` `mul` `divide` `mod` | exact results, or a status that says why not |
| key-value store (rpckeyvaluestore.cpp 1-508, 875-893) | hash table of linked lists, `num_keys`, `num_items` | insert, delete, four lookups, clear | it is a map |
| log, dump, load (rpckeyvaluestore.cpp 518-867) | `log.txt`, `*logfd` | append, replay, clear, dump, load | a restart brings the variables back |
| files (rpcfile.cpp) | none; files of the system | read, write, create, filesize | chunks add up to the request |
| framing (rpcio.cpp, rpcconvert.cpp, rpcserver.cpp 99-214) | the byte stream of a connection | receive and send numbers and strings | server and client agree where a request ends |

How they interact: `main()` and the workers share the queue and each worker's
`cl` under `main_mutex`; the semaphore `dispatch_lock` counts idle workers; a
condition variable per worker wakes it. Workers share the store and the log
under `kvs_mutex`. Nothing protects files. `err()` in any thread ends the whole
process.

What is hard here: the interleaving of `main()` and the workers around three
synchronisation objects; the process ending between the change of the store and
the line in the log; requests of several clients on the same variables; chains
and circles of names; errors that are returned in the place of results; names
and numbers at the limits of their width; reads and writes of files in chunks,
each of which opens the file again while other workers change it; connections
that end inside a request. `PROJECT.json` lists these hazards
line by line, with the properties that watch them.

## 2. The modules

| Module | Models | Checked by |
|---|---|---|
| `WorkerPool` | promise of the dispatcher: connections arrive, are taken by free workers, are finished | as `PoolSpec` of `Dispatch` |
| `Dispatch` | `main()` and `server_start`, step by step, with clients | `MCDispatch`, `MCDispatchQueue` |
| `WorkerQueue` | the linked list of rpcqueue.cpp: nodes, `front`, `back`, `num_items`, freed memory | in `DispatchQueue` |
| `DispatchQueue` | the dispatcher with that list as its queue | `MCDispatchQueue` |
| `DispatchProofs` | inductive invariants and theorems of `Dispatch` and `DispatchQueue` | tlapm |
| `Bindings` | what a variable holds, and what lookups say of it | (used by the next ones) |
| `KeyValueMap` | promise of the store: a map | as `ImplementsMap` of `KeyValueStore` |
| `KeyValueStore` | the hash table with its lists and counters | `MCKeyValueStore` |
| `KeyValueStoreProofs` | theorems of `KeyValueStore` | tlapm |
| `VariableLog` | store, `log.txt`, dump and load files, end and restart of the process | `MCVariableLog` |
| `VariableLogProofs` | inductive invariant and theorems of `VariableLog` | tlapm |
| `MathFunctions` | rpcmath.cpp and the overflow test of `server_run`, as operators | |
| `MathFunctionsProofs` | lemmas about them: the guards are exact | tlapm |
| `Arithmetic` | an arithmetic request on two numbers | `MCArithmetic` |
| `ArithmeticProofs` | theorems of `Arithmetic` | tlapm |
| `AtomicRequests` | promise of requests on variables: each takes effect at one moment | as `RequestsAreAtomic` of `RpcRequest` |
| `RpcRequest` | workers inside `server_run`, lookup by lookup, under `kvs_mutex` | `MCRpcRequest` |
| `RpcRequestProofs` | inductive invariant and theorems of `RpcRequest` | tlapm |
| `Wire` | numbers and names on a connection (rpcconvert.cpp, rpcio.cpp), as operators | (used by the next ones) |
| `RequestFormat` | how many bytes a request has, for the client and for `server_run` | |
| `Files` | the calls of rpcfile.cpp on the content of one file, as operators | |
| `Connection` | workers on their connections: framing, requests on files chunk by chunk | `MCConnection` |
| `ConnectionProofs` | inductive invariant and theorems of `Connection` and `RequestFormat` | tlapm |
| `Induction` | induction, recursive functions and sums, for the proofs | tlapm |

Definitions called "Faulty" in a comment are versions of the definition below
them with a plausible bug. `PROJECT.json` pairs each property with one that
breaks it; they are not part of the specifications.

### Dispatch

`mainpc` and `pc[w]` are the places in the code between which another thread can
interleave; each action is the code up to the next one and carries the name of
what it does (`SemWait`, `MainLock`, `Assign`, ...).

- `InitThread` is the body of the creation loop up to `pthread_create`. It
  initialises `main_mutex` and the semaphore *every time*. With glibc this
  zeroes the lock word whoever holds it: `owner' = Free`, and the history
  variable `torn` records if somebody did hold it. `unlock` does not check who
  calls it, so a worker that lost the mutex goes on. If a thread then uses the
  queue without the mutex, the behaviour is undefined, and the model stops there
  (`status = "undefined"`). Threads asleep on the old lock word are not modelled.
- `CondWait` unlocks and blocks in one step, as POSIX says; `SpuriousWakeup`
  lets it return for no reason, as POSIX also says.
- A request is a count here: `RecvRequest`, `Run`. `server_run` is taken to end
  (see `RpcRequest`, `EveryCallReturns`).
- What can go wrong before the server listens ends the process: `CreateFails`
  (`sem_init`, `pthread_create`; workers created before may be anywhere) and
  `ListenFails` (any error in `server_connect`).
- The server never calls `close()` on a connection, so `Accepted` only grows; the
  error paths of rpcfile.cpp (34, 39, 45) and a clear request leave descriptors
  of files open (`leaked`, up to the bound `MaxLeaks`); and each worker that runs a request
  may have a file open at the moment (`Running`). When these may have used up the
  `FdLimit` descriptors, `accept()` may return -1 at once (Linux: EMFILE), and -1 is
  dispatched like a connection. Clients connect in the order of their numbers.
- `RunIsFatal`: a request of the constant `FatalRequests` ends the process with a signal.
  The code has two: INT64_MIN divided by -1 (rpcserver.cpp 643), and an empty
  name to set, which is a null pointer (817).
- `ConnError`: `recv()` on -1 or on a connection the client reset ends the
  process through `err(1, ...)`; a `send()` on it raises SIGPIPE. A client that
  resets may also be seen as end of file: both are possible.

### WorkerQueue, DispatchQueue

`cell` is the memory: what a node allocated from it holds, or NULL while it is
free; `front` and `back` are cells or NULL. Each call of `enqueue` and `dequeue`
is one step, because `main_mutex` is held (or the model has stopped, if the mutex
was torn). `WorkerQueue` has no next-state relation of its own: `DispatchQueue`
says which call goes with which step of `Dispatch` (`InitThread`, `EnqueueSelf`,
`Assign`) and that the list does not change otherwise. `DispatchQueue` adds no
guard: the steps of `Dispatch` remain possible as long as the list follows them.

### KeyValueStore

A list is the sequence of its nodes, head first. A call is one action, because
every caller holds `kvs_mutex`. `Matches`, `KeyEnds`, `NameEnds` and `nameEnd` are about names
of 31 characters, the longest that are accepted: `strncpy(.., 31)` leaves byte 31
of the node as `malloc` delivered it. A key of up to 30 characters ends before it
(`KeyEnds`); the name a variable is bound to may be overwritten by a longer one, so
that its last byte matters whatever the first name was, unless no name has 31
characters (`NameEnds`). `Hash` is a constant: any function from names to lists. `Clear`
deletes the key of every node, as the code does: a node of `Unterminated` may hash
to another list than its own, and then stays; `ElementsAt` is what is left of a list.

### VariableLog

`log` is the content of the file called `log.txt`, `logfd` tells whether the
descriptor the server writes to is that file or one that was unlinked. A request
changes `map` in one step (`Set`, `Delete`, `Load`, `LoadRefused`, `Clear`) and then
writes its lines one `write()` at a time. `Crash` can come between any two steps;
`map` then keeps what the store was, to compare with. `OpenFails`, `AppendFails`,
`UnlinkFails`, `DumpFails` are the calls that return -1. `lost` collects the
variables whose last change did not get into `log.txt`: the line could not be
written (`AppendFails`), was written to the unlinked file, was a deletion by a load
(which `log_key_value_store` does not log), belonged to a refused load, or is still in
the log because a clear could not remove it.

A dump opens the file (`Dump`), writes a line at a time from its start (`DumpLine`), and closes it
(`DumpCloses`); it may fail at each of these (`DumpFails`), or the process may end, with the
lines written until then in the file. `dump` is history: which file, whether it held
nothing before, and how many of its lines are new. The file is not truncated: behind
the new lines is what is `Left` of the old ones.

Abstractions: a line is written as a whole or not at all; the machine itself does
not go down; whether a line is accepted is a property of the line; lines have no
length, so that a new one may cover any number of old ones, and end inside one, of
which the end is then not a line or one about another variable (`EndsOf`); the lines of
a dump or a load come in any order.

### MathFunctions, Arithmetic

The width is the constant `MaxInt`. Signed overflow is undefined in C++: the
model uses what the build produces (wrap-around for addition, subtraction and
multiplication; for INT64_MIN / -1, a trap on x86 or wrap-around on ARM, either).
`Exact` is the mathematical result and the reference for the properties.

### RpcRequest, AtomicRequests

A worker's path through `server_run`: `Receive`, `Lock`, per operand
`ResolveOperand` or `StartLoop`, `Follow` (one iteration of the do-while loop),
`EndLoop`; then `Compute`, `InsertResult`, `Unlock`, `Reply`; `SetVariable`,
`DeleteVariable`, `GetVariable` for the other requests. `var`, `temp`, `iter`, `val`
are the variables of the code. The five arithmetic branches of `server_run`
(216-770) are copies of each other; the model has one, with the operation as a
parameter. The request is taken as received whole, with valid names, empty ones
only for operands.

`get` sends the name through a pointer into the store *after* unlocking. If the
variable changes before the reply is out, what is sent is undefined: `Unknown`.
`AtomicRequests` promises the name only if it does not change.

### Wire, RequestFormat, Files, Connection

A connection is a sequence of requests, each with the number of bytes that
arrive (`got`); only the last one can be cut, and then the client sends nothing
more. Because every receiving function of rpcio.cpp loops until its bytes came or
the client is gone, it makes no difference *when* the bytes of a request come.
`Decoded` is what `server_run` makes of the bytes it got: each field is received
into zeros, so that a missing number is 0, a number of which the high bytes came
loses the others, and a name ends where the connection did. A chunk of a write is taken when its bytes came
or the client is gone (`ChunkCame`).

`RequestFormat` states the length of a request twice: `BytesOf` from what a client
sends, `Expected` from the bits of the opcode, as in rpcserver.cpp 107-187, where the
operands of every opcode 0x01XX are received before any branch looks at the operation.
`HasItsOperands` says what clients send and nothing of the server: for arithmetic the operands that the
four flags announce, one name to get or delete, two to set, whatever flags are
added, and nothing for an operation that does not exist. `rest` is the difference
(`Leftover`; below zero if the server took bytes that follow the request), plus what a failed
write left. If it is not zero, the next "request" does not begin where one begins:
`GoAstray`, where the model stops for that connection.

A read request is `Begin`, `StatFile` and `StartRead` or `RefuseRead` (the call of
`filesize()` before the loop), then for each chunk `StatFile` and `ReadChunk`: a
call of `read()` in rpcfile.cpp is two steps, because `stat()` and `open()` see
the file at different moments. If the file did not exist for `stat()`, `st_size` is
not initialised: any value of the constant `Garbage`. `open()` may be denied each time
(`Outcomes`, the constant `OpensFail`): no descriptor is left, or there is no permission; EMFILE stands
for all such errors. `job[w]` holds the local
variables of `server_run` (`left` is `bytes_remaining`, `at` the offset) and what
was sent. A byte in a file is written as a pair, who wrote it and *for which
position*; that is what `BytesAreInPlace` compares with the place where it is.
The requests that the constants name are requests a client can make, and the bytes
that arrive of a request that is cut are fewer than it has. Names are sequences of characters, so that part
of a name is one too. `start`, `short` and `alone` are history: the length of the file when the request
came, whether `write()` took less than a chunk, whether nobody else wrote to the
file since. The job is kept until the next request, to compare the answer with.

Abstractions: requests on variables, dump, load and clear are answered in one step
here, and none of the files is dumped to; the client reads what it is sent;
`lseek()`, `close()` and reading an open file succeed; the content of a read or
written chunk is one step (the kernel's lock on the file).

## 3. What the runs check

Bounds are named constants; each is large enough for the case it is there for.

| Run | Instance | Shows |
|---|---|---|
| `dispatch_safety` | 2 workers, 3 clients, 2 requests each of which one is fatal, 4 descriptors, 1 leak, 2 nodes of memory; 6.8 million states | The safety properties of the next paragraph. Three clients for two workers make workers serve a second connection; connections, a leaked file and the files of running requests make `accept()` fail while all is busy. `ListHoldsQueue`, `ListIsSound`: the list in memory is the queue, at lengths 0, 1 and 2, emptied and filled again, with cells that are used again. |
| `dispatch_live` | 2 workers, 3 clients, 1 request each, that of the first client fatal, 5 descriptors; 349 000 states | `EveryRequestRuns`, `WorkersReturn`: the third connection waits in `sem_wait` until a worker comes back, and is served in the end. |
| `store_map` | 2 lists, 3 names, 2 of them in one list, numbers 0 and 2 (= ENOENT), at most 4 counted keys; 3 400 states | Lists of length two, deletion at the head and behind it, overwriting in both directions. |
| `log_crash` | 2 variables, one file with four possible contents, log of 3 lines, dumps that leave up to 2 lines, failing calls; 7.4 million states | What restarts bring back, and what a dump of 0, 1 or 2 lines over a new or an old file holds. |
| `arithmetic_exact` | all pairs of 8-bit numbers, errno values of Linux | Five operations, all cases. |
| `requests_atomic` | 2 workers, 2 variables, 4 requests out of 8 kinds, 3 iterations | Atomicity and termination, with chains and circles of names. |
| `files` | 2 workers, 2 requests out of 25 (4 of arithmetic, with every flag set and not set and names of 0, 31 and 32 bytes; 8 on names, among them 0x0188, 0x0189, 0x018F and 0x0100; 10 on files), a buffer of 2 bytes, files `a` (4 bytes) and `ab` (created by requests), `open()` that fails, failing and short writes, 12 ways to cut a request; bytes have 3 values, so that a size of 4 fills both its bytes; 385 000 states | Framing, and requests on files with up to three chunks, while the other worker writes, creates or reads. |
| `dispatch_torn`, `dispatch_fds`, `store_long_names`, `log_clear`, `files_endless` | small | Section 5. |

`CHECK_DEADLOCK FALSE` where the system may stop: the process ended or was killed,
or the bounded clients have nothing more to send. `store_map`, `log_crash` and
the violation runs of these modules check deadlock.

Safety of the dispatcher: `DispatchFindsWorker` (semaphore and queue agree, though
they change at different times), `QueuedWorkersAreIdle`, `OneWorkerPerConnection`,
`MutualExclusion` and `NoLostSignal` (unless the mutex was torn), `ExitHasCause` (the process
ends only if it did not start, a client reset its connection, a fatal request was
run, or a worker was given -1 when the descriptors were used up),
`ServedToTheEnd`, and that the dispatcher implements `WorkerPool` (`PoolSpec`), torn
or not. `Tickets` is the account behind `DispatchFindsWorker`: a worker that came back
without a post would be missing from it for ever, so that no connection waits
because a post was forgotten. The refinement mapping reads the pool's `serving` from `cl`; a connection
waits in the pool while it is in the kernel's backlog or in the hands of `main()`.

Fairness (`Dispatch`): weak for every step a thread can take without waiting,
strong for taking the mutex (spurious wake-ups of other workers may snatch it any
number of times, the scheduler does not let them do so for ever); clients owe
nothing but to hang up when they have all their replies: without that, N idle
clients would keep N workers, and the server has no timeout. In `RpcRequest`:
weak for steps inside `server_run`, strong for `kvs_mutex`. Liveness of the dispatcher
is claimed while the process runs and the mutex was not torn (`Undisturbed`). In
the run the requests of the second and the third client are the ones that have to be
run: the first one occupies a worker, and ends the process if it sends its own.
Descriptors are enough unless two files are open when all the clients are connected.

Files and framing: `NextRequestIsFound` (server and client agree where the next
request begins, for requests that are served (`IsServed`): arithmetic with every combination of
flags, get, set and delete without flags, all requests on files), `ReadIsComplete` (a read inside the file is answered with the
bytes that were announced, whatever is written meanwhile), `BytesAreInPlace`,
`WriteHasLanded` (status 0 means that the bytes are in the file), `SizeIsReal`,
`AnsweredOnce`, `OnlyAskedBytesChange` (files never shrink, and change only where a
write was told to) and `RequestsEnd`. Their exceptions are what the code does not
keep; section 5 lists them. Fairness: weak for the steps of a worker; nothing in
these requests waits for another thread. `CountMod`, the number of values of the
`uint8_t` that counts chunks, is 4 instead of 256; the assumption
`CountAssumption` (no request has that many chunks) is what matters of it, and holds
for 4096 * 255 > 65535.

Log: `CrashKeepsOldOrNew` says, at every step, that a restart now would bring back
for every variable (not in `lost`) what it was before the request in progress or
what the request made of it; `RestartRestores` says it of the restart itself.
`DumpLoadsBack` says of a dump that is about to be answered 0 that the lines it wrote replay to the
store, and the whole file does if it held nothing before; of a dump that failed or
was cut off it says nothing, as the file may then hold any part of the lines.

## 4. What is proved

Every safety invariant, every action property and every refinement that a passing
run checks is also a theorem, for every value of the constants that satisfies the
named assumptions: any number of workers, clients, requests, names, lists,
nodes, chunks and iterations. Two theorems about the store have a hypothesis more
(no name of 31 characters), without which they are false. Only the liveness properties are left to TLC (end
of this section). `PROJECT.json` lists the theorems with the property of each.

Each proof has the same plan: an inductive invariant, one lemma per action that it
is kept, `Invariance` (`Spec => []IInv`), and the properties as consequences of it.

**Dispatcher** (`DispatchProofs`; `N >= 1`, clients are positive numbers, the bounds
are natural numbers). The invariants of `Dispatch` are not inductive by themselves. That
`dequeue` succeeds is a matter of counting: semaphore, plus workers that are
about to post, plus the one `main()` has just taken, is the number of ids in the
queue; but the semaphore and the queue start full and change at different times,
and a worker counts itself in only after it is in the queue. `IInv` adds to the
type invariant
- `StartInv`: while workers are created, the others have not got connections yet;
- `QueueInv`: tickets (semaphore, posts to come, the one in the hands of `main()`)
  equal the length of the queue; ids in the queue are distinct and idle;
- `ConnInv`: connections in the backlog, in the hands of `main()`, and with workers
  are distinct, and each worker's place agrees with its `cl`;
- `LockInv`: unless torn, the owner of the mutex is who is in a section, and no
  worker with a connection waits;
- `DoneInv`, `FdInv`: a worker that is done has a client that is gone; -1 is only
  handed out when connections, leaked files and one file for each worker use up the
  descriptors (which stays so, because none is ever given back).

From it follow `TypeCorrect`, `DequeueSucceeds`, `DequeuedIsIdle`,
`ConnectionHasOneWorker`, `TicketsAddUp`, `MutexWorks` (mutual exclusion), `SignalsArrive`
(no lost signal), `ExitsHaveCauses`, `ServesToTheEnd` (an action property) and
`ImplementsPool` (each action is a step of `WorkerPool` or leaves its variables alone).

**List of idle workers** (`DispatchProofs`; finitely many cells, NULL is neither a cell
nor a node). `ListInv` says that there is a path: distinct cells, one per id of the
queue, each holding its id and the address of the next, and every other cell is
free. `Walk`, which follows the pointers from `front`, is shown by induction to go
along that path (`WalkFollowsPath`), so no history variable is needed. `ListIsQueue`
and `ListStaysSound` follow. These are about `QueueSpec`, every step of which is a
step of `Dispatch` (`QueueStepIsStep`).

**Store** (`KeyValueStoreProofs`; at least one list, `Hash` any function from names to
lists). `Counted` is enough for `TypeCorrect`, `ItemsAreCounted` and `KeysAreCounted`, with
names of 31 characters or without. Counting nodes is summing over the lists; that
a call changes the sum by what it changes in one list is `TotalOfChange` of
`Induction`. That every node is found (`NodesAreFound`) and that the hash table implements
the map of `KeyValueMap` (`StoreIsMap`) rest on `ListsAreProper`, "a list holds only names
that hash to it, and each once", and have the hypothesis `LongKeys = {}`: with a name of
31 characters both are false, as the run `store_long_names` shows for the first.

**Log** (`VariableLogProofs`; finitely many variables; `NoFile` is not the content of a file).
The invariant: for a variable not in `lost`, what replaying `log.txt` gives is the store, but
for the lines in `todo`, and never anything but the binding before the request or the
one it makes. From it `LogKeepsTheStore` (at every step) and `RestartIsFaithful` (when it happens).
Behind it stands what a replay, a fold over the lines, comes to: the last line about a
variable decides, up to the first line that is not accepted. For a dump in progress the
invariant says that the lines written and those in `todo` are together the store, each once,
and that the file has no others if it held nothing before; `DumpIsFaithful` is what that comes to
when the file is closed: it replays to the store, in whatever order the lines came.

**Arithmetic** (`MathFunctionsProofs`, `ArithmeticProofs`; the two error numbers are different, positive
and representable). For every width, results that fit are returned exactly
(`FittingResults`) and the others are refused, except for those that wrap around to
EOVERFLOW (`OtherResults`). The core are `WrapFits` (reducing an integer in range changes
nothing) and one lemma per operation that its guard is exactly "does not fit"; for
multiplication the guard divides, and `GuardOfProduct` relates quotient and
product.

**Requests on variables** (`RpcRequestProofs`; numbers are the `Ints` of the width, the marks
for "nothing" differ from the values they stand beside). `Knows` says for each place in
`server_run` what the worker's local variables have to do with the store: operands
before the one at hand have their value (`OperandsInOrder`), `var` and `temp` are the names
number `iter - 1` and `iter` of the chain that starts at the operand (`OnTheChain`,
`BehindTheLoop`), what was computed is the answer (`ResultIsKnown`). It is stated of the
*present* store, and stays true because only the owner of `kvs_mutex` changes the store
(`MutexProtects`, `OthersKnow`). `RequestsRefine` then shows that every step is one of
`AtomicRequests` or a stutter: a request takes effect at `Compute` if it stores nothing, at
`InsertResult` if it does, and all else is invisible. The chain is a recursive
function, for which `ChainFollowsNames` is the induction.

**Connections and files** (`ConnectionProofs`; requests are ones a client can make, the beginning of a name
is a name, no read has more chunks than the counter can count). `WorkerOK` says what is known
of one worker from its place: `ReadSoFar` and `InsideSoFar` what the chunks of a read behind
it have sent, `WriteSoFar` and `Landed` which bytes of a write are in the file, `GrowthOK` that
the file has not become shorter since the request came, nor since the last `stat`. `FilesInv` has
the place of every byte. The steps of other workers keep it, because files only grow, and a
write that others disturb loses `alone` (`NotDisturbed`, `NotAloneOK`). The `uint8_t` that
counts chunks does not wrap around in a read inside the file, because
`(count - 1) * BufferSize` is the number of bytes sent so far. The theorems:
`ReadsAreComplete`, `BytesStayInPlace`, `WritesLand`, `SizesAreReal`, `AnswersAreSingle`, `BytesAreKept` (an action
property) and `RequestsAreFound`. For the last, `OperandsAreTaken` shows that the server takes the bytes the client sent
for arithmetic with every combination of flags, and for get, set and delete without flags;
`NumberNeverGrows` shows that a number of which only some bytes came is not larger than the one that
was sent.

**Induction.** The library's theorems on induction take an operator as parameter, which
the provers here cannot instantiate. `Induction` states them of a *set* instead, closed under successor
(`NumberInduction`) or under adding an element (`SetInduction`); a proof names the set of what has
the property. `RecursionOverNumbers` gives recursive functions their equations, and
`SumsRecursion` does so for the sums of the community modules. All rest on
the least element of a set of numbers.

Only model-checked, because it is out of the prover's reach: liveness under fairness
(`EveryRequestRuns` and `WorkersReturn` of the dispatcher, `EveryCallReturns` of the requests on
variables, `RequestsEnd` of the connections). The five violations of section 5 are
counterexamples, and need no proof.

## 5. Where the code does not do what it says

Each has a run that finds it.

- `dispatch_torn`: main_mutex is initialised again while a worker holds it
  (rpcmain.cpp 154). The signal for its first connection can be lost, and the
  client waits until the worker wakes for no reason.
- `dispatch_fds`: connections are not closed (rpcserver.cpp 1143). With one worker and
  two descriptors, a first client hangs up and its worker goes on to the second;
  the third waits, and `accept()` fails, although only one connection is in use
  (`InService`). The result is not tested (rpcmain.cpp 176): the worker that is given -1 ends
  the process with `err(1, ...)`.
- `store_long_names`: a variable with a name of 31 characters may not be found
  again (rpckeyvaluestore.cpp 83), and can be inserted a second time.
- `log_clear`: after a clear request the server logs to a file without name
  (rpckeyvaluestore.cpp 864); the next restart loses everything set since.
- `files_endless`: a read of more than 4096 bytes one of whose chunks begins at the
  end of the file never ends (rpcserver.cpp 879): `read()` returns 0, which
  is no error, and `bytes_remaining` stays. Every 256 rounds the client gets another
  header. Requests behind it are never processed, though rpcserver.cpp 1135
  says "Continute to process requests while they exist".

The models show further limits, which the properties take into account:

- `divide()` and `mod()` refuse INT64_MIN / -1, but `server_run` then evaluates it itself
  (rpcserver.cpp 643): on x86 that ends the process (`Trap` in `Arithmetic`,
  `FatalRequests` in `Dispatch`). So does an empty name in a set request (817).
- A start-up that fails ends the process with the workers it created
  (`CreateFails`, `ListenFails`).
- INT64_MIN + (INT64_MIN + 75) is answered with 75 (`OthersAreRefused` names the
  exception).
- `num_keys` counts overwriting again (`NumKeysCoversNodes` is an inequality).
- Deletions by a load, refused loads and failed writes are not logged (`lost`).
- A dump to a file that exists is answered 0 and leaves the end of the old file behind
  the new lines (rpckeyvaluestore.cpp 606: neither O_EXCL nor O_TRUNC), so that a load
  brings old variables back; the comment at 592 promises EEXIST. `DumpLoadsBack` is about the lines that
  were written, and about the whole file if it held nothing before (`dump.fresh`).
- A dump that fails leaves the lines it wrote (rpckeyvaluestore.cpp 618-632): the file
  loads, as a part of the store.
- The name of a get request may change under way (`Unknown`).
- A read that does not stay inside the file announces as many bytes as were asked for
  (rpcserver.cpp 898, 929) and sends fewer: `ReadIsComplete` is about reads `Inside`. If
  a later chunk fails, also because `open()` is denied, a negative length goes to `send()`
  (`garbled`).
- The opcode is compared as a whole byte in places (rpcserver.cpp 111, 144, 172): get
  and delete with flags (0x0188, 0x018F) take 8 bytes more than a client sends, the second name of
  a set with flags (0x0189) is read as a number, and opcodes 0x01XX that do not exist take
  operands. `NextRequestIsFound` is about the others (`IsServed`).
- A name of a variable with more than 31 characters stays in the connection, and so
  does the rest of a write of several chunks that failed: `NextRequestIsFound` has
  these exceptions.
- A write of which the device took a part counts as complete (`short`).
- A request that was cut is run all the same, on a file with a shorter name if the
  name was cut; the part of a chunk that did not come is written as zeros.
- `filesize` of a file created between `stat()` and `open()` answers with memory that was
  never written (`SizeIsReal` is about files that existed).

## 6. Not modelled

- What is read from a connection after server and client disagree where a request
  begins: any request may come out of it.
- Errors of `lseek`, `close` and `read` in rpcfile.cpp. Which request leaks a descriptor:
  in `Dispatch` any may, in `Connection` `open()` may be denied at any time.
- Memory: `recv_string` with a terminator writes one byte more than `length` (rpcconvert.cpp
  152), one byte behind `data` in rpcserver.cpp 978 and 995. `clear_key_value_store`
  reads a node it has freed (rpckeyvaluestore.cpp 886), every line of the log leaves a FILE allocated (525).
- Whether `recv()` of 0 bytes (an empty name, a write of size 0) returns at once or waits
  for the next bytes: it is taken to return.
- The command line (rpcmain.cpp 52-111): options are constants. `-N` is cut to 8 bits,
  so `-N 256` makes no worker.
- `delete_key_value_store`, `delete_linked_list`, `delete_queue`, `recv_buffer` and the
  `get_...` functions of rpcio.cpp: never called.
- The client, a binary: the environment of `Dispatch` and `RpcRequest`. `test.sh` has no
  expectations; its first lines (50 clients adding to one variable) are what
  `RequestsAreAtomic` is about.
- Running out of memory: allocations succeed.

## 7. Plan

Done: all the modules of section 2 with their runs; the theorems for every safety
property, action property and refinement that a passing run checks.

Left, in this order:

1. `KeyValueStore` with names of 31 characters: `EveryNodeIsFound` restricted to the shorter names
   that share no list with a longer one, in place of the hypothesis `LongKeys = {}`.
2. That the parts fit together: `AtomicRequests` uses a store that is a map
   (`KeyValueMap`), and `Dispatch` a request that is one step; a composition that states it.
3. Arithmetic on variables: that a reply with status 0 is the `Exact` result for the numbers
   at the ends of the chains, from `RequestsRefine` and the lemmas of `MathFunctionsProofs`.
