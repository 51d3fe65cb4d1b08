----------------------------- MODULE Connection -----------------------------
(***************************************************************************)
(* Workers of rpc-server on their connections: which bytes server_run      *)
(* takes for a request, how the requests on files are run chunk by chunk   *)
(* with no lock, and what is sent back.  A client may send its next        *)
(* request early, and stop sending anywhere, also inside a request.        *)
(*                                                                         *)
(* A connection is a sequence of requests, the last one possibly in part:  *)
(* a call that receives n bytes blocks until they came or the client is    *)
(* gone, so that it makes no difference when the bytes of one request      *)
(* come.  What requests on variables do is in RpcRequest and VariableLog:  *)
(* here they are answered in one step, and no file of Names is dumped to.  *)
(***************************************************************************)
EXTENDS RequestFormat, Files

CONSTANTS
  Workers,      \* the worker threads, each with its connection
  Names,        \* file names: sequences of characters
  Lengths,      \* name -> length of the file in the beginning, NoFile or a number
  CountMod,     \* values of the uint8_t that counts chunks
  Requests,     \* what clients ask for
  Parts,        \* bound: requests that may be cut, and how many bytes arrive
  MaxCalls,     \* bound: requests on all connections
  WritesFail,   \* whether devices fill up
  OpensFail     \* whether open() may fail on a file that exists

FileByte == ({"old"} \cup Workers) \X (Nat \ {0}) \cup {Zero}

ASSUME RequestsAssumption ==
  \A r \in Requests : \/ r \in OnVariables /\ HasItsOperands(r)
                      \/ r \in OnFiles(Names) \/ r \in OnNames(Names) \/ r \in Others
ASSUME PartsAssumption ==
  \A p \in Parts : p.req \in Requests /\ p.got \in Nat /\ p.got < BytesOf(p.req)
ASSUME NamesAssumption ==    \* what is left of a name is a name
  /\ \A n \in Names : n \in Seq({n[i] : i \in DOMAIN n})
  /\ <<>> \in Names /\ \A n \in Names : n # <<>> => SubSeq(n, 1, Len(n) - 1) \in Names
ASSUME LengthsAssumption ==
  Lengths \in [Names -> Nat \cup {NoFile}] /\ Lengths[<<>>] = NoFile
ASSUME NoFileAssumption ==   \* no file is not a file, nor the length of one
  NoFile \notin Seq(FileByte) /\ NoFile \notin Nat
ASSUME GarbageAssumption == Garbage \subseteq Int
ASSUME BoundsAssumption  == MaxCalls \in Nat /\ CountMod \in Nat /\ CountMod > 1
ASSUME CountAssumption ==    \* 4096 * 255 > 2^16: no request has as many chunks
  \A r \in Requests : r.op = "read" => r.size <= (CountMod - 1) * BufferSize

VARIABLES
  files,    \* name -> what the file holds, shared by all workers
  stream,   \* worker -> requests on its connection that it has not begun
  open,     \* worker -> its client has not stopped sending
  calls,    \* requests the clients began to send
  rest,     \* worker -> bytes of the last request that it did not take, or
            \* below zero, that it took of what follows
  pc,       \* worker -> where server_run is
  job       \* worker -> the request it runs, or ran last

conn == <<stream, open, calls>>
vars == <<files, conn, rest, pc, job>>

NoJob == [asked |-> [op |-> "none"]]

\* A byte of a file is written down as who wrote it and for which position.
Byte(who, position) == <<who, position>>

Init ==
  /\ files  = [n \in Names |->
                 IF Lengths[n] = NoFile THEN NoFile
                 ELSE [i \in 1 .. Lengths[n] |-> Byte("old", i)]]
  /\ stream = [w \in Workers |-> <<>>]
  /\ open   = [w \in Workers |-> TRUE]
  /\ calls  = 0
  /\ rest   = [w \in Workers |-> 0]
  /\ pc     = [w \in Workers |-> "idle"]
  /\ job    = [w \in Workers |-> NoJob]

-----------------------------------------------------------------------------
(* The clients.                                                            *)

Sent(w, r, got) ==
  /\ open[w] /\ calls < MaxCalls
  /\ stream' = [stream EXCEPT ![w] = Append(@, [req |-> r, got |-> got])]
  /\ calls'  = calls + 1
  /\ UNCHANGED <<files, rest, pc, job>>

Send(w) ==
  /\ \E r \in Requests : Sent(w, r, BytesOf(r))
  /\ UNCHANGED open

SendPart(w) ==
  /\ \E p \in Parts : Sent(w, p.req, p.got)
  /\ open' = [open EXCEPT ![w] = FALSE]

HangUp(w) ==
  /\ open[w]
  /\ open' = [open EXCEPT ![w] = FALSE]
  /\ UNCHANGED <<files, stream, calls, rest, pc, job>>

-----------------------------------------------------------------------------
(* Between requests.                                                       *)

\* recv_loop for 6 bytes returned fewer: the worker leaves the connection.
ReceiveEnd(w) ==
  /\ pc[w] = "idle" /\ rest[w] = 0
  /\ \/ stream[w] = <<>> /\ ~open[w]
     \/ stream[w] # <<>> /\ Head(stream[w]).got < HeaderSize
  /\ pc' = [pc EXCEPT ![w] = "done"]
  /\ UNCHANGED <<files, conn, rest, job>>

\* What was left of a request is taken for the next one, or its end is missing:
\* anything may follow, and is not followed up here.
GoAstray(w) ==
  /\ pc[w] = "idle" /\ rest[w] # 0
  /\ pc' = [pc EXCEPT ![w] = "astray"]
  /\ UNCHANGED <<files, conn, rest, job>>

\* The next request, of which got bytes arrived, is taken from the connection.
Received(w, r, got) ==
  /\ pc[w] = "idle" /\ rest[w] = 0
  /\ stream[w] # <<>>
  /\ r   = Head(stream[w]).req
  /\ got = Head(stream[w]).got
  /\ got >= HeaderSize
  /\ stream' = [stream EXCEPT ![w] = Tail(@)]
  /\ UNCHANGED <<files, open, calls>>

\* Requests on variables, dump, load, clear, and opcodes nobody answers, which
\* have operands all the same if they look like one on variables.
RunElsewhere(w, r, got) ==
  /\ Received(w, r, got)
  /\ r.op \in {"variables", "dump", "load", "clear", "unknown"}
  /\ rest' = [rest EXCEPT ![w] = Leftover(r, got)]
  /\ job'  = [job EXCEPT ![w] = [asked |-> r]]
  /\ UNCHANGED pc

\* The fields of a request on a file, and the local variables of server_run.
\* start: how long the file was then, or NoFile.
Begin(w, r, got) ==
  /\ Received(w, r, got)
  /\ r.op \in {"create", "filesize", "read", "write"}
  /\ LET d == Decoded(r, got) IN
       /\ d.name \in Names
       /\ job' = [job EXCEPT ![w] =
            [asked |-> r, whole |-> got = BytesOf(r), name |-> d.name,
             offset |-> d.offset, size |-> d.size, payload |-> d.payload,
             alive |-> d.alive, st |-> 0, taken |-> 0,
             left |-> d.size, at |-> d.offset, count |-> 1, status |-> 0,
             replies |-> 0, announced |-> 0, sent |-> <<>>, garbled |-> FALSE,
             start |-> IF files[d.name] = NoFile THEN NoFile ELSE Len(files[d.name]),
             short |-> FALSE, alone |-> TRUE]]
  /\ pc' = [pc EXCEPT ![w] =
              IF r.op \in {"filesize", "read"} THEN "stat" ELSE r.op]
  /\ UNCHANGED rest

Receive(w) ==
  /\ stream[w] # <<>>
  /\ LET item == Head(stream[w]) IN
       \/ RunElsewhere(w, item.req, item.got)
       \/ Begin(w, item.req, item.got)

-----------------------------------------------------------------------------
(* create, filesize, and the size a read request is compared with.         *)

Go(w, from, to) ==
  /\ pc[w] = from
  /\ pc' = [pc EXCEPT ![w] = to]

Answered(j, status) == [j EXCEPT !.status = status, !.replies = @ + 1]

CreateFile(w) ==
  /\ Go(w, "create", "idle")
  /\ LET j == job[w]
         outcomes == IF j.name = <<>> THEN {[result |-> ENOENT, file |-> NoFile]}
                     ELSE create(files[j.name], OpensFail)
     IN \E c \in outcomes :
          /\ files' = [files EXCEPT ![j.name] = c.file]
          /\ job'   = [job EXCEPT ![w] = Answered(j, c.result)]
  /\ UNCHANGED <<conn, rest>>

\* stat() at the beginning of filesize() and of every read().
StatFile(w) ==
  /\ \/ Go(w, "stat", "size")
     \/ Go(w, "restat", "read")
  /\ \E st \in Stat(files[job[w].name]) : job' = [job EXCEPT ![w].st = st]
  /\ UNCHANGED <<files, conn, rest>>

Sizes(w) == filesize(files[job[w].name], job[w].st, OpensFail)

AnswerSize(w) ==
  /\ job[w].asked.op = "filesize"
  /\ Go(w, "size", "idle")
  /\ \E s \in Sizes(w) :
       job' = [job EXCEPT ![w] = IF s < 0 THEN Answered(@, -s)
                                 ELSE [Answered(@, 0) EXCEPT !.announced = s]]
  /\ UNCHANGED <<files, conn, rest>>

\* Faulty: a file cannot be read to its end.
RefusedAtEnd(j, file_size) == file_size >= 0 /\ j.size >= file_size

\* buff_size > file_size; file_size is unsigned, an error is a huge one.
Refused(j, file_size) == file_size >= 0 /\ j.size > file_size

RefuseRead(w) ==
  /\ job[w].asked.op = "read" /\ \E s \in Sizes(w) : Refused(job[w], s)
  /\ Go(w, "size", "idle")
  /\ job' = [job EXCEPT ![w] = Answered(@, EINVAL)]
  /\ UNCHANGED <<files, conn, rest>>

StartRead(w) ==
  /\ job[w].asked.op = "read" /\ \E s \in Sizes(w) : ~Refused(job[w], s)
  /\ Go(w, "size", "restat")
  /\ UNCHANGED <<files, conn, rest, job>>
-----------------------------------------------------------------------------
(* The chunks of a read.  A request that fits the buffer is one chunk.     *)

Chunk(j) == Least(j.left, BufferSize)

IsLast(j) == j.left <= BufferSize

Failed(j, result) == IF result < 0 THEN -result ELSE j.status

\* Faulty: every chunk has a header.
HasHeaderAlways(j) == TRUE

\* The counter is a uint8_t: a loop that does not end comes to 1 again.
HasHeader(j) == j.count = 1

\* Faulty: the last chunk is as long as the others.
LeftAfterReadFull(j, result) == j.left - BufferSize

\* bytes_remaining when read() has returned result: a failure, or nothing at the
\* end of the file, leaves it as it was.
LeftAfterRead(j, result) ==
  IF IsLast(j) \/ (HasHeader(j) /\ Failed(j, result) # 0) THEN 0
  ELSE j.left - If(result > 0, BufferSize)

Moves(j, result) == ~IsLast(j) /\ result > 0

\* server_run after read() returned r.  A chunk without header is sent alone,
\* and send() of a negative length sends whatever lies in memory.
AfterRead(j, r) ==
  LET status == Failed(j, r.result)
      header == HasHeader(j)
  IN [j EXCEPT
        !.status = status,
        !.left   = LeftAfterRead(j, r.result),
        !.at     = @ + If(Moves(j, r.result), BufferSize),
        !.count  = (@ + 1) % CountMod,
        !.replies   = Least(2, @ + If(header, 1)),
        !.announced = IF header /\ status = 0 THEN j.size ELSE @,
        !.sent      = IF header /\ status # 0 THEN @ ELSE @ \o r.data,
        !.garbled   = @ \/ (~header /\ r.result < 0)]

ReadChunk(w) ==
  /\ pc[w] = "read"
  /\ LET j == job[w] IN
       \E r \in read(files[j.name], j.st, j.at, Chunk(j), OpensFail) :
         job' = [job EXCEPT ![w] = AfterRead(j, r)]
  /\ pc' = [pc EXCEPT ![w] = IF job'[w].left > 0 /\ job[w].alive THEN "restat" ELSE "idle"]
  /\ UNCHANGED <<files, conn, rest>>

-----------------------------------------------------------------------------
(* The chunks of a write.                                                  *)

\* The next n bytes from the connection, zeros for those that did not come.
Payload(w, j, n) ==
  [i \in 1 .. n |-> IF j.taken + i <= j.payload
                    THEN Byte(w, j.offset + j.taken + i) ELSE Zero]

\* Faulty: recv_loop goes on when recv() returns 0.
ChunkCameWhole(w) ==
  LET j == job[w] IN j.taken + Chunk(j) <= j.payload

\* recv_loop returns when the bytes of the chunk came or the client is gone.
ChunkCame(w) ==
  LET j == job[w] IN j.taken + Chunk(j) <= j.payload \/ ~j.whole

\* server_run after write() returned result: a write of fewer bytes than it
\* was given counts as a whole chunk.
AfterWrite(j, result) ==
  LET step == If(Moves(j, result), BufferSize)
  IN [j EXCEPT
        !.taken  = @ + Chunk(j),
        !.status = Failed(j, result),
        !.left   = IF IsLast(j) THEN 0 ELSE @ - step,
        !.at     = @ + step,
        !.short  = @ \/ result \in 0 .. Chunk(j) - 1]

\* Faulty: the last chunk is left out.
MoreToWriteNotLast(j) == j.left > BufferSize /\ j.taken <= j.payload /\ j.status = 0

\* Nothing received last, or an error of write(), ends the loop.
MoreToWrite(j) == j.left > 0 /\ j.taken <= j.payload /\ j.status = 0

WriteChunk(w) ==
  /\ pc[w] = "write"
  /\ ChunkCame(w)
  /\ LET j == job[w] IN
       \E o \in write(files[j.name], j.at, Payload(w, j, Chunk(j)), WritesFail, OpensFail) :
         LET k    == AfterWrite(j, o.result)
             more == MoreToWrite(k)
         IN /\ files' = [files EXCEPT ![j.name] = o.file]
            /\ job'   = [v \in Workers |->
                 IF v = w THEN (IF more THEN k ELSE Answered(k, k.status))
                 ELSE IF job[v].asked.op = "write" /\ job[v].name = j.name
                      THEN [job[v] EXCEPT !.alone = FALSE]
                      ELSE job[v]]
            /\ rest'  = [rest EXCEPT ![w] = If(~more /\ j.whole, k.size - k.taken)]
            /\ pc'    = [pc EXCEPT ![w] = IF more THEN "write" ELSE "idle"]
  /\ UNCHANGED conn

-----------------------------------------------------------------------------
WorkerStep(w) ==
  \/ ReceiveEnd(w) \/ GoAstray(w) \/ Receive(w)
  \/ CreateFile(w) \/ StatFile(w) \/ AnswerSize(w)
  \/ RefuseRead(w) \/ StartRead(w) \/ ReadChunk(w)
  \/ WriteChunk(w)

Next ==
  \E w \in Workers : Send(w) \/ SendPart(w) \/ HangUp(w) \/ WorkerStep(w)

Spec == Init /\ [][Next]_vars

\* No lock is taken, and clients take what they are sent: a worker inside a
\* request goes on.
Fairness == \A w \in Workers : WF_vars(WorkerStep(w))

FairSpec == Spec /\ Fairness

-----------------------------------------------------------------------------
Busy(w) == pc[w] \in {"stat", "size", "restat", "read", "create", "write"}

\* The last request is one on a file, and was answered.
HasAnswered(w, op) == ~Busy(w) /\ job[w].asked.op = op /\ job[w].whole

\* A read that stays inside the file as it was when the request came.
Within(j) ==
  j.asked.op = "read" /\ j.whole /\ j.start # NoFile /\ j.offset + j.size <= j.start

\* And that could open it for each chunk so far.
Inside(j) == Within(j) /\ j.status # EMFILE

FileJob(j) ==
  /\ j.name \in Names
  /\ {j.offset, j.size, j.left, j.at, j.taken, j.status} \subseteq Nat
  /\ j.left <= j.size /\ j.at <= j.offset + j.size
  /\ j.count \in 0 .. CountMod - 1
  /\ j.replies \in 0 .. 2
  /\ j.sent \in Seq(FileByte)

TypeOK ==
  /\ files \in [Names -> Seq(FileByte) \cup {NoFile}]
  /\ open \in [Workers -> BOOLEAN]
  /\ calls \in 0 .. MaxCalls
  /\ \A w \in Workers :
       /\ pc[w] \in {"idle", "done", "astray"} \/ Busy(w)
       /\ job[w] = NoJob \/ job[w].asked \in Requests
       /\ "name" \in DOMAIN job[w] => FileJob(job[w])

\* Server and client agree where the next request begins: for arithmetic with
\* every combination of flags, for requests on files although the payload of a
\* write is read in chunks, and for requests that were cut (server_run).  It
\* does not hold for names of variables longer than 31 bytes, for get, set and
\* delete with flags (0x0188, 0x0189, 0x018F), for operations 0x01XX that do
\* not exist, and for a write of several chunks that failed.
NextRequestIsFound ==
  \A w \in Workers : rest[w] # 0 =>
    LET r == job[w].asked IN
      \/ /\ r.op = "variables"
         /\ IsServed(r) => \E i \in DOMAIN r.operands : r.operands[i] > MaxName
      \/ r.op = "write" /\ job[w].status # 0 /\ job[w].size > BufferSize

\* A read inside the file is answered with as many bytes as were asked for and
\* announced, if open() succeeds each time, although each chunk stats and opens the file again while others
\* write to it (server_run, read).
ReadIsComplete ==
  \A w \in Workers : HasAnswered(w, "read") /\ Inside(job[w]) =>
    /\ job[w].status = 0 /\ ~job[w].garbled
    /\ job[w].size = job[w].announced
    /\ job[w].size = Len(job[w].sent)

\* Wherever a byte comes from and whoever writes at the same time, it is at the
\* position it was meant for: in the files, and in what a client gets that
\* reads inside a file (the offsets the chunk loops of server_run keep).
BytesAreInPlace ==
  /\ \A n \in Names : files[n] # NoFile =>
       \A i \in DOMAIN files[n] : files[n][i] \in {Zero} \cup FileByte /\
         (files[n][i] # Zero => files[n][i][2] = i)
  /\ \A w \in Workers : job[w].asked.op = "read" /\ Inside(job[w]) =>
       \A i \in DOMAIN job[w].sent : job[w].sent[i] # Zero =>
         job[w].sent[i][2] = job[w].offset + i

\* After a write that was answered with 0, and that nobody else wrote over, the
\* file holds all its bytes, unless the device took a part of a chunk only.
WriteHasLanded ==
  \A w \in Workers : HasAnswered(w, "write") =>
    LET j == job[w] IN
      j.status = 0 /\ j.alone /\ ~j.short =>
        \A i \in 1 .. j.size :
          /\ j.offset + i <= Len(files[j.name])
          /\ files[j.name][j.offset + i] = Byte(w, j.offset + i)

\* The size of a file that is answered is one the file has had meanwhile, for
\* a file that existed when the request came and could be opened (filesize:
\* stat and open are two calls, and the result of stat is not tested).
SizeIsReal ==
  \A w \in Workers :
    HasAnswered(w, "filesize") /\ job[w].start # NoFile /\ job[w].status # EMFILE =>
    /\ job[w].status = 0
    /\ job[w].start <= job[w].announced
    /\ job[w].announced <= Len(files[job[w].name])

\* Every request on a file has one answer, unless it is a read of several
\* chunks beyond the end of the file, or one that open() stopped: then the
\* counter of chunks comes to 1 again and a second header is sent (server_run,
\* count).
AnsweredOnce ==
  \A w \in Workers :
    ~Busy(w) /\ job[w].asked.op \in {"create", "filesize", "read", "write"} =>
      job[w].replies = 1 \/ (job[w].asked.op = "read" /\ ~Inside(job[w])
                             /\ job[w].size > BufferSize)

\* Files do not vanish or shrink, and a byte only changes where some worker's
\* write was told to write (write opens without O_TRUNC, create with O_EXCL).
OnlyAskedBytesChange ==
  [][\A n \in Names : files[n] # NoFile =>
       /\ files'[n] # NoFile
       /\ Len(files[n]) <= Len(files'[n])
       /\ \A i \in DOMAIN files[n] : files'[n][i] # files[n][i] =>
            \E w \in Workers :
              /\ pc[w] = "write" /\ job[w].name = n
              /\ job[w].offset < i /\ i <= job[w].offset + job[w].size]_vars

\* A worker inside a request comes out again, except that a read of several
\* chunks may arrive at the end of the file, where read() returns 0 for ever.
RequestsEnd ==
  \A w \in Workers : Busy(w) ~>
    \/ ~Busy(w)
    \/ pc[w] = "read" /\ ~IsLast(job[w]) /\ job[w].at = job[w].st

\* src/rpcserver.cpp:1135 "Continute to process requests while they exist": a
\* request that was sent does not stay in its connection for ever.
RequestsAreProcessed ==
  \A w \in Workers : stream[w] # <<>> ~> (stream[w] = <<>> \/ pc[w] \in {"done", "astray"})
=============================================================================
