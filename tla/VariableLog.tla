---------------------------- MODULE VariableLog ----------------------------
(***************************************************************************)
(* What survives a restart of rpc-server.  Every change of the store is    *)
(* appended to log.txt as one line, "x=5", "x=y", or "x=~" for a deletion; *)
(* load_log replays the lines when the process starts.  dump and load      *)
(* write and read files of the same form.                                  *)
(*                                                                         *)
(* kvs_mutex is held from the change of the store to the last line of the  *)
(* call, so that one call is in progress at a time; but the process may    *)
(* end (err(), a signal) between two system calls, and each line is one    *)
(* write(), done or not done.  What happens when the machine itself goes   *)
(* down is left out.                                                       *)
(***************************************************************************)
EXTENDS Bindings, Sequences, FiniteSets, SequencesExt

CONSTANTS
  Files,          \* names of files for dump and load
  FileContents,   \* what such a file may hold before the first dump
  NoFile,         \* the content of a file that does not exist
  WritesFail,     \* whether the calls on files may fail (disk, descriptors)
  MaxLog,         \* bound: lines of log.txt
  MaxFile         \* bound: lines of a file that was dumped to

ASSUME FailAssumption  == WritesFail \in BOOLEAN
ASSUME BoundAssumption == MaxLog \in Nat /\ MaxFile \in Nat

VARIABLES
  map,      \* the store: what the lookups answer from
  log,      \* the lines of the file called log.txt, or NoFile
  logfd,    \* "log", or "unlinked" if *logfd is open on a file without name
  files,    \* file -> its lines, or NoFile
  pc,       \* the system call the request in progress is at, "idle" or "down"
  todo,     \* lines it still has to write, to log.txt or to the dump
  dump,     \* the last dump: its file, whether that held nothing before, and
            \* the lines written to it until now
  before,   \* history: the store when the request in progress began
  lost      \* history: variables whose last change did not reach log.txt

storeVars == <<map, before, lost>>
logVars   == <<log, logfd>>
dumpVars  == <<files, dump>>

vars == <<storeVars, logVars, dumpVars, pc, todo>>

Line(k, b) == [key |-> k, bind |-> b]
BadLine == Line(NULL, Absent)   \* a line load_log and load do not accept

Lines == {Line(k, b) : k \in Keys, b \in Bound}

FileType == Seq(Lines \cup {BadLine}) \cup {NoFile}

ASSUME ContentsAssumption == FileContents \subseteq FileType
ASSUME NoFileAssumption   == NoFile \notin Seq(Lines \cup {BadLine})

Present(m) == {k \in Keys : m[k] # Absent}

LinesOf(m) == {Line(k, m[k]) : k \in Present(m)}

-----------------------------------------------------------------------------
(* Reading lines back.                                                     *)

\* The lines before the first bad one.
ValidLines(s) == {i \in DOMAIN s : \A j \in 1 .. i : s[j] # BadLine}

Accepts(s) == ValidLines(s) = DOMAIN s

\* Faulty: of two lines about a variable the first one counts.
ReplayFirst(m, s) ==
  LET apply(n, l) == IF n[l.key] = m[l.key] THEN [n EXCEPT ![l.key] = l.bind] ELSE n
  IN  FoldLeft(apply, m, SubSeq(s, 1, Cardinality(ValidLines(s))))

\* The loop of load_log and load_key_value_store, on a store m: a line binds
\* its variable or deletes it.  Nothing is undone at a bad line.
ApplyLine(m, l) == [m EXCEPT ![l.key] = l.bind]

Replay(m, s) == FoldLeft(ApplyLine, m, SubSeq(s, 1, Cardinality(ValidLines(s))))

\* What a process started now would hold.
Saved == IF log = NoFile THEN EmptyMap ELSE Replay(EmptyMap, log)

-----------------------------------------------------------------------------
Init ==
  /\ map    = EmptyMap
  /\ log    = <<>>
  /\ logfd  = "log"
  /\ files  \in [Files -> FileContents]
  /\ pc     = "idle"
  /\ todo   = {}
  /\ \E f \in Files : dump = [file |-> f, fresh |-> FALSE, lines |-> 0]
  /\ before = EmptyMap
  /\ lost   = {}

\* kvs_mutex is taken: the request changes the store, and has lines to write.
Change(m, lines) ==
  /\ pc = "idle"
  /\ map'    = m
  /\ todo'   = lines
  /\ before' = map
  /\ pc'     = IF lines = {} THEN "reply" ELSE "append"
  /\ UNCHANGED <<logVars, dumpVars>>

\* A result variable or setv: key_value_store_insert_..., log_insert_key.
Set(k, b) ==
  /\ Change([map EXCEPT ![k] = b], {Line(k, b)})
  /\ UNCHANGED lost

\* Faulty: the line of a deletion has no name.
DeleteLogsNoName(k) ==
  /\ map[k] # Absent
  /\ Change([map EXCEPT ![k] = Absent], {BadLine})
  /\ UNCHANGED lost

\* Faulty: a deletion is not logged.
DeleteUnlogged(k) ==
  /\ map[k] # Absent
  /\ Change([map EXCEPT ![k] = Absent], {})
  /\ UNCHANGED lost

\* key_value_store_delete_key, log_delete_key.
Delete(k) ==
  /\ map[k] # Absent
  /\ Change([map EXCEPT ![k] = Absent], {Line(k, Absent)})
  /\ UNCHANGED lost

\* load_key_value_store; log_key_value_store then writes a line for every
\* variable that is bound, and none for those the file deleted.
Load(f) ==
  /\ files[f] # NoFile
  /\ Accepts(files[f])
  /\ LET m == Replay(map, files[f]) IN
       /\ Change(m, LinesOf(m))
       /\ lost' = lost \cup (Present(map) \ Present(m))

\* A bad line: EINVAL, and what was loaded until then is not logged.
LoadRefused(f) ==
  /\ files[f] # NoFile
  /\ ~Accepts(files[f])
  /\ LET m == Replay(map, files[f]) IN
       /\ Change(m, {})
       /\ lost' = lost \cup {k \in Keys : m[k] # map[k]}

\* The file of a load or a dump is not opened: EINVAL, EEXIST.
OpenFails ==
  /\ WritesFail
  /\ Change(map, {})
  /\ UNCHANGED lost

\* clear_key_value_store; clear_log follows in ClearUnlink and ClearCreate.
Clear ==
  /\ pc = "idle"
  /\ map'    = EmptyMap
  /\ before' = map
  /\ pc'     = "unlink"
  /\ UNCHANGED <<logVars, dumpVars, todo, lost>>

-----------------------------------------------------------------------------
(* The log.  The lines of load come in the order of the hash table, here   *)
(* any order.                                                              *)

AppendLine ==
  /\ pc = "append"
  /\ \E l \in todo :
       /\ IF logfd = "log"
            THEN /\ Len(log) < MaxLog
                 /\ log'  = Append(log, l)
                 /\ lost' = lost \ {l.key}
            ELSE /\ UNCHANGED log
                 /\ lost' = lost \cup {l.key}
       /\ todo' = todo \ {l}
  /\ pc' = IF todo' = {} THEN "reply" ELSE "append"
  /\ UNCHANGED <<map, before, logfd, dumpVars>>

\* dprintf returns -1: load and delete reply EINVAL, and nobody looks at what
\* log_insert_key returned.  No further line is written, the store stays.
AppendFails ==
  /\ WritesFail
  /\ pc = "append"
  /\ lost' = lost \cup {l.key : l \in todo}
  /\ todo' = {}
  /\ pc'   = "reply"
  /\ UNCHANGED <<map, before, logVars, dumpVars>>

ClearUnlink ==
  /\ pc = "unlink"
  /\ log # NoFile
  /\ log'   = NoFile
  /\ logfd' = "unlinked"
  /\ lost'  = {}
  /\ pc'    = "create"
  /\ UNCHANGED <<map, before, dumpVars, todo>>

\* unlinkat returns -1, because the name is gone or for a reason of its own.
\* The log is as it was, and the store is empty.
UnlinkFails ==
  /\ pc = "unlink"
  /\ \/ /\ log = NoFile
        /\ lost' = {}
     \/ /\ log # NoFile /\ WritesFail
        /\ lost' = lost \cup Present(before)
  /\ pc' = "reply"
  /\ UNCHANGED <<map, before, logVars, dumpVars, todo>>

\* openat(.., O_CREAT | O_EXCL): the new descriptor is assigned to the
\* parameter logfdptr, not through it, so *logfd stays what it was.
ClearCreate ==
  /\ pc = "create"
  /\ \/ log' = <<>>
     \/ WritesFail /\ UNCHANGED log
  /\ pc' = "reply"
  /\ UNCHANGED <<storeVars, logfd, dumpVars, todo>>

\* kvs_mutex is released and the client gets its reply.
Reply ==
  /\ pc \in {"reply", "dumped"}
  /\ pc'     = "idle"
  /\ before' = map
  /\ UNCHANGED <<map, lost, logVars, dumpVars, todo>>

-----------------------------------------------------------------------------
(* dump_key_value_store opens the file without O_TRUNC and writes its      *)
(* lines from the start, over what the file held there: lines of other     *)
(* lengths, so that one line may cover several, or end in the middle of    *)
(* one.  The lines come in the order of the hash table, here any order.    *)

\* The end of an old line: not accepted, or about a variable of a shorter name.
EndsOf(l) == {BadLine} \cup {Line(k, l.bind) : k \in Keys}

\* What may be left of the lines s when one line is written over their start.
Left(s) ==
  IF s = <<>> THEN {<<>>}
  ELSE UNION {{SubSeq(s, i, Len(s))} \cup
              {<<l>> \o SubSeq(s, i, Len(s)) : l \in EndsOf(s[i - 1])} : i \in 2 .. Len(s) + 1}

\* open(.., O_WRONLY | O_CREAT).
Dump(f) ==
  /\ pc = "idle"
  /\ files' = [files EXCEPT ![f] = IF @ = NoFile THEN <<>> ELSE @]
  /\ dump'  = [file |-> f, fresh |-> files[f] \in {NoFile, <<>>}, lines |-> 0]
  /\ todo'  = LinesOf(map)
  /\ pc'    = "dump"
  /\ UNCHANGED <<storeVars, logVars>>

\* One dprintf.
DumpLine ==
  /\ pc = "dump"
  /\ LET file    == files[dump.file]
         written == SubSeq(file, 1, dump.lines)
         behind  == SubSeq(file, dump.lines + 1, Len(file))
     IN  \E l \in todo : \E left \in Left(behind) :
           /\ dump.lines + 1 + Len(left) <= MaxFile
           /\ files' = [files EXCEPT ![dump.file] = Append(written, l) \o left]
           /\ todo'  = todo \ {l}
  /\ dump' = [dump EXCEPT !.lines = @ + 1]
  /\ UNCHANGED <<storeVars, logVars, pc>>

\* Faulty: nobody looks at what dprintf returned.
DumpIgnoresFailure ==
  /\ WritesFail
  /\ pc = "dump"
  /\ todo' = {}
  /\ pc'   = "dumped"
  /\ UNCHANGED <<storeVars, logVars, dumpVars>>

\* dprintf or close returns -1: EINVAL, and the lines written stay.
DumpFails ==
  /\ WritesFail
  /\ pc = "dump"
  /\ todo' = {}
  /\ pc'   = "reply"
  /\ UNCHANGED <<storeVars, logVars, dumpVars>>

\* All lines are written and the file is closed: the reply will be 0.
DumpCloses ==
  /\ pc = "dump"
  /\ todo = {}
  /\ pc' = "dumped"
  /\ UNCHANGED <<storeVars, logVars, dumpVars, todo>>

-----------------------------------------------------------------------------
\* The process ends, wherever it is: the store is gone, map only remembers it.
Crash ==
  /\ pc # "down"
  /\ pc'   = "down"
  /\ todo' = {}
  /\ UNCHANGED <<storeVars, logVars, dumpVars>>

\* main(): openat(.., O_CREAT | O_RDWR), load_log.
Restart ==
  /\ pc = "down"
  /\ log'    = IF log = NoFile THEN <<>> ELSE log
  /\ logfd'  = "log"
  /\ map'    = Saved
  /\ before' = Saved
  /\ lost'   = {}
  /\ pc'     = "idle"
  /\ UNCHANGED <<dumpVars, todo>>

Next ==
  \/ \E k \in Keys : \E b \in Binding : Set(k, b)
  \/ \E k \in Keys : Delete(k)
  \/ \E f \in Files : Load(f)
  \/ \E f \in Files : LoadRefused(f)
  \/ OpenFails
  \/ AppendLine \/ AppendFails
  \/ Clear \/ ClearUnlink \/ UnlinkFails \/ ClearCreate
  \/ \E f \in Files : Dump(f)
  \/ DumpLine \/ DumpFails \/ DumpCloses
  \/ Reply
  \/ Crash \/ Restart

Spec == Init /\ [][Next]_vars

-----------------------------------------------------------------------------
TypeOK ==
  /\ map \in Map
  /\ log \in Seq(Lines) \cup {NoFile}
  /\ logfd \in {"log", "unlinked"}
  /\ files \in [Files -> FileType]
  /\ dump \in [file : Files, fresh : BOOLEAN, lines : Nat]
  /\ pc \in {"idle", "append", "unlink", "create", "dump", "dumped", "reply", "down"}
  /\ todo \in SUBSET Lines
  /\ before \in Map
  /\ lost \in SUBSET Keys

\* Wherever the process ends, a restart brings back for every variable what
\* it was before the request in progress or what that request made of it;
\* between requests that is the store itself.  Excepted are the variables in
\* lost, whose change never reached log.txt.
CrashKeepsOldOrNew ==
  \A k \in Keys \ lost :
    /\ Saved[k] \in {before[k], map[k]}
    /\ pc \in {"idle", "dump", "dumped", "reply"} => Saved[k] = map[k]

\* The same as seen by the process that starts: Restart brings back the
\* store of the process that ended, up to the request it had in progress.
RestartRestores ==
  [][pc = "down" /\ pc' = "idle" =>
       \A k \in Keys \ lost : map'[k] \in {before[k], map[k]}]_vars

\* A dump that is answered 0 is the store: a load reads all of it from the
\* lines that were written, and from the whole file if it held nothing before.
\* A dump that was answered otherwise, or not at all, may be any part of it.
DumpLoadsBack ==
  pc = "dumped" =>
    LET file == files[dump.file] IN
      /\ Replay(EmptyMap, SubSeq(file, 1, dump.lines)) = map
      /\ dump.fresh => Accepts(file) /\ Replay(EmptyMap, file) = map

\* load_log is what brings the "saved variables" back: after a reply a
\* restart loses nothing, whether or not the store was cleared before.
RestartRestoresTheStore == pc = "idle" => Saved = map

=============================================================================
