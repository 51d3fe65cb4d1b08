----------------------------- MODULE RpcRequest -----------------------------
(***************************************************************************)
(* The workers of rpc-server inside server_run, for the requests that use  *)
(* variables: arithmetic with names as operands or for the result, get,    *)
(* set and delete.  kvs_mutex is held from the first lookup to the last    *)
(* change; the name a get request answers with is read after it was        *)
(* released, through a pointer into the store.                             *)
(*                                                                         *)
(* The store is the map of KeyValueMap, log.txt is left to VariableLog,    *)
(* and the division that may trap to Arithmetic.  A request has arrived as *)
(* a whole and its names are valid, or empty: then the pointer is NULL.    *)
(***************************************************************************)
EXTENDS Bindings, MathFunctions

CONSTANTS
  Workers,      \* the worker threads
  Requests,     \* what clients ask for
  Iterations,   \* -I
  MaxCalls,     \* bound: requests
  None,         \* no request
  Unknown,      \* what is read through a stale pointer
  Free          \* kvs_mutex is not locked

Arithmetics == [op : Ops, a : Binding \cup {Name(NULL)},
                b : Binding \cup {Name(NULL)}, res : Keys \cup {NULL},
                recursive : BOOLEAN]
Gets    == [op : {"get"}, a : {Name(k) : k \in Keys \cup {NULL}}]
Sets    == [op : {"set"}, a : {Name(k) : k \in Keys}, b : {Name(k) : k \in Keys}]
Deletes == [op : {"delete"}, a : {Name(k) : k \in Keys \cup {NULL}}]

ASSUME RequestsAssumption ==
  Requests \subseteq Arithmetics \cup Gets \cup Sets \cup Deletes
ASSUME NumbersAssumption  == Values = Ints
ASSUME NothingAssumption  ==
  /\ None \notin Requests
  /\ None \notin [status : Int] \cup [status : Int, result : Int]
                   \cup [status : Int, name : Keys \cup {Unknown}]
  /\ Unknown \notin Keys \cup {NULL}
ASSUME BoundsAssumption   == Iterations \in Nat /\ MaxCalls \in Nat
ASSUME WorkersAssumption  == Free \notin Workers

ELOOP == 40

VARIABLES
  store,    \* what the variables are bound to
  owner,    \* who holds kvs_mutex
  calls,    \* requests that have arrived
  pc,       \* worker -> where server_run is
  req,      \* worker -> its request
  side,     \* "a" or "b", the operand being resolved
  var, temp, iter,    \* var_a or var_b, temp, iterations
  val,      \* [a, b]: val_a and val_b
  status, result,
  name      \* worker -> the variable into whose node name points, or NULL,
            \* or Unknown: the node was changed or freed meanwhile

loop  == <<var, temp, iter>>
reply == <<status, result>>
vars  == <<store, owner, calls, pc, req, side, loop, val, reply, name>>

\* NULL is no key of the store, and every lookup of it finds nothing.
Lookup(k) == LookupOf(IF k = NULL THEN Absent ELSE store[k])

-----------------------------------------------------------------------------
Init ==
  /\ store  = EmptyMap
  /\ owner  = Free
  /\ calls  = 0
  /\ pc     = [w \in Workers |-> "idle"]
  /\ req    = [w \in Workers |-> None]
  /\ side   = [w \in Workers |-> "a"]
  /\ var    = [w \in Workers |-> NULL]
  /\ temp   = [w \in Workers |-> NULL]
  /\ iter   = [w \in Workers |-> 0]
  /\ val    = [w \in Workers |-> [a |-> 0, b |-> 0]]
  /\ status = [w \in Workers |-> 0]
  /\ result = [w \in Workers |-> 0]
  /\ name   = [w \in Workers |-> NULL]

Go(w, from, to) ==
  /\ pc[w] = from
  /\ pc' = [pc EXCEPT ![w] = to]

Literal(o) == IF o.flag = 0 THEN o.value ELSE 0

UsesStore(r) ==
  r.op \in Ops => r.a.flag = 1 \/ r.b.flag = 1 \/ r.res # NULL

\* The request is decoded; without a variable there is nothing to lock.
Receive(w) ==
  /\ pc[w] = "idle"
  /\ calls < MaxCalls
  /\ \E r \in Requests :
       /\ req' = [req EXCEPT ![w] = r]
       /\ pc'  = [pc EXCEPT ![w] = IF UsesStore(r) THEN "lock" ELSE "compute"]
       /\ val' = [val EXCEPT ![w] =
                    IF r.op \in Ops THEN [a |-> Literal(r.a), b |-> Literal(r.b)] ELSE @]
  /\ calls'  = calls + 1
  /\ side'   = [side EXCEPT ![w] = "a"]
  /\ status' = [status EXCEPT ![w] = 0]
  /\ result' = [result EXCEPT ![w] = 0]
  /\ name'   = [name EXCEPT ![w] = NULL]
  /\ UNCHANGED <<store, owner, loop>>

\* Faulty: does not wait for the mutex.
LockByForce(w) ==
  /\ Go(w, "lock", IF req[w].op \in Ops THEN "operand" ELSE req[w].op)
  /\ owner' = w
  /\ UNCHANGED <<store, calls, req, side, loop, val, reply, name>>

Lock(w) ==
  /\ owner = Free
  /\ Go(w, "lock", IF req[w].op \in Ops THEN "operand" ELSE req[w].op)
  /\ owner' = w
  /\ UNCHANGED <<store, calls, req, side, loop, val, reply, name>>

-----------------------------------------------------------------------------
(* Arithmetic: first operand a, then operand b unless a failed.            *)

Operand(w) == req[w][side[w]]

\* Faulty: errors are negative, as they are in rpcfile.cpp.
FailNegative(w, s) ==
  /\ pc' = [pc EXCEPT ![w] = "compute"]
  /\ status' = [status EXCEPT ![w] = -s]
  /\ UNCHANGED <<side, val>>

Fail(w, s) ==
  /\ pc' = [pc EXCEPT ![w] = "compute"]
  /\ status' = [status EXCEPT ![w] = s]
  /\ UNCHANGED <<side, val>>

Take(w, v) ==
  /\ val'  = [val EXCEPT ![w][side[w]] = v]
  /\ pc'   = [pc EXCEPT ![w] = IF side[w] = "a" THEN "operand" ELSE "compute"]
  /\ side' = [side EXCEPT ![w] = "b"]
  /\ UNCHANGED status

\* key_check, flag_lookup and value_lookup of an operand that needs no loop.
ResolveOperand(w) ==
  LET o == Operand(w)
      found == Lookup(o.name) IN
  /\ pc[w] = "operand"
  /\ \/ o.flag = 0 /\ Take(w, o.value)
     \/ o.flag = 1 /\ found.check # 0 /\ Fail(w, found.check)
     \/ o.flag = 1 /\ found.flag = 0 /\ Take(w, found.value)
     \/ o.flag = 1 /\ found.flag = 1 /\ ~req[w].recursive /\ Fail(w, EFAULT)
  /\ UNCHANGED <<store, owner, calls, req, loop, result, name>>

StartLoop(w) ==
  /\ Go(w, "operand", "loop")
  /\ Operand(w).flag = 1
  /\ Lookup(Operand(w).name).flag = 1
  /\ req[w].recursive
  /\ iter' = [iter EXCEPT ![w] = 0]
  /\ temp' = [temp EXCEPT ![w] = Operand(w).name]
  /\ UNCHANGED <<store, owner, calls, req, side, var, val, reply, name>>

\* Faulty: the loop only ends at the end of the chain.
FollowForEver(w) ==
  LET next == Lookup(temp[w]).name IN
  /\ Go(w, "loop", IF next # NULL THEN "loop" ELSE "end")
  /\ var'  = [var EXCEPT ![w] = temp[w]]
  /\ temp' = [temp EXCEPT ![w] = next]
  /\ UNCHANGED <<store, owner, calls, req, side, iter, val, reply, name>>

\* do { .. } while (temp != NULL && iterations < thread->iterations)
Follow(w) ==
  LET next == Lookup(temp[w]).name IN
  /\ Go(w, "loop", IF next # NULL /\ iter[w] + 1 < Iterations THEN "loop" ELSE "end")
  /\ var'  = [var EXCEPT ![w] = temp[w]]
  /\ temp' = [temp EXCEPT ![w] = next]
  /\ iter' = [iter EXCEPT ![w] = @ + 1]
  /\ UNCHANGED <<store, owner, calls, req, side, val, reply, name>>

\* Faulty: what the lookup returns is a number in any case.
EndLoopUnchecked(w) ==
  /\ pc[w] = "end"
  /\ \/ iter[w] >= Iterations /\ Fail(w, ELOOP)
     \/ iter[w] < Iterations /\ Take(w, Lookup(var[w]).value)
  /\ UNCHANGED <<store, owner, calls, req, loop, result, name>>

\* ENOENT is an error, or the number it stands for: key_check tells them apart.
EndLoop(w) ==
  LET found == Lookup(var[w]) IN
  /\ pc[w] = "end"
  /\ \/ iter[w] >= Iterations /\ Fail(w, ELOOP)
     \/ iter[w] < Iterations /\ found.value = ENOENT /\ found.check # 0 /\ Fail(w, found.check)
     \/ iter[w] < Iterations /\ (found.value # ENOENT \/ found.check = 0) /\ Take(w, found.value)
  /\ UNCHANGED <<store, owner, calls, req, loop, result, name>>

\* The function of rpcmath.cpp is called even if an operand failed: then the
\* status stays.
Compute(w) ==
  LET r == req[w]
      x == val[w].a
      y == val[w].b
      z == Called(r.op, x, y)
      s == IF status[w] # 0 THEN status[w] ELSE StatusOf(r.op, x, y, z) IN
  /\ Go(w, "compute", IF ~UsesStore(r) THEN "reply"
                      ELSE IF r.res # NULL /\ s = 0 THEN "insert"
                      ELSE "unlock")
  /\ result' = [result EXCEPT ![w] = z]
  /\ status' = [status EXCEPT ![w] = s]
  /\ UNCHANGED <<store, owner, calls, req, side, loop, val, name>>

-----------------------------------------------------------------------------
(* Changes of the store.                                                   *)

\* Pointers into the node of k, whose binding becomes b.
Stale(k, b) ==
  name' = [v \in Workers |->
             IF name[v] = k /\ b # store[k] THEN Unknown ELSE name[v]]

Bind(k, b) ==
  /\ store' = [store EXCEPT ![k] = b]
  /\ Stale(k, b)

\* key_value_store_insert_key_value, and the result is read back.
InsertResult(w) ==
  LET k == req[w].res IN
  /\ Go(w, "insert", "unlock")
  /\ Bind(k, Number(result[w]))
  /\ result' = [result EXCEPT ![w] = LookupOf(store'[k]).value]
  /\ UNCHANGED <<owner, calls, req, side, loop, val, status>>

SetVariable(w) ==
  /\ Go(w, "set", "unlock")
  /\ Bind(req[w].a.name, req[w].b)
  /\ UNCHANGED <<owner, calls, req, side, loop, val, reply>>

DeleteVariable(w) ==
  LET k == req[w].a.name
      check == Lookup(k).check IN
  /\ Go(w, "delete", "unlock")
  /\ status' = [status EXCEPT ![w] = check]
  /\ IF check = 0 THEN Bind(k, Absent) ELSE UNCHANGED <<store, name>>
  /\ UNCHANGED <<owner, calls, req, side, loop, val, result>>

\* key_name_lookup returns a pointer to the name in the node.
GetVariable(w) ==
  LET k == req[w].a.name
      found == Lookup(k) IN
  /\ Go(w, "get", "unlock")
  /\ name'   = [name EXCEPT ![w] = IF found.flag = 1 THEN k ELSE NULL]
  /\ status' = [status EXCEPT ![w] = IF found.flag = 0 THEN EFAULT ELSE found.check]
  /\ UNCHANGED <<store, owner, calls, req, side, loop, val, result>>

Unlock(w) ==
  /\ Go(w, "unlock", "reply")
  /\ owner' = Free
  /\ UNCHANGED <<store, calls, req, side, loop, val, reply, name>>

\* set_header, set_result or set_string, send.
Reply(w) ==
  /\ Go(w, "reply", "idle")
  /\ req'  = [req EXCEPT ![w] = None]
  /\ name' = [name EXCEPT ![w] = NULL]
  /\ UNCHANGED <<store, owner, calls, side, loop, val, reply>>

Run(w) ==
  \/ ResolveOperand(w) \/ StartLoop(w) \/ Follow(w) \/ EndLoop(w) \/ Compute(w)
  \/ InsertResult(w) \/ SetVariable(w) \/ DeleteVariable(w) \/ GetVariable(w)
  \/ Unlock(w) \/ Reply(w)

Next == \E w \in Workers : Receive(w) \/ Lock(w) \/ Run(w)

Spec == Init /\ [][Next]_vars

\* Workers are scheduled, and one that contends for the mutex gets it in the
\* end.  Nothing makes clients send requests.
FairSpec ==
  /\ Spec
  /\ \A w \in Workers : WF_vars(Run(w)) /\ SF_vars(Lock(w))

-----------------------------------------------------------------------------
Section == {"operand", "loop", "end", "insert", "set", "delete", "get", "unlock"}

TypeOK ==
  /\ store \in Map
  /\ owner \in Workers \cup {Free}
  /\ calls \in 0 .. MaxCalls
  /\ pc \in [Workers -> Section \cup {"idle", "lock", "compute", "reply"}]
  /\ req \in [Workers -> Requests \cup {None}]
  /\ side \in [Workers -> {"a", "b"}]
  /\ var \in [Workers -> Keys \cup {NULL}]
  /\ temp \in [Workers -> Keys \cup {NULL}]
  /\ iter \in [Workers -> Nat]
  /\ val \in [Workers -> [a : Ints, b : Ints]]
  /\ status \in [Workers -> {0, ENOENT, EFAULT, ELOOP, EOVERFLOW, EINVAL}]
  /\ result \in [Workers -> Ints]
  /\ name \in [Workers -> Keys \cup {NULL, Unknown}]

\* kvs_mutex protects the whole of a request: a worker between its first
\* lookup and its last change is alone there, so that nobody sees the store
\* between them, and whoever holds the mutex is there.
InSection(w) ==
  pc[w] \in Section \/ (pc[w] = "compute" /\ UsesStore(req[w]))
MutexIsHeldInSections == \A w \in Workers : InSection(w) <=> owner = w

\* Every request is answered in the end: also a recursive one that follows
\* names in a circle, and those that wait for the mutex meanwhile.
EveryCallReturns == \A w \in Workers : (pc[w] # "idle") ~> (pc[w] = "idle")

-----------------------------------------------------------------------------
(* Requests are atomic: the refinement of AtomicRequests.                  *)

AnswerOf(w) ==
  IF pc[w] \notin {"unlock", "reply"} THEN None
  ELSE IF status[w] # 0 \/ req[w].op \in {"set", "delete"} THEN [status |-> status[w]]
  ELSE IF req[w].op = "get"
    THEN [status |-> 0,
          name |-> IF name[w] = Unknown THEN Unknown ELSE Lookup(name[w]).name]
  ELSE [status |-> 0, result |-> result[w]]

Atomic == INSTANCE AtomicRequests WITH
  map     <- store,
  request <- req,
  answer  <- [w \in Workers |-> AnswerOf(w)]

RequestsAreAtomic == Atomic!Spec
=============================================================================
