--------------------------- MODULE AtomicRequests ---------------------------
(***************************************************************************)
(* What requests on variables promise to clients that send them at the     *)
(* same time: each one takes effect at one moment between its arrival and  *)
(* its answer.  An operand that is a name stands for the number it is      *)
(* bound to or, in a recursive request, for the number at the end of a     *)
(* chain of names that is short enough.                                    *)
(*                                                                         *)
(* The one exception: the name that answers a get request is only known    *)
(* if nobody changes the variable before the answer is out.                *)
(***************************************************************************)
EXTENDS Bindings, MathFunctions, FiniteSetsExt

CONSTANTS
  Workers,      \* one request at a time is served by each of them
  Requests,     \* what clients ask for
  Iterations,   \* -I
  None,         \* no request, or no answer yet
  Unknown       \* a name that was changed while it was read

VARIABLES map, request, answer

vars == <<map, request, answer>>

ELOOP == 40

-----------------------------------------------------------------------------
(* Operands.                                                               *)

BindingAt(m, k) == IF k = NULL THEN Absent ELSE m[k]
NameAt(m, k) == LookupOf(BindingAt(m, k)).name

\* The variable n names away from k, NULL behind the end of the chain.
Chain(m, k) ==
  LET hop[n \in 0 .. Iterations] == IF n = 0 THEN k ELSE NameAt(m, hop[n-1])
  IN  hop

\* The lookup that finds the end of the chain has to come before lookup
\* number Iterations.
Ends(m, k) == {n \in 1 .. Iterations - 1 : Chain(m, k)[n] = NULL}

Valued(b) ==
  IF b = Absent THEN [status |-> ENOENT, value |-> 0]
  ELSE [status |-> 0, value |-> b.value]

OperandOf(m, o, recursive) ==
  IF o.flag = 0 THEN [status |-> 0, value |-> o.value]
  ELSE LET b == BindingAt(m, o.name) IN
    IF b.flag # 1 THEN Valued(b)
    ELSE IF ~recursive THEN [status |-> EFAULT, value |-> 0]
    ELSE IF Ends(m, o.name) = {} THEN [status |-> ELOOP, value |-> 0]
    ELSE Valued(BindingAt(m, Chain(m, o.name)[Min(Ends(m, o.name)) - 1]))

-----------------------------------------------------------------------------
(* Answers: a status, and a result or a name if it is 0.                   *)

Refusal(s) == [status |-> s]

Arithmetic(m, r) ==
  LET x == OperandOf(m, r.a, r.recursive)
      y == OperandOf(m, r.b, r.recursive)
      result == Called(r.op, x.value, y.value)
      status == StatusOf(r.op, x.value, y.value, result) IN
  IF x.status # 0 THEN Refusal(x.status)
  ELSE IF y.status # 0 THEN Refusal(y.status)
  ELSE IF status # 0 THEN Refusal(status)
  ELSE [status |-> 0, result |-> result]

Answer(m, r) ==
  LET b == BindingAt(m, r.a.name) IN
  CASE r.op \in Ops   -> Arithmetic(m, r)
    [] r.op = "set"   -> Refusal(0)
    [] r.op = "delete" -> Refusal(IF b = Absent THEN ENOENT ELSE 0)
    [] r.op = "get"   -> IF b.flag = 1 THEN [status |-> 0, name |-> b.name]
                         ELSE Refusal(IF b = Absent THEN ENOENT ELSE EFAULT)

Effect(m, r) ==
  LET reply == Answer(m, r) IN
  IF reply.status # 0 THEN m
  ELSE CASE r.op \in Ops  -> IF r.res = NULL THEN m
                             ELSE [m EXCEPT ![r.res] = Number(reply.result)]
         [] r.op = "set"  -> [m EXCEPT ![r.a.name] = r.b]
         [] r.op = "delete" -> [m EXCEPT ![r.a.name] = Absent]
         [] r.op = "get"  -> m

-----------------------------------------------------------------------------
Init ==
  /\ map     = EmptyMap
  /\ request = [w \in Workers |-> None]
  /\ answer  = [w \in Workers |-> None]

Call(w) ==
  /\ request[w] = None
  /\ \E r \in Requests : request' = [request EXCEPT ![w] = r]
  /\ UNCHANGED <<map, answer>>

\* A get request that v was already answered and whose variable changes.
Disturbed(v, m) ==
  /\ answer[v] # None
  /\ request[v].op = "get"
  /\ answer[v].status = 0
  /\ m[request[v].a.name] # map[request[v].a.name]

Execute(w) ==
  /\ request[w] # None
  /\ answer[w] = None
  /\ map' = Effect(map, request[w])
  /\ answer' = [v \in Workers |->
       IF v = w THEN Answer(map, request[w])
       ELSE IF Disturbed(v, map') THEN [status |-> 0, name |-> Unknown]
       ELSE answer[v]]
  /\ UNCHANGED request

Return(w) ==
  /\ answer[w] # None
  /\ request' = [request EXCEPT ![w] = None]
  /\ answer'  = [answer EXCEPT ![w] = None]
  /\ UNCHANGED map

Next == \E w \in Workers : Call(w) \/ Execute(w) \/ Return(w)

Spec == Init /\ [][Next]_vars
=============================================================================
