----------------------------- MODULE Arithmetic -----------------------------
(***************************************************************************)
(* An arithmetic request on two numbers: server_run calls the function of  *)
(* rpcmath.cpp, judges its result and replies.                             *)
(***************************************************************************)
EXTENDS MathFunctions

VARIABLES
  op, a, b,    \* the request
  reply,       \* [status, result]; the result only counts with status 0
  phase        \* "idle", "called", "done", "killed"

vars == <<op, a, b, reply, phase>>

-----------------------------------------------------------------------------
NoReply == [status |-> 0, result |-> 0]

Init ==
  /\ op = "add" /\ a = 0 /\ b = 0
  /\ reply = NoReply
  /\ phase = "idle"

Receive ==
  /\ phase = "idle"
  /\ op' \in Ops /\ a' \in Ints /\ b' \in Ints
  /\ phase' = "called"
  /\ UNCHANGED reply

Compute ==
  /\ phase = "called"
  /\ LET result == Called(op, a, b) IN
       reply' = [status |-> StatusOf(op, a, b, result), result |-> result]
  /\ phase' = "done"
  /\ UNCHANGED <<op, a, b>>

\* SIGFPE
Trap ==
  /\ phase = "called"
  /\ Traps(op, a, b)
  /\ phase' = "killed"
  /\ UNCHANGED <<op, a, b, reply>>

Finish ==
  /\ phase = "done"
  /\ op' = "add" /\ a' = 0 /\ b' = 0
  /\ reply' = NoReply
  /\ phase' = "idle"

Next == Receive \/ Compute \/ Trap \/ Finish

Spec == Init /\ [][Next]_vars

-----------------------------------------------------------------------------
TypeOK ==
  /\ op \in Ops /\ a \in Ints /\ b \in Ints
  /\ reply \in [status : {0, EOVERFLOW, EINVAL}, result : Ints]
  /\ phase \in {"idle", "called", "done", "killed"}

Defined(f, x, y) == ~(Divides(f) /\ y = 0)
Fits(f, x, y) ==
  Defined(f, x, y) /\ ~Traps(f, x, y) /\ Exact(f, x, y) \in Ints

\* An operation whose result int64_t can hold is never refused: also the
\* results that equal an error number come with status 0, and are exact.
FittingResultsAreReturned ==
  phase = "done" /\ Fits(op, a, b) =>
    reply = [status |-> 0, result |-> Exact(op, a, b)]

\* An operation without a result, or whose result does not fit, is refused
\* with the error that says so, unless what the wrapped-around operation
\* yields is EOVERFLOW: then nothing tells the error from a result.
OthersAreRefused ==
  phase = "done" /\ ~Fits(op, a, b) =>
    \/ ~Defined(op, a, b) /\ reply.status = EINVAL
    \/ Defined(op, a, b) /\ reply.status = EOVERFLOW
    \/ Defined(op, a, b) /\ reply.status = 0 /\ Wrap(Exact(op, a, b)) = EOVERFLOW
=============================================================================
