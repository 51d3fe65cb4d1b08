---------------------------- MODULE MCRpcRequest ----------------------------
(* A small instance of RpcRequest for TLC.                                 *)
EXTENDS RpcRequest

CONSTANTS kx, ky

Arith(op, a, b, res, recursive) ==
  [op |-> op, a |-> a, b |-> b, res |-> res, recursive |-> recursive]

Get(k)    == [op |-> "get", a |-> Name(k)]
Set(k, n) == [op |-> "set", a |-> Name(k), b |-> Name(n)]
Delete(k) == [op |-> "delete", a |-> Name(k)]

\* kx is counted up, starting at 2, which is also ENOENT; kx and ky are bound to
\* each other, in a chain or in a circle, and ky is read through kx.
MCRequests ==
  { Arith("add", Number(1), Number(1), kx, FALSE),
    Arith("add", Name(kx), Number(1), kx, FALSE),
    Arith("add", Name(kx), Name(ky), NULL, TRUE),
    Arith("div", Number(1), Name(kx), ky, TRUE),
    Set(kx, ky), Set(ky, kx), Get(kx), Delete(kx) }
=============================================================================
