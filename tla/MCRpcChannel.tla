---------------------------- MODULE MCRpcChannel ----------------------------
(* Small instances of RpcChannel for TLC. *)
EXTENDS RpcChannel

CONSTANTS c1, c2

MCCallers == {c1, c2}

(* Bound: the callers are interchangeable, so the first call is c1's.  A     *)
(* state in which c2 has made it is not explored further.                    *)
FirstCallIsC1 == rid[c2] # 1

=============================================================================
