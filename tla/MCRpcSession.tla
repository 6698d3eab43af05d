---------------------------- MODULE MCRpcSession ----------------------------
(* RpcSession for TLC: one stream of two functions, the others of none. *)
EXTENDS RpcSession, TLC

CONSTANT Long

MCFunctions == [j \in Streams |-> IF j = Long THEN 2 ELSE 0]

Symmetry == Permutations(Streams \ {Long})
=============================================================================
