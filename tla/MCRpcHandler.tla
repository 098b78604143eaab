---------------------------- MODULE MCRpcHandler ----------------------------
(***************************************************************************)
(* Two queries at a time, up to four clients.  Queries are interchangeable.*)
(***************************************************************************)
EXTENDS RpcHandler, TLC

Symmetry == Permutations(Query)
=============================================================================
