------------------------------ MODULE MCBalances ------------------------------
(***************************************************************************)
(* A pool with two perpetuals, requests of at most one address, and two    *)
(* blocks.                                                                 *)
(***************************************************************************)
EXTENDS Balances
=============================================================================
