-------------------------- MODULE MCEffectiveBalances --------------------------
(***************************************************************************)
(* Three addresses, any of them holder, trader, delegate or all of these.  *)
(***************************************************************************)
EXTENDS EffectiveBalances, TLC

Symmetry == Permutations(Addr)
=============================================================================
