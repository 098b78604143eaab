---------------------------- MODULE MCTokenBucket ----------------------------
(***************************************************************************)
(* A bucket of two tokens that earns two tokens in three ticks.            *)
(***************************************************************************)
EXTENDS TokenBucket
=============================================================================
