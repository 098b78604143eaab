--------------------------- MODULE MCFilterEvents ---------------------------
(***************************************************************************)
(* FilterEvents on a chain of at most five blocks with two events; batches *)
(* of 3, 1 and 0 extra blocks stand for the code's 10_000, 5_000, ...      *)
(***************************************************************************)
EXTENDS FilterEvents
=============================================================================
