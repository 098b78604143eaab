---------------------------- MODULE MCEtherfiApy ----------------------------
(***************************************************************************)
(* Three racing requests and a value that expires after two ticks.         *)
(***************************************************************************)
EXTENDS EtherfiApy
=============================================================================
