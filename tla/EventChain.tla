----------------------------- MODULE EventChain -----------------------------
(***************************************************************************)
(* The blockchain as internal/filterer sees it: a head that only grows and *)
(* a fixed set of contract events, each in one block.  The provider        *)
(* answers a log query with every event of the queried blocks.             *)
(***************************************************************************)
EXTENDS Integers

CONSTANTS
    Event,      \* the SetDelegate (or Transfer) events the chain will hold
    MaxBlock    \* bound on the block height

ASSUME MaxBlockAssumption == MaxBlock \in Nat

\* The block each event is mined in.  An event exists once head reaches it.
Placement == [Event -> 0..MaxBlock]

\* eth_getLogs from block `from' to block `to', both inclusive.
LogsBetween(blockOf, from, to) == {e \in Event : blockOf[e] \in from..to}
=============================================================================
