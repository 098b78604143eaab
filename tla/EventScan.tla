------------------------------ MODULE EventScan ------------------------------
(***************************************************************************)
(* What one call of Filterer.FilterEvents promises its caller, without the *)
(* batches and retries: a call that succeeds delivers every event from     *)
(* fromBlock up to some head the chain had at or after the header was      *)
(* read, each exactly once, and reports the header's block; a call that    *)
(* fails delivers nothing and reports block 0.                             *)
(***************************************************************************)
EXTENDS EventChain

VARIABLES
    blockOf,    \* the chain's events
    head,       \* the chain's latest block
    pc,         \* "idle" | "scan"
    fromBlock,  \* the startBlock argument of the call
    nowBlock,   \* the block number of the header read at the start
    result      \* what the last call returned

vars == <<blockOf, head, pc, fromBlock, nowBlock, result>>

\* The events are counted: logs[e] is how often e occurs in the slice.
NoLogs == [e \in Event |-> 0]
LogsOf(from, to) ==
    [e \in Event |-> IF e \in LogsBetween(blockOf, from, to) THEN 1 ELSE 0]

Failure == [ok |-> FALSE, upTo |-> 0, logs |-> NoLogs]

Init ==
    /\ blockOf \in Placement
    /\ head \in 0..MaxBlock
    /\ pc = "idle"
    /\ fromBlock = 0
    /\ nowBlock = 0
    /\ result = Failure

Mine ==
    /\ head < MaxBlock
    /\ head' = head + 1
    /\ UNCHANGED <<blockOf, pc, fromBlock, nowBlock, result>>

Begin ==
    /\ pc = "idle"
    /\ \E s \in 1..head :
        /\ pc' = "scan"
        /\ fromBlock' = s
        /\ nowBlock' = head
    /\ UNCHANGED <<blockOf, head, result>>

Reject ==
    /\ pc = "idle"
    /\ result' = Failure
    /\ UNCHANGED <<blockOf, head, pc, fromBlock, nowBlock>>

Deliver ==
    /\ pc = "scan"
    /\ pc' = "idle"
    /\ result' = [ok |-> TRUE, upTo |-> nowBlock, logs |-> LogsOf(fromBlock, head)]
    /\ UNCHANGED <<blockOf, head, fromBlock, nowBlock>>

Fail ==
    /\ pc = "scan"
    /\ pc' = "idle"
    /\ result' = Failure
    /\ UNCHANGED <<blockOf, head, fromBlock, nowBlock>>

Next == Mine \/ Begin \/ Reject \/ Deliver \/ Fail

Spec == Init /\ [][Next]_vars
=============================================================================
