---------------------------- MODULE FilterEvents ----------------------------
(***************************************************************************)
(* Filterer.FilterEvents: read the header, then walk from startBlock to    *)
(* the header's block in batches.  A failed query is retried from the same *)
(* block with half the batch size; the tries are counted over the whole    *)
(* call.  The last batch has no upper end ("latest"), so it also returns   *)
(* what was mined since the header was read.                               *)
(***************************************************************************)
EXTENDS EventChain

CONSTANTS
    InitialDelta,   \* deltaBlock at the start of a call (10_000)
    MaxTrials       \* how many queries of a call may fail before it gives up (7)

ASSUME DeltaAssumption == InitialDelta \in Nat
ASSUME TrialsAssumption == MaxTrials \in Nat \ {0}

VARIABLES
    blockOf,    \* the chain's events
    head,       \* the chain's latest block
    pc,         \* "idle" | "scan"
    fromBlock,  \* the startBlock argument, as it was passed
    nowBlock,   \* header.Number
    startBlock, \* first block of the next batch
    deltaBlock, \* current batch size
    trial,      \* failed queries of this call
    logs,       \* logs[e]: how often event e is in the slice
    result      \* what the last call returned

chainVars == <<blockOf, head>>
argVars == <<fromBlock, nowBlock>>
vars == <<blockOf, head, pc, fromBlock, nowBlock, startBlock, deltaBlock,
          trial, logs, result>>

NoLogs == [e \in Event |-> 0]

Failure == [ok |-> FALSE, upTo |-> 0, logs |-> NoLogs]

Init ==
    /\ blockOf \in Placement
    /\ head \in 0..MaxBlock
    /\ pc = "idle"
    /\ fromBlock = 0
    /\ nowBlock = 0
    /\ startBlock = 0
    /\ deltaBlock = 0
    /\ trial = 0
    /\ logs = NoLogs
    /\ result = Failure

-----------------------------------------------------------------------------
(***************************************************************************)
(* The chain                                                               *)
(***************************************************************************)

Mine ==
    /\ head < MaxBlock
    /\ head' = head + 1
    /\ UNCHANGED <<blockOf, pc, argVars, startBlock, deltaBlock, trial, logs, result>>

-----------------------------------------------------------------------------
(***************************************************************************)
(* The call: RunFilter passes endBlock = 0, hence endBlock = nowBlock.     *)
(***************************************************************************)

\* A start block beyond the header is refused.
Call(s) ==
    /\ pc = "idle"
    /\ s <= head
    /\ pc' = "scan"
    /\ fromBlock' = s
    /\ nowBlock' = head
    /\ startBlock' = s
    /\ deltaBlock' = InitialDelta
    /\ trial' = 0
    /\ logs' = NoLogs
    /\ UNCHANGED <<chainVars, result>>

CallRefused(s) ==
    /\ pc = "idle"
    /\ s > head
    /\ result' = Failure
    /\ UNCHANGED <<chainVars, pc, argVars, startBlock, deltaBlock, trial, logs>>

HeaderFails ==
    /\ pc = "idle"
    /\ result' = Failure
    /\ UNCHANGED <<chainVars, pc, argVars, startBlock, deltaBlock, trial, logs>>

-----------------------------------------------------------------------------
(***************************************************************************)
(* The scan                                                                *)
(***************************************************************************)

BatchEnd == startBlock + deltaBlock

\* A mutation: the next batch starts at the block the last one ended with.
NextBatchStart_Overlap == BatchEnd

NextBatchStart == BatchEnd + 1

\* The process...Events loops append what the query returned to the slice.
AppendLogs(from, to) ==
    [e \in Event |->
        logs[e] + (IF e \in LogsBetween(blockOf, from, to) THEN 1 ELSE 0)]

ReadBatch ==
    /\ pc = "scan"
    /\ BatchEnd < nowBlock
    /\ logs' = AppendLogs(startBlock, BatchEnd)
    /\ startBlock' = NextBatchStart
    /\ UNCHANGED <<chainVars, pc, argVars, deltaBlock, trial, result>>

\* A mutation: the last batch is cut off before the header's block.
LastBlockRead_StopsEarly == nowBlock - 1

\* The last query has no upper end: the provider answers up to its head.
LastBlockRead == head

ReadLastBatch ==
    /\ pc = "scan"
    /\ BatchEnd >= nowBlock
    /\ logs' = AppendLogs(startBlock, LastBlockRead)
    /\ result' = [ok |-> TRUE, upTo |-> nowBlock, logs |-> logs']
    /\ pc' = "idle"
    /\ UNCHANGED <<chainVars, argVars, startBlock, deltaBlock, trial>>

\* A mutation: the tries are tested one too late.
TriesLeft_OneMore == trial < MaxTrials

TriesLeft == trial + 1 < MaxTrials

\* A mutation: a retry starts the whole call over, its counter included.
QueryFails_StartsOver ==
    /\ pc = "scan"
    /\ TriesLeft
    /\ startBlock' = fromBlock
    /\ deltaBlock' = InitialDelta
    /\ trial' = 0
    /\ logs' = NoLogs
    /\ UNCHANGED <<chainVars, pc, argVars, result>>

QueryFails ==
    /\ pc = "scan"
    /\ TriesLeft
    /\ deltaBlock' = deltaBlock \div 2
    /\ trial' = trial + 1
    /\ UNCHANGED <<chainVars, pc, argVars, startBlock, logs, result>>

\* The last try failed: FilterTransferEvts and FilterDelegateEvts drop the
\* logs read so far.
GiveUp ==
    /\ pc = "scan"
    /\ trial + 1 = MaxTrials
    /\ result' = Failure
    /\ pc' = "idle"
    /\ UNCHANGED <<chainVars, argVars, startBlock, deltaBlock, trial, logs>>

ScanStep == ReadBatch \/ ReadLastBatch \/ QueryFails \/ GiveUp

Next ==
    \/ Mine
    \/ \E s \in 1..(MaxBlock + 1) : Call(s) \/ CallRefused(s)
    \/ HeaderFails
    \/ ScanStep

Spec == Init /\ [][Next]_vars

\* The loop runs on: every query returns, with logs or with an error.
FairSpec == Spec /\ WF_vars(ScanStep)

-----------------------------------------------------------------------------
(***************************************************************************)
(* Properties                                                              *)
(***************************************************************************)

Result == [ok : BOOLEAN, upTo : 0..MaxBlock, logs : [Event -> Nat]]

\* The types, and the bound on the tries of one call.
TypeOK ==
    /\ blockOf \in Placement
    /\ head \in 0..MaxBlock
    /\ pc \in {"idle", "scan"}
    /\ fromBlock \in 0..MaxBlock
    /\ nowBlock \in 0..head
    /\ startBlock \in 0..MaxBlock
    /\ deltaBlock \in 0..InitialDelta
    /\ trial \in 0..(MaxTrials - 1)
    /\ logs \in [Event -> Nat]
    /\ result \in Result

\* While a scan runs, whatever queries failed and were retried with smaller
\* batches, the slice holds each event of the blocks already passed exactly
\* once and no other event: no block is skipped and none is read twice.
LogsExact ==
    pc = "scan" =>
        /\ fromBlock <= startBlock
        /\ startBlock <= nowBlock
        /\ \A e \in Event :
              logs[e] = IF blockOf[e] \in fromBlock..(startBlock - 1) THEN 1 ELSE 0

\* A scan ends, with a result or with an error: each query moves it forward
\* or uses up one of the tries, and the header's block does not move.
ScanTerminates == (pc = "scan") ~> (pc = "idle")

\* The scan with its batches, retries and growing chain is one delivery of
\* every event from fromBlock to the head, or a failure that delivers nothing.
Scan == INSTANCE EventScan WITH
            blockOf <- blockOf, head <- head, pc <- pc,
            fromBlock <- fromBlock, nowBlock <- nowBlock, result <- result

ImplementsEventScan == Scan!Spec
=============================================================================
