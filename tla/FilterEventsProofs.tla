------------------------- MODULE FilterEventsProofs -------------------------
(***************************************************************************)
(* For every set of events, every chain, every batch size and every number *)
(* of tries: the type invariant, the exactness of the slice, and that      *)
(* FilterEvents implements EventScan.                                      *)
(***************************************************************************)
EXTENDS FilterEvents, TLAPS

\* What one more query does to the slice: the events of the queried blocks
\* are counted once more, the others are left alone.
LEMMA AppendLogsCounts ==
    ASSUME logs \in [Event -> Nat],
           NEW from, NEW to
    PROVE  /\ AppendLogs(from, to) \in [Event -> Nat]
           /\ \A e \in Event :
                 AppendLogs(from, to)[e] =
                    IF blockOf[e] \in from..to THEN logs[e] + 1 ELSE logs[e]
BY DEF AppendLogs, LogsBetween

\* Halving keeps the batch size a natural number that does not grow.
LEMMA HalvingShrinks ==
    ASSUME NEW d \in 0..InitialDelta
    PROVE  d \div 2 \in 0..InitialDelta
BY DeltaAssumption

LEMMA InitTypeOK == Init => TypeOK
BY MaxBlockAssumption, DeltaAssumption, TrialsAssumption
   DEF Init, TypeOK, NoLogs, Failure, Result

\* The type invariant needs LogsExact: startBlock stays below MaxBlock only
\* because the batches stop at nowBlock.
LEMMA NextTypeOK == TypeOK /\ LogsExact /\ [Next]_vars => TypeOK'
<1> SUFFICES ASSUME TypeOK, LogsExact, [Next]_vars
             PROVE  TypeOK'
    OBVIOUS
<1> USE MaxBlockAssumption, DeltaAssumption, TrialsAssumption
<1>1. CASE Mine
    BY <1>1 DEF Mine, TypeOK, chainVars, argVars
<1>2. ASSUME NEW s \in 1..(MaxBlock + 1), Call(s)
      PROVE  TypeOK'
    BY <1>2 DEF Call, TypeOK, NoLogs, chainVars, argVars
<1>3. ASSUME NEW s \in 1..(MaxBlock + 1), CallRefused(s)
      PROVE  TypeOK'
    BY <1>3 DEF CallRefused, TypeOK, Failure, NoLogs, Result, chainVars, argVars
<1>4. CASE HeaderFails
    BY <1>4 DEF HeaderFails, TypeOK, Failure, NoLogs, Result, chainVars, argVars
<1>5. CASE ReadBatch
  <2>1. AppendLogs(startBlock, BatchEnd) \in [Event -> Nat]
      BY AppendLogsCounts DEF TypeOK
  <2>2. startBlock' \in 0..MaxBlock
      BY <1>5 DEF ReadBatch, NextBatchStart, BatchEnd, TypeOK
  <2>3. QED
      BY <1>5, <2>1, <2>2 DEF ReadBatch, TypeOK, chainVars, argVars
<1>6. CASE ReadLastBatch
  <2>1. AppendLogs(startBlock, head) \in [Event -> Nat]
      BY AppendLogsCounts DEF TypeOK
  <2>2. result' \in Result
      BY <1>6, <2>1 DEF ReadLastBatch, LastBlockRead, TypeOK, Result
  <2>3. QED
      BY <1>6, <2>1, <2>2 DEF ReadLastBatch, LastBlockRead, TypeOK, chainVars, argVars
<1>7. CASE QueryFails
  <2>1. deltaBlock' \in 0..InitialDelta
      BY <1>7, HalvingShrinks DEF QueryFails, TriesLeft, TypeOK
  <2>2. trial' \in 0..(MaxTrials - 1)
      BY <1>7 DEF QueryFails, TriesLeft, TypeOK
  <2>3. QED
      BY <1>7, <2>1, <2>2 DEF QueryFails, TriesLeft, TypeOK, chainVars, argVars
<1>8. CASE GiveUp
    BY <1>8 DEF GiveUp, TypeOK, Failure, NoLogs, Result, chainVars, argVars
<1>9. CASE UNCHANGED vars
    BY <1>9 DEF TypeOK, vars
<1>10. QED
    BY <1>1, <1>2, <1>3, <1>4, <1>5, <1>6, <1>7, <1>8, <1>9 DEF Next, ScanStep

LEMMA NextLogsExact == TypeOK /\ LogsExact /\ [Next]_vars => LogsExact'
<1> SUFFICES ASSUME TypeOK, LogsExact, [Next]_vars
             PROVE  LogsExact'
    OBVIOUS
<1> USE MaxBlockAssumption, DeltaAssumption
<1>1. CASE Mine
    BY <1>1 DEF Mine, LogsExact, argVars
<1>2. ASSUME NEW s \in 1..(MaxBlock + 1), Call(s)
      PROVE  LogsExact'
    BY <1>2 DEF Call, LogsExact, TypeOK, Placement, NoLogs, chainVars
<1>3. ASSUME NEW s \in 1..(MaxBlock + 1), CallRefused(s)
      PROVE  LogsExact'
    BY <1>3 DEF CallRefused, LogsExact, chainVars, argVars
<1>4. CASE HeaderFails
    BY <1>4 DEF HeaderFails, LogsExact, chainVars, argVars
<1>5. CASE ReadBatch
  <2>1. /\ pc = "scan"
        /\ startBlock' = startBlock + deltaBlock + 1
        /\ startBlock + deltaBlock < nowBlock
        /\ blockOf' = blockOf
        /\ fromBlock' = fromBlock
        /\ nowBlock' = nowBlock
      BY <1>5 DEF ReadBatch, NextBatchStart, BatchEnd, chainVars, argVars, TypeOK
  <2>2. /\ fromBlock <= startBlock
        /\ fromBlock \in Nat
        /\ startBlock \in Nat
        /\ deltaBlock \in Nat
        /\ nowBlock \in Nat
      BY <2>1 DEF LogsExact, TypeOK
  <2>3. ASSUME NEW e \in Event
        PROVE  logs'[e] = IF blockOf'[e] \in fromBlock'..(startBlock' - 1)
                          THEN 1 ELSE 0
    <3>1. logs'[e] = IF blockOf[e] \in startBlock..(startBlock + deltaBlock)
                     THEN logs[e] + 1 ELSE logs[e]
        BY <1>5, AppendLogsCounts DEF ReadBatch, BatchEnd, TypeOK
    <3>2. logs[e] = IF blockOf[e] \in fromBlock..(startBlock - 1) THEN 1 ELSE 0
        BY <2>1 DEF LogsExact
    <3>3. blockOf[e] \in Nat
        BY DEF TypeOK, Placement
    <3>4. QED
        BY <2>1, <2>2, <3>1, <3>2, <3>3
  <2>4. QED
      BY <2>1, <2>2, <2>3 DEF LogsExact
<1>6. CASE ReadLastBatch
    BY <1>6 DEF ReadLastBatch, LastBlockRead, LogsExact
<1>7. CASE QueryFails
    BY <1>7 DEF QueryFails, TriesLeft, LogsExact, chainVars, argVars
<1>8. CASE GiveUp
    BY <1>8 DEF GiveUp, LogsExact
<1>9. CASE UNCHANGED vars
    BY <1>9 DEF LogsExact, vars
<1>10. QED
    BY <1>1, <1>2, <1>3, <1>4, <1>5, <1>6, <1>7, <1>8, <1>9 DEF Next, ScanStep

\* FilterEvents keeps its variables in their types, and never tries a query
\* more than MaxTrials times in one call (filterer.go, the trial loop).
THEOREM TypeCorrect == Spec => []TypeOK
<1>1. Init => TypeOK /\ LogsExact
    BY InitTypeOK DEF Init, LogsExact
<1>2. TypeOK /\ LogsExact /\ [Next]_vars => (TypeOK /\ LogsExact)'
    BY NextTypeOK, NextLogsExact
<1>3. QED
    BY <1>1, <1>2, PTL DEF Spec

\* However queries fail and are retried, the slice of a running scan holds
\* each event of the blocks passed exactly once (filterer.go, the inner loop).
THEOREM SliceExact == Spec => []LogsExact
<1>1. Init => TypeOK /\ LogsExact
    BY InitTypeOK DEF Init, LogsExact
<1>2. TypeOK /\ LogsExact /\ [Next]_vars => (TypeOK /\ LogsExact)'
    BY NextTypeOK, NextLogsExact
<1>3. QED
    BY <1>1, <1>2, PTL DEF Spec

-----------------------------------------------------------------------------
(***************************************************************************)
(* Refinement                                                              *)
(***************************************************************************)

\* The slice returned by the last batch is the delivery EventScan promises.
LEMMA LastBatchDelivers ==
    ASSUME TypeOK, LogsExact, ReadLastBatch
    PROVE  logs' = Scan!LogsOf(fromBlock, head)
<1> USE MaxBlockAssumption
<1>1. /\ pc = "scan"
      /\ logs' = AppendLogs(startBlock, head)
    BY DEF ReadLastBatch, LastBlockRead
<1>2. logs' \in [Event -> Nat]
    BY <1>1, AppendLogsCounts DEF TypeOK
<1>3. /\ fromBlock <= startBlock
      /\ startBlock <= head
      /\ fromBlock \in Nat
      /\ startBlock \in Nat
      /\ head \in Nat
    BY <1>1 DEF LogsExact, TypeOK
<1>4. ASSUME NEW e \in Event
      PROVE  logs'[e] = IF blockOf[e] \in fromBlock..head THEN 1 ELSE 0
  <2>1. logs'[e] = IF blockOf[e] \in startBlock..head THEN logs[e] + 1 ELSE logs[e]
      BY <1>1, AppendLogsCounts DEF TypeOK
  <2>2. logs[e] = IF blockOf[e] \in fromBlock..(startBlock - 1) THEN 1 ELSE 0
      BY <1>1 DEF LogsExact
  <2>3. blockOf[e] \in Nat
      BY DEF TypeOK, Placement
  <2>4. QED
      BY <1>3, <2>1, <2>2, <2>3
<1>5. QED
    BY <1>2, <1>4 DEF Scan!LogsOf, LogsBetween, Scan!LogsBetween

LEMMA InitRefines == Init => Scan!Init
BY DEF Init, Scan!Init, Failure, Scan!Failure, NoLogs, Scan!NoLogs,
       Placement, Scan!Placement

LEMMA NextRefines == TypeOK /\ LogsExact /\ [Next]_vars => [Scan!Next]_(Scan!vars)
<1> SUFFICES ASSUME TypeOK, LogsExact, [Next]_vars
             PROVE  [Scan!Next]_(Scan!vars)
    OBVIOUS
<1> USE MaxBlockAssumption DEF chainVars, argVars, Scan!vars
<1>1. CASE Mine
  <2>1. Scan!Mine
      BY <1>1 DEF Mine, Scan!Mine
  <2>2. QED
      BY <2>1 DEF Scan!Next
<1>2. ASSUME NEW s \in 1..(MaxBlock + 1), Call(s)
      PROVE  Scan!Begin
  <2>1. s \in 1..head
      BY <1>2 DEF Call, TypeOK
  <2>2. QED
      BY <1>2, <2>1 DEF Call, Scan!Begin
<1>3. ASSUME NEW s \in 1..(MaxBlock + 1), CallRefused(s)
      PROVE  Scan!Reject
    BY <1>3 DEF CallRefused, Scan!Reject, Failure, Scan!Failure, NoLogs, Scan!NoLogs
<1>4. CASE HeaderFails
  <2>1. Scan!Reject
      BY <1>4 DEF HeaderFails, Scan!Reject, Failure, Scan!Failure, NoLogs, Scan!NoLogs
  <2>2. QED
      BY <2>1 DEF Scan!Next
<1>5. CASE ReadBatch
    BY <1>5 DEF ReadBatch
<1>6. CASE ReadLastBatch
  <2>1. Scan!Deliver
      BY <1>6, LastBatchDelivers DEF ReadLastBatch, LastBlockRead, Scan!Deliver
  <2>2. QED
      BY <2>1 DEF Scan!Next
<1>7. CASE QueryFails
    BY <1>7 DEF QueryFails
<1>8. CASE GiveUp
  <2>1. Scan!Fail
      BY <1>8 DEF GiveUp, Scan!Fail, Failure, Scan!Failure, NoLogs, Scan!NoLogs
  <2>2. QED
      BY <2>1 DEF Scan!Next
<1>9. CASE UNCHANGED vars
    BY <1>9 DEF vars
<1>10. QED
    BY <1>1, <1>2, <1>3, <1>4, <1>5, <1>6, <1>7, <1>8, <1>9
       DEF Next, ScanStep, Scan!Next

\* FilterEvents keeps the promise of EventScan: a successful call delivers
\* every event from its start block to the head exactly once and reports the
\* header's block, a failed call delivers nothing.
THEOREM Refinement == Spec => ImplementsEventScan
<1>1. Init => Scan!Init
    BY InitRefines
<1>2. TypeOK /\ LogsExact /\ [Next]_vars => [Scan!Next]_(Scan!vars)
    BY NextRefines
<1>3. QED
    BY <1>1, <1>2, TypeCorrect, SliceExact, PTL
       DEF Spec, ImplementsEventScan, Scan!Spec
=============================================================================
