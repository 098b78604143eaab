--------------------------- MODULE RunFilterProofs ---------------------------
(***************************************************************************)
(* For every set of events, handlers and traders, every chain and any      *)
(* number of crashes and failing statements: the type invariant, that      *)
(* neither LastBlockTo nor an answer of DBGetLatestBlock passes an event   *)
(* that was not fetched, what moves LastBlockTo back, and what has to go   *)
(* wrong before an announced block is not collected.                       *)
(***************************************************************************)
EXTENDS RunFilter, TLAPS

USE DEF Streams, Callers

-----------------------------------------------------------------------------
(***************************************************************************)
(* The inductive invariant behind NothingSkipped and AnswerAccounted:      *)
(* every block number that can reach LastBlockTo or an answer is accounted *)
(* for, wherever it is kept.                                               *)
(***************************************************************************)
BatchOnlyInInsert == \A s \in Streams : pc[s] # "insert" => batch[s] = {}

RowsAccounted == \A s \in Streams : \A r \in table[s] : Accounted(s, r.toBlock)

LookupsAccounted ==
    \A c \in Callers :
        lookup[c].at \in {"assign", "returned"} => Accounted(lookup[c].on, lookup[c].block)

ScansAccounted ==
    \A s \in Streams :
        /\ pc[s] = "scan" => /\ upToBlock[s] <= head
                            /\ Accounted(s, fromBlock[s] - 1)
        /\ pc[s] = "insert" => Accounted(s, upToBlock[s])

HandlersAccounted ==
    \A h \in Handlers :
        /\ hpc[h] \in Streams => lookup[h].on = hpc[h]
        /\ hpc[h] = "transfers" => Accounted("delegates", latest[h])
        /\ hpc[h] = "answered" => \A s \in Streams : Accounted(s, latest[h])

IInv ==
    /\ TypeOK
    /\ BatchOnlyInInsert
    /\ NothingSkipped
    /\ RowsAccounted
    /\ LookupsAccounted
    /\ ScansAccounted
    /\ HandlersAccounted

-----------------------------------------------------------------------------
(***************************************************************************)
(* Behind TransfersStored, besides IInv: as long as the clock is not set   *)
(* back, no row is as young as the next one.                               *)
(***************************************************************************)
RowsInThePast == faults = 0 => \A r \in table["transfers"] : r.createdOn < clock

TransfersNotDropped == crashes = 0 /\ faults = 0 => dropped["transfers"] = {}

-----------------------------------------------------------------------------
(***************************************************************************)
(* The inductive invariant behind ProgressKept: only a goroutine's own     *)
(* scan writes rows of its stream, with the block it then caches, so what  *)
(* a lookup finds in the rows is never ahead of a scan, and what the       *)
(* goroutine's own lookup finds is never behind the cache.                 *)
(***************************************************************************)
BlocksBehindHead ==
    \A s \in Streams : /\ lastBlockTo[s] <= head
                       /\ \A b \in ToBlocks(s) : b <= head

LookupsInRows ==
    \A c \in Callers : lookup[c].at = "assign" => lookup[c].block \in ToBlocks(lookup[c].on)

\* The cache was not set when the goroutine looked.
OwnLookupCurrent ==
    \A s \in Streams :
        /\ lookup[s].at # "out" => pc[s] = "lookup"
        /\ lookup[s].at \in {"query", "assign"} =>
              \/ lastBlockTo[s] = 0
              \/ \E b \in ToBlocks(s) : lastBlockTo[s] = CacheValue(b)
        /\ lookup[s].at = "assign" => IsMaxToBlock(s, lookup[s].block)

ScansAhead ==
    \A s \in Streams : pc[s] \in {"scan", "insert"} =>
        /\ Genesis <= upToBlock[s] /\ upToBlock[s] <= head
        /\ lastBlockTo[s] <= upToBlock[s]
        /\ \A b \in ToBlocks(s) : b <= upToBlock[s]

ProgressInv ==
    /\ TypeOK
    /\ BlocksBehindHead
    /\ LookupsInRows
    /\ OwnLookupCurrent
    /\ ScansAhead

LEMMA InitTypeOK == Init => TypeOK
BY MaxBlockAssumption, GenesisAssumption, BoundsAssumption
   DEF Init, TypeOK, Row, LookupState, Idle

\* What a step of caller c does to the lookups.
LEMMA MovedLookup ==
    ASSUME TypeOK, NEW c \in Callers, NEW b \in 0..MaxBlock,
           NEW at \in {"check", "query", "assign", "returned"}
    PROVE  /\ Moved(c, at, b) \in [Callers -> LookupState]
           /\ Moved(c, at, b)[c] = [at |-> at, on |-> lookup[c].on, block |-> b]
BY DEF Moved, TypeOK, LookupState

LEMMA MovedOnOwn ==
    ASSUME TypeOK, NEW c \in Callers, lookup[c].at # "out", NEW b \in 0..MaxBlock,
           NEW at \in {"check", "query", "assign", "returned"},
           NEW s \in Streams, Moved(c, at, b)[s].at # "out"
    PROVE  Moved(c, at, b)[s].on = s
<1>1. lookup[s].at # "out" => lookup[s].on = s
    BY DEF TypeOK
<1>2. CASE s = c
  <2>1. Moved(c, at, b)[c] = [at |-> at, on |-> lookup[c].on, block |-> b]
      BY MovedLookup
  <2>2. QED
      BY <1>1, <1>2, <2>1
<1>3. CASE s # c
  <2>1. Moved(c, at, b)[s] = lookup[s]
      BY <1>3 DEF Moved, TypeOK
  <2>2. QED
      BY <1>1, <2>1, Zenon
<1>4. QED
    BY <1>2, <1>3

\* The steps of one caller of Db...StartBlock keep the types.
LEMMA LookupTypeOK ==
    ASSUME TypeOK, NEW c \in Callers, Lookup(c)
    PROVE  TypeOK'
<1>a. ASSUME NEW b \in 0..MaxBlock,
             NEW at \in {"check", "query", "assign", "returned"},
             lookup[c].at # "out", lookup' = Moved(c, at, b)
      PROVE  /\ lookup' \in [Callers -> LookupState]
             /\ \A s \in Streams : lookup'[s].at # "out" => lookup'[s].on = s
  <2>1. lookup' \in [Callers -> LookupState]
      BY <1>a, MovedLookup
  <2>2. \A s \in Streams : lookup'[s].at # "out" => lookup'[s].on = s
      BY <1>a, MovedOnOwn
  <2>3. QED
      BY <2>1, <2>2
<1> USE MaxBlockAssumption, GenesisAssumption, BoundsAssumption
<1> USE DEF TypeOK, Row, chainVars, dbVars, scanVars, handlerVars, boundVars
<1>1. CASE CacheHit(c)
  <2>1. lastBlockTo[lookup[c].on] \in 0..MaxBlock
      BY DEF LookupState
  <2>2. QED
      BY <1>1, <1>a, <2>1 DEF CacheHit
<1>2. CASE CacheMiss(c)
    BY <1>2, <1>a DEF CacheMiss
<1>3. CASE ReadMaxToBlock(c)
  <2>1. PICK b \in ToBlocks(lookup[c].on) :
            lookup' = Moved(c, "assign", b)
      BY <1>3 DEF ReadMaxToBlock
  <2>2. b \in 0..MaxBlock
      BY DEF ToBlocks, LookupState
  <2>3. QED
      BY <1>3, <1>a, <2>1, <2>2 DEF ReadMaxToBlock
<1>4. CASE ReadMaxToBlockFails(c)
    BY <1>4, <1>a DEF ReadMaxToBlockFails
<1>5. CASE AssignCache(c)
  <2>1. CacheValue(lookup[c].block) \in 0..MaxBlock
      BY DEF CacheValue, LookupState
  <2>2. QED
      BY <1>5, <1>a, <2>1 DEF AssignCache, LookupState
<1>6. QED
    BY <1>1, <1>2, <1>3, <1>4, <1>5 DEF Lookup

\* The other steps of a goroutine of RunFilter keep the types.
LEMMA ScanTypeOK ==
    ASSUME TypeOK, NEW s \in Streams, Goroutine(s), ~Lookup(s)
    PROVE  TypeOK'
<1> USE MaxBlockAssumption, GenesisAssumption, BoundsAssumption
<1> USE DEF TypeOK, Row, LookupState, Idle, GoroutineDone, AbandonBatch,
            chainVars, dbVars, handlerVars, boundVars
<1>1. CASE ScanBegins(s)
    BY <1>1 DEF ScanBegins, ScanStart
<1>2. CASE ScanRefused(s)
    BY <1>2 DEF ScanRefused
<1>3. CASE ScanDelivers(s)
    BY <1>3 DEF ScanDelivers, LogsBetween
<1>4. CASE ScanFails(s)
    BY <1>4 DEF ScanFails
<1>5. CASE InsertRow(s)
  <2>1. clock' \in Nat
      BY <1>5 DEF InsertRow, ClockMovesOn
  <2>2. PICK e \in batch[s] :
            /\ table' = [table EXCEPT ![s] = @ \cup {NewRow(s, e)}]
            /\ batch' = [batch EXCEPT ![s] = @ \ {e}]
      BY <1>5 DEF InsertRow
  <2>3. NewRow(s, e) \in Row
      BY DEF NewRow, CreatedOn
  <2>4. QED
      BY <1>5, <2>1, <2>2, <2>3 DEF InsertRow
<1>6. CASE InsertCollides(s)
    BY <1>6 DEF InsertCollides, ClockMovesOn
<1>7. CASE InsertFails(s)
    BY <1>7 DEF InsertFails, ClockMovesOn
<1>8. CASE SetLastBlockTo(s)
    BY <1>8 DEF SetLastBlockTo
<1>9. QED
    BY <1>1, <1>2, <1>3, <1>4, <1>5, <1>6, <1>7, <1>8 DEF Goroutine

\* The other steps of a handler keep the types.
LEMMA HandlerTypeOK ==
    ASSUME TypeOK, NEW h \in Handlers, Handler(h), ~Lookup(h)
    PROVE  TypeOK'
<1> USE MaxBlockAssumption, HandlersAssumption
<1> USE DEF TypeOK, LookupState, Idle, StartOf, chainVars, dbVars, scanVars, boundVars
<1>1. CASE Request(h)
    BY <1>1 DEF Request
<1>2. CASE DelegatesLookedUp(h)
    BY <1>2 DEF DelegatesLookedUp
<1>3. CASE TransfersLookedUp(h)
    BY <1>3 DEF TransfersLookedUp, Smaller
<1>4. CASE Done(h)
    BY <1>4 DEF Done
<1>5. QED
    BY <1>1, <1>2, <1>3, <1>4 DEF Handler

LEMMA NextTypeOK == TypeOK /\ [Next]_vars => TypeOK'
<1> SUFFICES ASSUME TypeOK, [Next]_vars
             PROVE  TypeOK'
    OBVIOUS
<1> USE MaxBlockAssumption, GenesisAssumption, BoundsAssumption
<1>1. CASE Mine
    BY <1>1 DEF Mine, TypeOK, dbVars, scanVars, handlerVars, boundVars
<1>2. CASE Run
    BY <1>2 DEF Run, TypeOK, LookupState, StartOf, chainVars, dbVars, handlerVars, boundVars
<1>3. CASE Crash
    BY <1>3 DEF Crash, TypeOK, LookupState, Idle, chainVars
<1>4. CASE UNCHANGED vars
    BY <1>4 DEF TypeOK, vars, chainVars, dbVars, scanVars, handlerVars, boundVars
<1>5. CASE ClockSetBack
  <2>1. clock' \in Nat
      BY <1>5 DEF ClockSetBack, TypeOK
  <2>2. faults' \in 0..MaxFaults
      BY <1>5 DEF ClockSetBack, TypeOK
  <2>3. QED
      BY <1>5, <2>1, <2>2 DEF ClockSetBack, TypeOK, chainVars, scanVars, handlerVars
<1>6. QED
    BY <1>1, <1>2, <1>3, <1>4, <1>5, LookupTypeOK, ScanTypeOK, HandlerTypeOK
       DEF Next, Goroutine, Handler

\* Every variable keeps to its type: DbGet...StartBlock, the scan and the
\* handlers never hold a block beyond the chain.
THEOREM TypeCorrect == Spec => []TypeOK
BY InitTypeOK, NextTypeOK, PTL DEF Spec

-----------------------------------------------------------------------------
(***************************************************************************)
(* What is known of the events only grows                                  *)
(***************************************************************************)

LEMMA AccountedBelow ==
    ASSUME NEW s \in Streams, NEW b \in Int, NEW c \in Int, c <= b, Accounted(s, b),
           blockOf \in [Streams -> [Event -> Genesis..MaxBlock]]
    PROVE  Accounted(s, c)
BY GenesisAssumption, MaxBlockAssumption DEF Accounted

LEMMA AccountedGenesis ==
    ASSUME NEW s \in Streams, NEW b \in Int, b <= Genesis,
           blockOf \in [Streams -> [Event -> Genesis..MaxBlock]]
    PROVE  Accounted(s, b)
BY GenesisAssumption, MaxBlockAssumption DEF Accounted

\* The batch exists only between ScanDelivers and the end of the goroutine,
\* so the next ScanDelivers overwrites no batch.
LEMMA NextBatchOnlyInInsert ==
    TypeOK /\ BatchOnlyInInsert /\ [Next]_vars => BatchOnlyInInsert'
<1> SUFFICES ASSUME TypeOK, BatchOnlyInInsert, [Next]_vars,
                    NEW t \in Streams, pc'[t] # "insert"
             PROVE  batch'[t] = {}
    BY DEF BatchOnlyInInsert
<1> USE DEF BatchOnlyInInsert, TypeOK, scanVars
<1>1. CASE Mine \/ ClockSetBack
    BY <1>1 DEF Mine, ClockSetBack
<1>2. CASE Run
    BY <1>2 DEF Run
<1>3. CASE Crash
    BY <1>3 DEF Crash
<1>4. CASE \E c \in Callers : Lookup(c)
    BY <1>4 DEF Lookup, CacheHit, CacheMiss, ReadMaxToBlock, ReadMaxToBlockFails, AssignCache
<1>5. ASSUME NEW s \in Streams, Goroutine(s), ~Lookup(s)
      PROVE  batch'[t] = {}
  <2>1. CASE ScanBegins(s)
      BY <2>1 DEF ScanBegins
  <2>2. CASE ScanRefused(s)
      BY <2>2 DEF ScanRefused
  <2>3. CASE ScanDelivers(s)
      BY <2>3 DEF ScanDelivers
  <2>4. CASE ScanFails(s)
      BY <2>4 DEF ScanFails, GoroutineDone
  <2>5. CASE InsertRow(s)
      BY <2>5 DEF InsertRow
  <2>6. CASE InsertCollides(s) \/ InsertFails(s)
      BY <2>6 DEF InsertCollides, InsertFails, AbandonBatch
  <2>7. CASE SetLastBlockTo(s)
      BY <2>7 DEF SetLastBlockTo, GoroutineDone
  <2>8. QED
      BY <1>5, <2>1, <2>2, <2>3, <2>4, <2>5, <2>6, <2>7 DEF Goroutine
<1>6. CASE \E h \in Handlers : Request(h) \/ DelegatesLookedUp(h) \/ TransfersLookedUp(h) \/ Done(h)
    BY <1>6 DEF Request, DelegatesLookedUp, TransfersLookedUp, Done
<1>7. CASE UNCHANGED vars
    BY <1>7 DEF vars
<1>8. QED
    BY <1>1, <1>2, <1>3, <1>4, <1>5, <1>6, <1>7 DEF Next, Goroutine, Handler

\* An event that is stored, being inserted or dropped stays one of these:
\* rows are never deleted, and a batch goes to the table or is dropped.
LEMMA KnownGrows ==
    ASSUME TypeOK, BatchOnlyInInsert, [Next]_vars
    PROVE  /\ blockOf' = blockOf
           /\ \A s \in Streams : Known(s) \subseteq Known(s)'
<1> SUFFICES ASSUME NEW t \in Streams
             PROVE  blockOf' = blockOf /\ Known(t) \subseteq Known(t)'
    OBVIOUS
<1> USE DEF Known, Stored, TypeOK, chainVars, dbVars, scanVars
<1>1. CASE Mine \/ ClockSetBack
    BY <1>1 DEF Mine, ClockSetBack
<1>2. CASE Run
    BY <1>2 DEF Run
<1>3. CASE Crash
    BY <1>3 DEF Crash
<1>4. CASE \E c \in Callers : Lookup(c)
    BY <1>4 DEF Lookup, CacheHit, CacheMiss, ReadMaxToBlock, ReadMaxToBlockFails, AssignCache
<1>5. ASSUME NEW s \in Streams, Goroutine(s), ~Lookup(s)
      PROVE  blockOf' = blockOf /\ Known(t) \subseteq Known(t)'
  <2>1. CASE ScanBegins(s)
      BY <2>1 DEF ScanBegins
  <2>2. CASE ScanRefused(s)
      BY <2>2 DEF ScanRefused
  <2>3. CASE ScanDelivers(s)
    <3>1. batch[s] = {}
        BY <2>3 DEF ScanDelivers, BatchOnlyInInsert
    <3>2. QED
        BY <2>3, <3>1 DEF ScanDelivers
  <2>4. CASE ScanFails(s)
      BY <2>4 DEF ScanFails
  <2>5. CASE InsertRow(s)
    <3>1. PICK e \in batch[s] :
            /\ table' = [table EXCEPT ![s] = @ \cup {NewRow(s, e)}]
            /\ batch' = [batch EXCEPT ![s] = @ \ {e}]
        BY <2>5 DEF InsertRow
    <3>2. Stored(t) \subseteq Stored(t)'
        BY <3>1
    <3>3. t = s => e \in Stored(t)'
      <4>1. NewRow(s, e).event = e
          BY DEF NewRow
      <4>2. t = s => NewRow(s, e) \in table'[t]
          BY <3>1
      <4>3. QED
          BY <4>1, <4>2
    <3>4. batch[t] \subseteq batch'[t] \cup Stored(t)'
        BY <3>1, <3>3
    <3>5. QED
        BY <2>5, <3>2, <3>4 DEF InsertRow
  <2>6. CASE InsertCollides(s) \/ InsertFails(s)
      BY <2>6 DEF InsertCollides, InsertFails, AbandonBatch
  <2>7. CASE SetLastBlockTo(s)
      BY <2>7 DEF SetLastBlockTo
  <2>8. QED
      BY <1>5, <2>1, <2>2, <2>3, <2>4, <2>5, <2>6, <2>7 DEF Goroutine
<1>6. CASE \E h \in Handlers : Request(h) \/ DelegatesLookedUp(h) \/ TransfersLookedUp(h) \/ Done(h)
    BY <1>6 DEF Request, DelegatesLookedUp, TransfersLookedUp, Done
<1>7. CASE UNCHANGED vars
    BY <1>7 DEF vars
<1>8. QED
    BY <1>1, <1>2, <1>3, <1>4, <1>5, <1>6, <1>7 DEF Next, Goroutine, Handler

LEMMA AccountedKept ==
    ASSUME TypeOK, BatchOnlyInInsert, [Next]_vars
    PROVE  \A s \in Streams, b \in Int : Accounted(s, b) => Accounted(s, b)'
BY KnownGrows DEF Accounted

-----------------------------------------------------------------------------
(***************************************************************************)
(* The inductive invariant                                                 *)
(***************************************************************************)

LEMMA InitIInv == Init => IInv
<1> SUFFICES ASSUME Init
             PROVE  IInv
    OBVIOUS
<1>1. TypeOK
    BY InitTypeOK
<1>2. NothingSkipped
    BY <1>1, AccountedGenesis, GenesisAssumption DEF Init, NothingSkipped, TypeOK
<1>3. QED
    BY <1>1, <1>2 DEF Init, IInv, Idle, BatchOnlyInInsert, RowsAccounted,
       LookupsAccounted, ScansAccounted, HandlersAccounted

\* LastBlockTo is assigned by a lookup, at the end of a goroutine, and is 0
\* after a crash.
LEMMA NextNothingSkipped ==
    ASSUME IInv, [Next]_vars, TypeOK'
    PROVE  NothingSkipped'
<1> USE DEF IInv
<1> SUFFICES ASSUME NEW t \in Streams, NEW b \in Int, b = lastBlockTo'[t]
             PROVE  Accounted(t, b)
  <2>1. \A t \in Streams : lastBlockTo'[t] \in Int
      BY MaxBlockAssumption DEF TypeOK
  <2>2. QED
      BY <2>1, AccountedKept DEF NothingSkipped
<1>1. CASE lastBlockTo'[t] = lastBlockTo[t]
    BY <1>1 DEF NothingSkipped
<1>2. CASE \E c \in Callers : AssignCache(c)
  <2>1. PICK c \in Callers : AssignCache(c)
      BY <1>2
  <2>2. CASE lookup[c].on = t
    <3>1. b = CacheValue(lookup[c].block)
        BY <2>1, <2>2 DEF AssignCache, TypeOK
    <3>2. Accounted(t, lookup[c].block)
        BY <2>1, <2>2 DEF AssignCache, LookupsAccounted
    <3>3. Accounted(t, Genesis)
        BY AccountedGenesis, GenesisAssumption DEF TypeOK
    <3>4. QED
        BY <3>1, <3>2, <3>3 DEF CacheValue
  <2>3. CASE lookup[c].on # t
      BY <1>1, <2>1, <2>3 DEF AssignCache, TypeOK
  <2>4. QED
      BY <2>2, <2>3
<1>3. CASE \E s \in Streams : SetLastBlockTo(s)
  <2>1. PICK s \in Streams : SetLastBlockTo(s)
      BY <1>3
  <2>2. CASE s = t
    <3>1. b = upToBlock[t]
        BY <2>1, <2>2 DEF SetLastBlockTo, TypeOK
    <3>2. QED
        BY <2>1, <2>2, <3>1 DEF SetLastBlockTo, ScansAccounted
  <2>3. CASE s # t
      BY <1>1, <2>1, <2>3 DEF SetLastBlockTo, TypeOK
  <2>4. QED
      BY <2>2, <2>3
<1>4. CASE Crash
  <2>1. b = 0
      BY <1>4 DEF Crash
  <2>2. QED
      BY <2>1, AccountedGenesis, GenesisAssumption DEF TypeOK
<1>5. QED
    BY <1>1, <1>2, <1>3, <1>4
       DEF Next, Mine, ClockSetBack, Run, Goroutine, Handler, Lookup, CacheHit, CacheMiss,
           ReadMaxToBlock, ReadMaxToBlockFails, ScanBegins, ScanRefused,
           ScanDelivers, ScanFails, InsertRow, InsertCollides, InsertFails,
           AbandonBatch, Request, DelegatesLookedUp, TransfersLookedUp, Done, vars

\* Rows are written by InsertRow, with the block its scan goes up to.
LEMMA NextRowsAccounted ==
    ASSUME IInv, [Next]_vars, TypeOK'
    PROVE  RowsAccounted'
<1> USE DEF IInv
<1> SUFFICES ASSUME NEW t \in Streams, NEW r \in table'[t], NEW b \in Int, b = r.toBlock
             PROVE  Accounted(t, b)
  <2>1. \A t \in Streams : \A r \in table'[t] : r.toBlock \in Int
      BY MaxBlockAssumption DEF TypeOK, Row
  <2>2. QED
      BY <2>1, AccountedKept DEF RowsAccounted
<1>1. CASE r \in table[t]
    BY <1>1 DEF RowsAccounted
<1>2. CASE \E s \in Streams : InsertRow(s)
  <2>1. PICK s \in Streams : InsertRow(s)
      BY <1>2
  <2>2. PICK e \in batch[s] :
            table' = [table EXCEPT ![s] = @ \cup {NewRow(s, e)}]
      BY <2>1 DEF InsertRow
  <2>3. CASE s = t /\ r \notin table[t]
    <3>1. b = upToBlock[t]
        BY <2>2, <2>3 DEF TypeOK, NewRow
    <3>2. QED
        BY <2>1, <2>3, <3>1 DEF InsertRow, ScansAccounted
  <2>4. CASE s # t
      BY <1>1, <2>2, <2>4 DEF TypeOK
  <2>5. QED
      BY <1>1, <2>3, <2>4
<1>3. QED
    BY <1>1, <1>2
       DEF Next, Mine, ClockSetBack, Run, Crash, Goroutine, Handler, Lookup,
       CacheHit, CacheMiss,
           ReadMaxToBlock, ReadMaxToBlockFails, AssignCache, ScanBegins, ScanRefused,
           ScanDelivers, ScanFails, InsertCollides, InsertFails, AbandonBatch,
           SetLastBlockTo, Request, DelegatesLookedUp, TransfersLookedUp, Done,
           vars, dbVars

\* A lookup holds a block that was read from the cache or from the rows, or 0.
LEMMA NextLookupsAccounted ==
    ASSUME IInv, [Next]_vars, TypeOK'
    PROVE  LookupsAccounted'
<1> USE DEF IInv
<1> SUFFICES ASSUME NEW c \in Callers, NEW t \in Streams, NEW b \in Int,
                    t = lookup'[c].on, b = lookup'[c].block,
                    lookup'[c].at \in {"assign", "returned"}
             PROVE  Accounted(t, b)
  <2>1. \A c \in Callers : lookup'[c].on \in Streams /\ lookup'[c].block \in Int
      BY MaxBlockAssumption DEF TypeOK, LookupState
  <2>2. QED
      BY <2>1, AccountedKept DEF LookupsAccounted
<1>0. Accounted(t, 0)
    BY AccountedGenesis, GenesisAssumption DEF TypeOK
<1>1. CASE lookup'[c] = lookup[c]
    BY <1>1 DEF LookupsAccounted
<1>2. ASSUME NEW d \in Callers, Lookup(d)
      PROVE  Accounted(t, b)
  <2>1. CASE d # c
      BY <1>1, <1>2, <2>1 DEF Lookup, CacheHit, CacheMiss, ReadMaxToBlock,
         ReadMaxToBlockFails, AssignCache, Moved, TypeOK
  <2>2. CASE d = c /\ CacheHit(c)
    <3>1. t = lookup[c].on /\ b = lastBlockTo[t]
        BY <2>2 DEF CacheHit, Moved, TypeOK
    <3>2. QED
        BY <3>1 DEF NothingSkipped
  <2>3. CASE d = c /\ ReadMaxToBlock(c)
    <3>1. PICK x \in ToBlocks(lookup[c].on) : lookup' = Moved(c, "assign", x)
        BY <2>3 DEF ReadMaxToBlock
    <3>2. t = lookup[c].on /\ b = x
        BY <3>1 DEF Moved, TypeOK
    <3>3. CASE x = 0
        BY <1>0, <3>2, <3>3
    <3>4. CASE \E r \in table[t] : x = r.toBlock
        BY <3>2, <3>4 DEF RowsAccounted
    <3>5. QED
        BY <3>1, <3>2, <3>3, <3>4 DEF ToBlocks
  <2>4. CASE d = c /\ ReadMaxToBlockFails(c)
    <3>1. b = 0
        BY <2>4 DEF ReadMaxToBlockFails, Moved, TypeOK
    <3>2. QED
        BY <1>0, <3>1
  <2>5. CASE d = c /\ (CacheMiss(c) \/ AssignCache(c))
      BY <2>5 DEF CacheMiss, AssignCache, Moved, TypeOK
  <2>6. QED
      BY <1>2, <2>1, <2>2, <2>3, <2>4, <2>5 DEF Lookup
<1>3. CASE Run
    BY <1>1, <1>3 DEF Run, StartOf
<1>4. CASE Crash
    BY <1>4 DEF Crash, Idle
<1>5. ASSUME NEW s \in Streams, ScanBegins(s) \/ ScanRefused(s)
      PROVE  Accounted(t, b)
    BY <1>1, <1>5 DEF ScanBegins, ScanRefused, Idle, TypeOK
<1>6. ASSUME NEW h \in Handlers, Request(h) \/ DelegatesLookedUp(h) \/ TransfersLookedUp(h)
      PROVE  Accounted(t, b)
    BY <1>1, <1>6 DEF Request, DelegatesLookedUp, TransfersLookedUp, StartOf, Idle, TypeOK
<1>7. QED
    BY <1>1, <1>2, <1>3, <1>4, <1>5, <1>6
       DEF Next, Mine, ClockSetBack, Goroutine, Handler, ScanDelivers, ScanFails, InsertRow,
           InsertCollides, InsertFails, AbandonBatch, SetLastBlockTo, Done, vars

\* A scan starts right after a block that is accounted for, and when its
\* events have arrived, so is the block it reports.
LEMMA NextScansAccounted ==
    ASSUME IInv, [Next]_vars, TypeOK'
    PROVE  ScansAccounted'
<1> USE DEF IInv
<1> USE MaxBlockAssumption
<1>0. head \in Int /\ head' \in Int /\ head <= head'
    BY DEF TypeOK, Next, Mine, ClockSetBack, Run, Crash, Goroutine, Handler, Lookup,
       CacheHit, CacheMiss,
       ReadMaxToBlock, ReadMaxToBlockFails, AssignCache, ScanBegins, ScanRefused,
       ScanDelivers, ScanFails, InsertRow, InsertCollides, InsertFails, AbandonBatch,
       SetLastBlockTo, Request, DelegatesLookedUp, TransfersLookedUp, Done,
       vars, chainVars
<1>1. SUFFICES ASSUME NEW t \in Streams
      PROVE  /\ pc'[t] = "scan" => /\ upToBlock'[t] <= head'
                                   /\ Accounted(t, fromBlock[t] - 1)'
             /\ pc'[t] = "insert" => Accounted(t, upToBlock[t])'
    BY DEF ScansAccounted
<1>2. /\ fromBlock[t] - 1 \in Int /\ fromBlock'[t] - 1 \in Int
      /\ upToBlock[t] \in Int /\ upToBlock'[t] \in Int
    BY DEF TypeOK
<1>3. CASE pc'[t] = pc[t] /\ fromBlock'[t] = fromBlock[t] /\ upToBlock'[t] = upToBlock[t]
  <2>1. pc[t] = "scan" => Accounted(t, fromBlock[t] - 1)'
      BY <1>2, <1>3, AccountedKept DEF ScansAccounted
  <2>2. pc[t] = "insert" => Accounted(t, upToBlock[t])'
      BY <1>2, <1>3, AccountedKept DEF ScansAccounted
  <2>3. QED
      BY <1>0, <1>2, <1>3, <2>1, <2>2 DEF ScansAccounted
<1>4. CASE pc'[t] \in {"idle", "lookup"}
    BY <1>4
<1>5. CASE ScanBegins(t)
  <2>1. PICK b \in Int : b = lookup[t].block
      BY DEF TypeOK, LookupState
  <2>2. Accounted(t, b)
      BY <1>5, <2>1 DEF ScanBegins, LookupsAccounted, TypeOK
  <2>3. fromBlock'[t] - 1 = b
      BY <1>5, <2>1 DEF ScanBegins, ScanStart, TypeOK
  <2>4. Accounted(t, fromBlock[t] - 1)'
      BY <2>2, <2>3, AccountedKept
  <2>5. pc'[t] = "scan" /\ upToBlock'[t] = head
      BY <1>5 DEF ScanBegins, TypeOK
  <2>6. QED
      BY <1>0, <2>4, <2>5
<1>6. CASE ScanDelivers(t)
  <2>1. pc'[t] = "insert" /\ upToBlock'[t] = upToBlock[t] /\ upToBlock[t] <= head
      BY <1>6 DEF ScanDelivers, ScansAccounted, TypeOK
  <2>2. ASSUME NEW e \in Event, blockOf[t][e] \in (Genesis + 1)..upToBlock[t]
        PROVE  e \in Known(t)'
    <3>1. CASE blockOf[t][e] < fromBlock[t]
      <4>1. Accounted(t, fromBlock[t] - 1)
          BY <1>6 DEF ScanDelivers, ScansAccounted
      <4>2. blockOf[t][e] \in (Genesis + 1)..(fromBlock[t] - 1)
          BY <1>2, <2>2, <3>1, GenesisAssumption DEF TypeOK
      <4>3. QED
          BY <4>1, <4>2, KnownGrows DEF Accounted
    <3>2. CASE blockOf[t][e] >= fromBlock[t]
      <4>1. blockOf[t][e] \in fromBlock[t]..head
          BY <1>0, <1>2, <2>1, <2>2, <3>2, GenesisAssumption DEF TypeOK
      <4>2. e \in batch'[t]
          BY <1>6, <4>1 DEF ScanDelivers, LogsBetween, TypeOK
      <4>3. QED
          BY <4>2 DEF Known
    <3>3. QED
        BY <2>2, <3>1, <3>2, GenesisAssumption, <1>2 DEF TypeOK
  <2>3. Accounted(t, upToBlock[t])'
      BY <2>1, <2>2, KnownGrows DEF Accounted
  <2>4. QED
      BY <2>1, <2>3
<1>7. QED
  <2>1. CASE \E s \in Streams : ScanBegins(s) \/ ScanDelivers(s)
      BY <1>3, <1>5, <1>6, <2>1 DEF ScanBegins, ScanDelivers, TypeOK
  <2>2. CASE Run \/ Crash
      BY <1>4, <2>2 DEF Run, Crash
  <2>3. CASE \E s \in Streams : ScanRefused(s) \/ ScanFails(s) \/ SetLastBlockTo(s)
      BY <1>3, <1>4, <2>3 DEF ScanRefused, ScanFails, SetLastBlockTo, GoroutineDone, TypeOK
  <2>4. QED
      BY <1>3, <2>1, <2>2, <2>3
         DEF Next, Mine, ClockSetBack, Goroutine, Handler, Lookup, CacheHit, CacheMiss,
             ReadMaxToBlock, ReadMaxToBlockFails, AssignCache, InsertRow, InsertCollides,
             InsertFails, AbandonBatch, Request, DelegatesLookedUp, TransfersLookedUp,
             Done, vars, scanVars

\* A handler keeps the block of its first lookup until the second, and then
\* the smaller of both.
LEMMA NextHandlersAccounted ==
    ASSUME IInv, [Next]_vars, TypeOK'
    PROVE  HandlersAccounted'
<1> USE DEF IInv
<1> USE MaxBlockAssumption
<1>1. SUFFICES ASSUME NEW h \in Handlers
      PROVE  /\ hpc'[h] \in Streams => lookup'[h].on = hpc'[h]
             /\ hpc'[h] = "transfers" => Accounted("delegates", latest[h])'
             /\ hpc'[h] = "answered" => \A s \in Streams : Accounted(s, latest[h])'
    BY DEF HandlersAccounted
<1>2. latest[h] \in Int /\ latest'[h] \in Int
    BY DEF TypeOK
<1>3. CASE hpc'[h] = hpc[h] /\ latest'[h] = latest[h] /\ lookup'[h].on = lookup[h].on
  <2>1. hpc[h] = "transfers" => Accounted("delegates", latest[h])'
      BY <1>2, <1>3, AccountedKept DEF HandlersAccounted
  <2>2. hpc[h] = "answered" => \A s \in Streams : Accounted(s, latest[h])'
      BY <1>2, <1>3, AccountedKept DEF HandlersAccounted
  <2>3. QED
      BY <1>3, <2>1, <2>2 DEF HandlersAccounted
<1>4. CASE Request(h)
    BY <1>4 DEF Request, StartOf, TypeOK
<1>5. CASE DelegatesLookedUp(h)
  <2>1. /\ hpc'[h] = "transfers"
        /\ lookup'[h].on = "transfers"
        /\ latest'[h] = lookup[h].block
      BY <1>5 DEF DelegatesLookedUp, StartOf, TypeOK
  <2>2. Accounted("delegates", lookup[h].block)
      BY <1>5 DEF DelegatesLookedUp, LookupsAccounted, HandlersAccounted
  <2>3. PICK b \in Int : b = lookup[h].block
      BY DEF TypeOK, LookupState
  <2>4. Accounted("delegates", latest[h])'
      BY <2>1, <2>2, <2>3, AccountedKept
  <2>5. QED
      BY <2>1, <2>4
<1>6. CASE TransfersLookedUp(h)
  <2>1. /\ hpc'[h] = "answered"
        /\ latest'[h] = Smaller(latest[h], lookup[h].block)
      BY <1>6 DEF TransfersLookedUp, TypeOK
  <2>2. Accounted("delegates", latest[h]) /\ Accounted("transfers", lookup[h].block)
      BY <1>6 DEF TransfersLookedUp, LookupsAccounted, HandlersAccounted
  <2>3. PICK x \in Int, y \in Int : x = latest[h] /\ y = lookup[h].block
      BY DEF TypeOK, LookupState
  <2>4. PICK b \in Int : b = Smaller(x, y) /\ b <= x /\ b <= y
      BY DEF Smaller
  <2>5. \A s \in Streams : Accounted(s, b)
      BY <2>2, <2>3, <2>4, AccountedBelow DEF TypeOK
  <2>6. \A s \in Streams : Accounted(s, latest[h])'
      BY <2>1, <2>3, <2>4, <2>5, AccountedKept
  <2>7. QED
      BY <2>1, <2>6
<1>7. CASE Done(h) \/ Crash
    BY <1>7 DEF Done, Crash, TypeOK
<1>8. ASSUME NEW c \in Callers, Lookup(c)
      PROVE  hpc'[h] = hpc[h] /\ latest'[h] = latest[h] /\ lookup'[h].on = lookup[h].on
    BY <1>8 DEF Lookup, CacheHit, CacheMiss, ReadMaxToBlock, ReadMaxToBlockFails,
       AssignCache, Moved, handlerVars, TypeOK
<1>9. ASSUME NEW g \in Handlers, g # h, Handler(g), ~Lookup(g)
      PROVE  hpc'[h] = hpc[h] /\ latest'[h] = latest[h] /\ lookup'[h].on = lookup[h].on
  <2>1. CASE Request(g)
      BY <1>9, <2>1 DEF Request, TypeOK
  <2>2. CASE DelegatesLookedUp(g)
      BY <1>9, <2>2 DEF DelegatesLookedUp, TypeOK
  <2>3. CASE TransfersLookedUp(g)
      BY <1>9, <2>3 DEF TransfersLookedUp, TypeOK
  <2>4. CASE Done(g)
      BY <1>9, <2>4 DEF Done, TypeOK
  <2>5. QED
      BY <1>9, <2>1, <2>2, <2>3, <2>4 DEF Handler
<1>10. ASSUME NEW s \in Streams, Goroutine(s), ~Lookup(s)
       PROVE  hpc'[h] = hpc[h] /\ latest'[h] = latest[h] /\ lookup'[h].on = lookup[h].on
    BY <1>10, HandlersAssumption
       DEF Goroutine, ScanBegins, ScanRefused, ScanDelivers, ScanFails, InsertRow,
           InsertCollides, InsertFails, AbandonBatch, SetLastBlockTo, handlerVars, TypeOK
<1>11. CASE Mine \/ ClockSetBack \/ Run \/ UNCHANGED vars
    BY <1>3, <1>11, HandlersAssumption DEF Mine, ClockSetBack, Run, vars, handlerVars
<1>12. QED
    BY <1>3, <1>4, <1>5, <1>6, <1>7, <1>8, <1>9, <1>10, <1>11 DEF Next, Goroutine, Handler

LEMMA NextIInv == IInv /\ [Next]_vars => IInv'
<1> SUFFICES ASSUME IInv, [Next]_vars
             PROVE  IInv'
    OBVIOUS
<1>1. TypeOK'
    BY NextTypeOK DEF IInv
<1>2. BatchOnlyInInsert'
    BY NextBatchOnlyInInsert DEF IInv
<1>3. QED
    BY <1>1, <1>2, NextNothingSkipped, NextRowsAccounted, NextLookupsAccounted,
       NextScansAccounted, NextHandlersAccounted DEF IInv

\* LastBlockTo never passes an event that was not fetched, whatever scans,
\* statements and processes fail and however the handlers interleave.
THEOREM NothingIsSkipped == Spec => []NothingSkipped
<1>1. IInv => NothingSkipped
    BY DEF IInv
<1>2. QED
    BY <1>1, InitIInv, NextIInv, PTL DEF Spec

\* Neither does the block DBGetLatestBlock returns, for either stream.
THEOREM AnswersAreAccounted == Spec => []AnswerAccounted
<1>1. IInv => AnswerAccounted
    BY DEF IInv, HandlersAccounted, AnswerAccounted
<1>2. QED
    BY <1>1, InitIInv, NextIInv, PTL DEF Spec

-----------------------------------------------------------------------------
(***************************************************************************)
(* TransfersStored                                                         *)
(***************************************************************************)

\* The clock may be set back, which is a fault.
LEMMA ClockStep ==
    ASSUME TypeOK, TypeOK', [Next]_vars, faults' = 0
    PROVE  /\ faults = 0
           /\ \/ clock' = clock /\ table'["transfers"] = table["transfers"]
              \/ clock' = clock + 1 /\ table'["transfers"] = table["transfers"]
              \/ /\ clock' = clock + 1
                 /\ \E e \in Event :
                       table'["transfers"] = table["transfers"] \cup {NewRow("transfers", e)}
<1>1. faults \in Nat /\ faults' \in {faults, faults + 1}
    BY BoundsAssumption
       DEF TypeOK, Next, Mine, ClockSetBack, Run, Crash, Goroutine, Handler, Lookup, CacheHit,
           CacheMiss, ReadMaxToBlock, ReadMaxToBlockFails, AssignCache, ScanBegins, ScanRefused,
           ScanDelivers, ScanFails, InsertRow, InsertCollides, InsertFails, AbandonBatch,
           SetLastBlockTo, Request, DelegatesLookedUp, TransfersLookedUp, Done,
           vars, boundVars
<1>2. faults = 0
    BY <1>1
<1>3. ~ClockSetBack
    BY <1>2 DEF ClockSetBack
<1>4. CASE \E s \in Streams : InsertRow(s)
  <2>1. PICK s \in Streams : InsertRow(s)
      BY <1>4
  <2>2. PICK e \in batch[s] : table' = [table EXCEPT ![s] = @ \cup {NewRow(s, e)}]
      BY <2>1 DEF InsertRow
  <2>3. e \in Event
      BY <2>2 DEF TypeOK
  <2>4. clock' = IF s = "transfers" THEN clock + 1 ELSE clock
      BY <2>1 DEF InsertRow, ClockMovesOn
  <2>5. QED
      BY <1>2, <2>2, <2>3, <2>4 DEF TypeOK
<1>5. CASE \E s \in Streams : InsertCollides(s) \/ InsertFails(s)
    BY <1>2, <1>5 DEF InsertCollides, InsertFails, AbandonBatch, ClockMovesOn
<1>6. QED
    BY <1>2, <1>3, <1>4, <1>5
       DEF Next, Mine, Run, Crash, Goroutine, Handler, Lookup, CacheHit, CacheMiss,
           ReadMaxToBlock, ReadMaxToBlockFails, AssignCache, ScanBegins, ScanRefused,
           ScanDelivers, ScanFails, SetLastBlockTo, Request,
           DelegatesLookedUp, TransfersLookedUp, Done, vars, dbVars

LEMMA NextRowsInThePast ==
    ASSUME TypeOK, TypeOK', RowsInThePast, [Next]_vars
    PROVE  RowsInThePast'
<1>1. SUFFICES ASSUME faults' = 0, NEW r \in table'["transfers"]
               PROVE  r.createdOn < clock'
    BY DEF RowsInThePast
<1>2. /\ clock \in Nat /\ clock' \in Nat
      /\ \A x \in table["transfers"] : x.createdOn \in Nat /\ x.createdOn < clock
    BY <1>1, ClockStep DEF RowsInThePast, TypeOK, Row
<1>3. CASE r \in table["transfers"]
    BY <1>1, <1>2, <1>3, ClockStep
<1>4. CASE r \notin table["transfers"]
  <2>1. clock' = clock + 1 /\ \E e \in Event : r = NewRow("transfers", e)
      BY <1>1, <1>4, ClockStep
  <2>2. r.createdOn = clock
      BY <2>1 DEF NewRow, CreatedOn
  <2>3. QED
      BY <1>2, <2>1, <2>2
<1>5. QED
    BY <1>3, <1>4

\* A batch of transfers is given up when a statement fails or a key is taken.
LEMMA NextTransfersNotDropped ==
    ASSUME TypeOK, TypeOK', RowsInThePast, TransfersNotDropped, [Next]_vars
    PROVE  TransfersNotDropped'
<1>1. SUFFICES ASSUME crashes' = 0, faults' = 0
               PROVE  dropped'["transfers"] = {}
    BY DEF TransfersNotDropped
<1>2. faults = 0
    BY <1>1, ClockStep
<1>3. ~Crash
    BY <1>1, BoundsAssumption DEF Crash, TypeOK
<1>4. ~ClockSetBack /\ \A s \in Streams : ~InsertFails(s)
    BY <1>1, <1>2 DEF ClockSetBack, InsertFails
<1>5. ~InsertCollides("transfers")
  <2>1. \A r \in table["transfers"] : r.createdOn \in Nat /\ r.createdOn < clock
      BY <1>2 DEF RowsInThePast, TypeOK, Row
  <2>2. \A r \in table["transfers"] : r.createdOn # clock
      BY <2>1 DEF TypeOK
  <2>3. QED
      BY <2>2 DEF InsertCollides, KeyTaken
<1>6. dropped'["transfers"] = dropped["transfers"] /\ crashes' = crashes
    BY <1>3, <1>4, <1>5
       DEF Next, Mine, Run, Goroutine, Handler, Lookup, CacheHit, CacheMiss,
           ReadMaxToBlock, ReadMaxToBlockFails, AssignCache, ScanBegins, ScanRefused,
           ScanDelivers, ScanFails, InsertRow, InsertCollides, AbandonBatch, SetLastBlockTo,
           Request, DelegatesLookedUp, TransfersLookedUp, Done, vars, dbVars, boundVars, TypeOK
<1>7. QED
    BY <1>1, <1>2, <1>6 DEF TransfersNotDropped

\* DBGetLatestBlock "looks for the last block for which data has been
\* collected" (db.go): with NothingSkipped, that is true of a stream while no
\* batch of it was dropped.
LEMMA CollectedUnlessDropped ==
    ASSUME IInv, NEW s \in Streams, pc[s] # "insert", dropped[s] = {}
    PROVE  Collected(s, CachedLatest)
<1>1. Accounted(s, lastBlockTo[s]) /\ batch[s] = {}
    BY DEF IInv, NothingSkipped, BatchOnlyInInsert
<1>2. /\ lastBlockTo["delegates"] \in Int /\ lastBlockTo["transfers"] \in Int
      /\ CachedLatest \in Int /\ CachedLatest <= lastBlockTo[s]
    BY MaxBlockAssumption DEF IInv, TypeOK, CachedLatest, Smaller
<1>3. Accounted(s, CachedLatest)
    BY <1>1, <1>2, AccountedBelow DEF IInv, TypeOK
<1>4. QED
    BY <1>1, <1>3 DEF Accounted, Collected, Known

\* All transfers up to the block DBGetLatestBlock announces are stored, while
\* none of theirs is being inserted, until the process crashes, a statement
\* fails or the clock is set back: reading the same blocks again never loses one.
THEOREM TransfersAreCollected == Spec => []TransfersStored
<1>1. Init => IInv /\ RowsInThePast /\ TransfersNotDropped
  <2>1. Init => RowsInThePast /\ TransfersNotDropped
      BY DEF Init, RowsInThePast, TransfersNotDropped
  <2>2. QED
      BY <2>1, InitIInv
<1>2. ASSUME IInv, RowsInThePast, TransfersNotDropped, [Next]_vars
      PROVE  IInv' /\ RowsInThePast' /\ TransfersNotDropped'
    BY <1>2, NextIInv, NextRowsInThePast, NextTransfersNotDropped DEF IInv
<1>3. ASSUME IInv, TransfersNotDropped
      PROVE  TransfersStored
    BY <1>3, CollectedUnlessDropped DEF TransfersStored, TransfersNotDropped, TransfersCollected
<1>4. QED
    BY <1>1, <1>2, <1>3, PTL DEF Spec

-----------------------------------------------------------------------------
(***************************************************************************)
(* ProgressKept                                                            *)
(***************************************************************************)

\* Rows are only added, by the scan of their stream, with its block.
LEMMA ToBlocksStep ==
    ASSUME TypeOK, [Next]_vars, NEW t \in Streams
    PROVE  /\ ToBlocks(t) \subseteq 0..MaxBlock
           /\ ToBlocks(t) \subseteq ToBlocks(t)'
           /\ ~InsertRow(t) => ToBlocks(t)' = ToBlocks(t)
           /\ InsertRow(t) => ToBlocks(t)' \subseteq ToBlocks(t) \cup {upToBlock[t]}
<1>1. ToBlocks(t) \subseteq 0..MaxBlock
    BY MaxBlockAssumption DEF ToBlocks, TypeOK, Row
<1>2. CASE table'[t] = table[t]
    BY <1>1, <1>2 DEF ToBlocks
<1>3. CASE \E s \in Streams : InsertRow(s)
  <2>1. PICK s \in Streams : InsertRow(s)
      BY <1>3
  <2>2. PICK e \in batch[s] :
            table' = [table EXCEPT ![s] = @ \cup {NewRow(s, e)}]
      BY <2>1 DEF InsertRow
  <2>3. CASE s = t
    <3>1. table'[t] = table[t] \cup {NewRow(t, e)}
        BY <2>2, <2>3 DEF TypeOK
    <3>2. ToBlocks(t)' = {r.toBlock : r \in table'[t]} \cup {0}
        BY DEF ToBlocks
    <3>3. \A b \in ToBlocks(t)' : b \in ToBlocks(t) \cup {upToBlock[t]}
        BY <3>1, <3>2 DEF ToBlocks, NewRow
    <3>4. ToBlocks(t) \subseteq ToBlocks(t)'
        BY <3>1, <3>2 DEF ToBlocks
    <3>5. QED
        BY <1>1, <2>1, <2>3, <3>3, <3>4
  <2>4. CASE s # t
    <3>1. table'[t] = table[t]
        BY <2>2, <2>4 DEF TypeOK
    <3>2. QED
        BY <1>2, <3>1
  <2>5. QED
      BY <2>3, <2>4
<1>4. QED
    BY <1>2, <1>3
       DEF Next, Mine, ClockSetBack, Run, Crash, Goroutine, Handler, Lookup,
       CacheHit, CacheMiss,
           ReadMaxToBlock, ReadMaxToBlockFails, AssignCache, ScanBegins, ScanRefused,
           ScanDelivers, ScanFails, InsertCollides, InsertFails, AbandonBatch,
           SetLastBlockTo, Request, DelegatesLookedUp, TransfersLookedUp, Done,
           vars, dbVars

\* Who moves LastBlockTo, and where to.
LEMMA CacheStep ==
    ASSUME TypeOK, [Next]_vars, NEW t \in Streams
    PROVE  \/ lastBlockTo'[t] = lastBlockTo[t]
           \/ \E c \in Callers : /\ AssignCache(c)
                                 /\ lookup[c].on = t
                                 /\ lastBlockTo'[t] = CacheValue(lookup[c].block)
           \/ SetLastBlockTo(t) /\ lastBlockTo'[t] = upToBlock[t]
           \/ Crash /\ lastBlockTo'[t] = 0
<1>1. ASSUME NEW c \in Callers, AssignCache(c), lookup[c].on = t
      PROVE  lastBlockTo'[t] = CacheValue(lookup[c].block)
    BY <1>1 DEF AssignCache, TypeOK
<1>2. ASSUME NEW c \in Callers, AssignCache(c), lookup[c].on # t
      PROVE  lastBlockTo'[t] = lastBlockTo[t]
    BY <1>2 DEF AssignCache, TypeOK
<1>3. ASSUME NEW s \in Streams, SetLastBlockTo(s)
      PROVE  lastBlockTo'[t] = IF s = t THEN upToBlock[t] ELSE lastBlockTo[t]
    BY <1>3 DEF SetLastBlockTo, TypeOK
<1>4. Crash => lastBlockTo'[t] = 0
    BY DEF Crash
<1>5. QED
    BY <1>1, <1>2, <1>3, <1>4
       DEF Next, Mine, ClockSetBack, Run, Goroutine, Handler, Lookup, CacheHit, CacheMiss,
           ReadMaxToBlock, ReadMaxToBlockFails, ScanBegins, ScanRefused,
           ScanDelivers, ScanFails, InsertRow, InsertCollides, InsertFails,
           AbandonBatch, Request, DelegatesLookedUp, TransfersLookedUp, Done, vars

LEMMA HeadGrows ==
    ASSUME TypeOK, [Next]_vars
    PROVE  head \in Nat /\ head' \in Nat /\ head <= head' /\ Genesis <= head
BY MaxBlockAssumption, GenesisAssumption
   DEF TypeOK, Next, Mine, ClockSetBack, Run, Crash, Goroutine, Handler, Lookup,
       CacheHit, CacheMiss,
       ReadMaxToBlock, ReadMaxToBlockFails, AssignCache, ScanBegins, ScanRefused,
       ScanDelivers, ScanFails, InsertRow, InsertCollides, InsertFails, AbandonBatch,
       SetLastBlockTo, Request, DelegatesLookedUp, TransfersLookedUp, Done,
       vars, chainVars

LEMMA CacheValueMonotonic ==
    ASSUME NEW b \in Nat, NEW c \in Nat, b <= c
    PROVE  CacheValue(b) <= CacheValue(c) /\ CacheValue(b) \in Nat
BY MaxBlockAssumption, GenesisAssumption DEF CacheValue

LEMMA NextBlocksBehindHead ==
    ASSUME ProgressInv, [Next]_vars, TypeOK'
    PROVE  BlocksBehindHead'
<1> USE DEF ProgressInv
<1> USE MaxBlockAssumption
<1>1. head \in Nat /\ head' \in Nat /\ head <= head' /\ Genesis <= head
    BY HeadGrows
<1>2. SUFFICES ASSUME NEW t \in Streams
      PROVE  lastBlockTo'[t] <= head' /\ \A b \in ToBlocks(t)' : b <= head'
    BY DEF BlocksBehindHead
<1>3. /\ lastBlockTo[t] \in Nat /\ lastBlockTo'[t] \in Nat /\ upToBlock[t] \in Nat
      /\ lastBlockTo[t] <= head
      /\ \A b \in ToBlocks(t) : b \in Nat /\ b <= head
      /\ pc[t] = "insert" => upToBlock[t] <= head
  <2>1. ToBlocks(t) \subseteq Nat
      BY ToBlocksStep
  <2>2. QED
      BY <2>1 DEF TypeOK, BlocksBehindHead, ScansAhead
<1>4. lastBlockTo'[t] <= head
  <2>1. ASSUME NEW c \in Callers, AssignCache(c), lookup[c].on = t
        PROVE  CacheValue(lookup[c].block) <= head
    <3>1. lookup[c].block \in ToBlocks(t)
        BY <2>1 DEF AssignCache, LookupsInRows
    <3>2. QED
        BY <1>1, <1>3, <3>1, GenesisAssumption DEF CacheValue
  <2>2. SetLastBlockTo(t) => pc[t] = "insert"
      BY DEF SetLastBlockTo
  <2>3. QED
      BY <1>1, <1>3, <2>1, <2>2, CacheStep
<1>5. \A b \in ToBlocks(t)' : b <= head
  <2>1. InsertRow(t) => pc[t] = "insert"
      BY DEF InsertRow
  <2>2. QED
      BY <1>1, <1>3, <2>1, ToBlocksStep
<1>6. ToBlocks(t)' \subseteq Nat
    BY <1>3, ToBlocksStep
<1>7. QED
    BY <1>1, <1>3, <1>4, <1>5, <1>6

LEMMA NextLookupsInRows ==
    ASSUME ProgressInv, [Next]_vars, TypeOK'
    PROVE  LookupsInRows'
<1> USE DEF ProgressInv
<1> SUFFICES ASSUME NEW c \in Callers, lookup'[c].at = "assign",
                    NEW t \in Streams, t = lookup'[c].on
             PROVE  lookup'[c].block \in ToBlocks(t)'
  <2>1. \A c \in Callers : lookup'[c].on \in Streams
      BY DEF TypeOK, LookupState
  <2>2. QED
      BY <2>1 DEF LookupsInRows, ToBlocks
<1>1. ToBlocks(t) \subseteq ToBlocks(t)'
    BY ToBlocksStep
<1>3. CASE lookup'[c] = lookup[c]
  <2>1. lookup[c].block \in ToBlocks(lookup[c].on)
      BY <1>3 DEF LookupsInRows
  <2>2. QED
      BY <1>1, <1>3, <2>1
<1>4. CASE ReadMaxToBlock(c)
  <2>1. PICK b \in ToBlocks(lookup[c].on) : lookup' = Moved(c, "assign", b)
      BY <1>4 DEF ReadMaxToBlock
  <2>2. lookup'[c].on = lookup[c].on /\ lookup'[c].block = b
      BY <2>1 DEF Moved, TypeOK
  <2>3. QED
      BY <1>1, <2>1, <2>2
<1>5. ASSUME NEW d \in Callers, Lookup(d), ~(d = c /\ ReadMaxToBlock(c))
      PROVE  lookup'[c] = lookup[c]
    BY <1>5 DEF Lookup, CacheHit, CacheMiss, ReadMaxToBlock,
       ReadMaxToBlockFails, AssignCache, Moved, TypeOK
<1>6. Run \/ Crash => lookup'[c] = lookup[c]
    BY DEF Run, Crash, StartOf, Idle
<1>7. ASSUME NEW s \in Streams, ScanBegins(s) \/ ScanRefused(s)
      PROVE  lookup'[c] = lookup[c]
    BY <1>7 DEF ScanBegins, ScanRefused, Idle, TypeOK
<1>8. ASSUME NEW h \in Handlers, Request(h) \/ DelegatesLookedUp(h) \/ TransfersLookedUp(h)
      PROVE  lookup'[c] = lookup[c]
    BY <1>8 DEF Request, DelegatesLookedUp, TransfersLookedUp, StartOf, Idle, TypeOK
<1>9. QED
    BY <1>3, <1>4, <1>5, <1>6, <1>7, <1>8
       DEF Next, Mine, ClockSetBack, Goroutine, Handler, ScanDelivers, ScanFails, InsertRow,
           InsertCollides, InsertFails, AbandonBatch, SetLastBlockTo, Done, vars

\* What a step does to a goroutine's own lookup.
LEMMA OwnLookupStep ==
    ASSUME TypeOK, [Next]_vars, NEW s \in Streams
    PROVE  \/ /\ lookup'[s] = lookup[s] /\ pc'[s] = pc[s]
           \/ /\ CacheMiss(s)
              /\ lookup'[s].at = "query" /\ pc'[s] = pc[s]
           \/ \E b \in ToBlocks(s) :
                 /\ lookup[s].at = "query"
                 /\ lookup'[s].at = "assign" /\ lookup'[s].block = b
                 /\ IsMaxToBlock(s, b) /\ pc'[s] = pc[s] /\ lastBlockTo' = lastBlockTo
           \/ /\ lookup[s].at # "out" /\ lookup'[s].at \in {"check", "returned"}
              /\ pc'[s] = pc[s]
           \/ lookup'[s].at \in {"out", "check"} /\ pc'[s] = "lookup"
           \/ lookup'[s].at = "out"
           \/ /\ pc[s] \in {"scan", "insert"} /\ lookup'[s] = lookup[s]
<1>1. ASSUME NEW c \in Callers, Lookup(c), c # s
      PROVE  lookup'[s] = lookup[s] /\ pc' = pc
    BY <1>1 DEF Lookup, CacheHit, CacheMiss, ReadMaxToBlock, ReadMaxToBlockFails,
       AssignCache, Moved, scanVars, TypeOK
<1>2. CASE CacheHit(s) \/ ReadMaxToBlockFails(s) \/ AssignCache(s)
    BY <1>2 DEF CacheHit, ReadMaxToBlockFails, AssignCache, Moved, scanVars, TypeOK
<1>3. CASE CacheMiss(s)
    BY <1>3 DEF CacheMiss, Moved, scanVars, TypeOK
<1>4. CASE ReadMaxToBlock(s)
  <2>1. lookup[s].on = s
      BY <1>4 DEF ReadMaxToBlock, TypeOK
  <2>2. QED
      BY <1>4, <2>1 DEF ReadMaxToBlock, Moved, scanVars, TypeOK
<1>5. Run => lookup'[s].at = "check" /\ pc'[s] = "lookup"
    BY DEF Run, StartOf
<1>6. Crash => lookup'[s].at = "out"
    BY DEF Crash, Idle
<1>7. ASSUME NEW u \in Streams, u # s, Goroutine(u), ~Lookup(u)
      PROVE  lookup'[s] = lookup[s] /\ pc'[s] = pc[s]
    BY <1>7 DEF Goroutine, ScanBegins, ScanRefused, ScanDelivers, ScanFails, InsertRow,
       InsertCollides, InsertFails, AbandonBatch, SetLastBlockTo, GoroutineDone, TypeOK
<1>8. ScanBegins(s) \/ ScanRefused(s) => lookup'[s].at = "out"
    BY DEF ScanBegins, ScanRefused, Idle, TypeOK
<1>9. ASSUME Goroutine(s), ~Lookup(s), ~ScanBegins(s), ~ScanRefused(s)
      PROVE  pc[s] \in {"scan", "insert"} /\ lookup'[s] = lookup[s]
    BY <1>9 DEF Goroutine, ScanDelivers, ScanFails, InsertRow,
       InsertCollides, InsertFails, AbandonBatch, SetLastBlockTo
<1>10. ASSUME NEW h \in Handlers, Handler(h), ~Lookup(h)
       PROVE  lookup'[s] = lookup[s] /\ pc' = pc
    BY <1>10, HandlersAssumption DEF Handler, Request, DelegatesLookedUp, TransfersLookedUp,
       Done, scanVars, TypeOK
<1>11. Mine \/ ClockSetBack \/ UNCHANGED vars => lookup' = lookup /\ pc' = pc
    BY DEF Mine, ClockSetBack, vars, scanVars
<1>12. ASSUME Lookup(s)
       PROVE  \/ CacheHit(s) \/ ReadMaxToBlockFails(s) \/ AssignCache(s)
              \/ CacheMiss(s) \/ ReadMaxToBlock(s)
    BY <1>12 DEF Lookup
<1>13. ASSUME NEW h \in Handlers, Lookup(h)
       PROVE  lookup'[s] = lookup[s] /\ pc' = pc
    BY <1>1, <1>13, HandlersAssumption
<1>14. CASE Goroutine(s)
    BY <1>2, <1>3, <1>4, <1>8, <1>9, <1>12, <1>14
<1>15. ASSUME NEW u \in Streams, u # s, Goroutine(u)
       PROVE  lookup'[s] = lookup[s] /\ pc'[s] = pc[s]
    BY <1>1, <1>7, <1>15
<1>16. QED
    BY <1>5, <1>6, <1>10, <1>11, <1>13, <1>14, <1>15 DEF Next

LEMMA NextOwnLookupCurrent ==
    ASSUME ProgressInv, [Next]_vars, TypeOK'
    PROVE  OwnLookupCurrent'
<1> USE DEF ProgressInv
<1> SUFFICES ASSUME NEW s \in Streams
             PROVE  /\ lookup'[s].at # "out" => pc'[s] = "lookup"
                    /\ lookup'[s].at \in {"query", "assign"} =>
                          \/ lastBlockTo'[s] = 0
                          \/ \E b \in ToBlocks(s)' : lastBlockTo'[s] = CacheValue(b)
                    /\ lookup'[s].at = "assign" => IsMaxToBlock(s, lookup[s].block)'
    BY DEF OwnLookupCurrent
<1>1. /\ lookup[s].at # "out" => pc[s] = "lookup"
      /\ lookup[s].at \in {"query", "assign"} =>
            \/ lastBlockTo[s] = 0
            \/ \E b \in ToBlocks(s) : lastBlockTo[s] = CacheValue(b)
      /\ lookup[s].at = "assign" => IsMaxToBlock(s, lookup[s].block)
    BY DEF OwnLookupCurrent
<1>2. lookup'[s].at # "out" => pc'[s] = "lookup"
  <2>1. CacheMiss(s) => lookup[s].at # "out"
      BY DEF CacheMiss
  <2>2. QED
      BY <1>1, <2>1, OwnLookupStep
<1>3. ASSUME pc[s] = "lookup"
      PROVE  ToBlocks(s)' = ToBlocks(s)
  <2>1. ~InsertRow(s)
      BY <1>3 DEF InsertRow
  <2>2. QED
      BY <2>1, ToBlocksStep
<1>4. ASSUME pc[s] = "lookup", lookup[s].at \in {"query", "assign"}
      PROVE  \/ lastBlockTo'[s] = 0
             \/ \E b \in ToBlocks(s)' : lastBlockTo'[s] = CacheValue(b)
  <2>1. ASSUME NEW c \in Callers, AssignCache(c), lookup[c].on = s
        PROVE  lookup[c].block \in ToBlocks(s)
      BY <2>1 DEF AssignCache, LookupsInRows
  <2>2. ~SetLastBlockTo(s)
      BY <1>4 DEF SetLastBlockTo
  <2>3. QED
      BY <1>1, <1>3, <1>4, <2>1, <2>2, CacheStep
<1>5. CASE lookup'[s] = lookup[s]
  <2>1. lookup[s].at = "assign" => IsMaxToBlock(s, lookup[s].block)'
      BY <1>1, <1>3, <1>5 DEF IsMaxToBlock
  <2>2. QED
      BY <1>1, <1>2, <1>4, <1>5, <2>1
<1>6. CASE CacheMiss(s) /\ lookup'[s].at = "query"
  <2>1. lookup[s].on = s
      BY <1>6 DEF CacheMiss, TypeOK
  <2>2. lastBlockTo'[s] = 0
      BY <1>6, <2>1 DEF CacheMiss
  <2>3. QED
      BY <1>2, <1>6, <2>2
<1>7. ASSUME NEW b \in ToBlocks(s), lookup[s].at = "query",
             lookup'[s].at = "assign", lookup'[s].block = b, IsMaxToBlock(s, b)
      PROVE  IsMaxToBlock(s, lookup[s].block)'
    BY <1>1, <1>3, <1>7 DEF IsMaxToBlock
<1>8. QED
    BY <1>1, <1>2, <1>4, <1>5, <1>6, <1>7, OwnLookupStep

LEMMA NextScansAhead ==
    ASSUME ProgressInv, [Next]_vars, TypeOK'
    PROVE  ScansAhead'
<1> USE DEF ProgressInv
<1> USE MaxBlockAssumption
<1>1. head \in Nat /\ head' \in Nat /\ head <= head' /\ Genesis <= head
    BY HeadGrows
<1>2. SUFFICES ASSUME NEW t \in Streams, pc'[t] \in {"scan", "insert"}
      PROVE  /\ Genesis <= upToBlock'[t] /\ upToBlock'[t] <= head'
             /\ lastBlockTo'[t] <= upToBlock'[t]
             /\ \A b \in ToBlocks(t)' : b <= upToBlock'[t]
    BY DEF ScansAhead
<1>3. /\ lastBlockTo[t] \in Nat /\ lastBlockTo'[t] \in Nat /\ upToBlock[t] \in Nat
      /\ ToBlocks(t) \subseteq Nat /\ upToBlock'[t] \in Nat /\ Genesis \in Nat
    BY ToBlocksStep, GenesisAssumption DEF TypeOK
<1>4. CASE pc[t] \in {"scan", "insert"} /\ upToBlock'[t] = upToBlock[t]
  <2>1. /\ Genesis <= upToBlock[t] /\ upToBlock[t] <= head
        /\ lastBlockTo[t] <= upToBlock[t]
        /\ \A b \in ToBlocks(t) : b <= upToBlock[t]
      BY <1>4 DEF ScansAhead
  <2>2. \A b \in ToBlocks(t)' : b <= upToBlock[t]
      BY <1>3, <2>1, ToBlocksStep
  <2>3. ASSUME NEW c \in Callers, AssignCache(c), lookup[c].on = t
        PROVE  CacheValue(lookup[c].block) <= upToBlock[t]
    <3>1. lookup[c].block \in ToBlocks(t)
        BY <2>3 DEF AssignCache, LookupsInRows
    <3>2. QED
        BY <1>3, <2>1, <3>1 DEF CacheValue
  <2>4. lastBlockTo'[t] <= upToBlock[t]
      BY <1>3, <2>1, <2>3, CacheStep
  <2>5. QED
      BY <1>1, <1>3, <1>4, <2>1, <2>2, <2>4
<1>5. CASE ScanBegins(t)
  <2>1. upToBlock'[t] = head /\ head' = head /\ lastBlockTo' = lastBlockTo
      BY <1>5 DEF ScanBegins, chainVars, TypeOK
  <2>2. ~InsertRow(t)
      BY <1>5 DEF ScanBegins, InsertRow
  <2>3. ToBlocks(t)' = ToBlocks(t)
      BY <2>2, ToBlocksStep
  <2>4. QED
      BY <1>1, <2>1, <2>3 DEF BlocksBehindHead
<1>6. CASE pc'[t] = pc[t] /\ upToBlock'[t] = upToBlock[t]
    BY <1>2, <1>4, <1>6
<1>7. ASSUME NEW s \in Streams, Goroutine(s), ~Lookup(s), s # t
      PROVE  pc'[t] = pc[t] /\ upToBlock'[t] = upToBlock[t]
    BY <1>7 DEF Goroutine, ScanBegins, ScanRefused, ScanDelivers, ScanFails, InsertRow,
       InsertCollides, InsertFails, AbandonBatch, SetLastBlockTo, GoroutineDone, TypeOK
<1>8. ASSUME Goroutine(t), ~Lookup(t), ~ScanBegins(t)
      PROVE  pc[t] \in {"scan", "insert"} /\ upToBlock'[t] = upToBlock[t]
    BY <1>2, <1>8 DEF Goroutine, ScanRefused, ScanDelivers, ScanFails, InsertRow,
       InsertCollides, InsertFails, AbandonBatch, SetLastBlockTo, GoroutineDone, TypeOK
<1>9. ASSUME NEW c \in Callers, Lookup(c)
      PROVE  pc' = pc /\ upToBlock' = upToBlock
    BY <1>9 DEF Lookup, CacheHit, CacheMiss, ReadMaxToBlock, ReadMaxToBlockFails,
       AssignCache, scanVars
<1>10. ASSUME NEW h \in Handlers, Handler(h), ~Lookup(h)
       PROVE  pc' = pc /\ upToBlock' = upToBlock
    BY <1>10 DEF Handler, Request, DelegatesLookedUp, TransfersLookedUp, Done, scanVars
<1>11. Mine \/ ClockSetBack \/ UNCHANGED vars => pc' = pc /\ upToBlock' = upToBlock
    BY DEF Mine, ClockSetBack, vars, scanVars
<1>12. ~Run /\ ~Crash
    BY <1>2 DEF Run, Crash
<1>13. CASE \E s \in Streams : Goroutine(s)
    BY <1>4, <1>5, <1>6, <1>7, <1>8, <1>9, <1>13
<1>14. CASE \E h \in Handlers : Handler(h)
    BY <1>6, <1>9, <1>10, <1>14
<1>15. QED
    BY <1>6, <1>11, <1>12, <1>13, <1>14 DEF Next

LEMMA NextProgressInv == ProgressInv /\ [Next]_vars => ProgressInv'
<1> SUFFICES ASSUME ProgressInv, [Next]_vars
             PROVE  ProgressInv'
    OBVIOUS
<1>1. TypeOK'
    BY NextTypeOK DEF ProgressInv
<1>2. QED
    BY <1>1, NextBlocksBehindHead, NextLookupsInRows, NextOwnLookupCurrent,
       NextScansAhead DEF ProgressInv

LEMMA InitProgressInv == Init => ProgressInv
<1> SUFFICES ASSUME Init
             PROVE  ProgressInv
    OBVIOUS
<1>1. TypeOK
    BY InitTypeOK
<1>2. BlocksBehindHead
    BY <1>1, GenesisAssumption, MaxBlockAssumption DEF Init, BlocksBehindHead, ToBlocks, TypeOK
<1>3. QED
    BY <1>1, <1>2 DEF Init, ProgressInv, LookupsInRows, OwnLookupCurrent, ScansAhead, Idle

\* LastBlockTo moves back only by a crash or when a handler assigns what it
\* read before.
LEMMA ProgressStep ==
    ASSUME ProgressInv, TypeOK', [Next]_vars, NEW s \in Streams,
           lastBlockTo'[s] < lastBlockTo[s]
    PROVE  Crash \/ \E h \in Handlers : lookup[h].on = s /\ AssignCache(h)
<1> USE DEF ProgressInv
<1> USE MaxBlockAssumption
<1>1. /\ lastBlockTo[s] \in Nat /\ lastBlockTo'[s] \in Nat /\ upToBlock[s] \in Nat
      /\ ToBlocks(s) \subseteq Nat
    BY ToBlocksStep DEF TypeOK
<1>2. SetLastBlockTo(s) => lastBlockTo[s] <= upToBlock[s]
    BY DEF SetLastBlockTo, ScansAhead
<1>3. ASSUME NEW c \in Streams, AssignCache(c), lookup[c].on = s
      PROVE  lastBlockTo[s] <= CacheValue(lookup[c].block)
  <2>1. c = s
      BY <1>3 DEF AssignCache, TypeOK
  <2>2. IsMaxToBlock(s, lookup[s].block)
      BY <1>3, <2>1 DEF AssignCache, OwnLookupCurrent
  <2>3. PICK b \in Nat : b = lookup[s].block /\ \A x \in ToBlocks(s) : x <= b
      BY <1>1, <2>2 DEF IsMaxToBlock
  <2>4. CASE lastBlockTo[s] = 0
      BY <2>1, <2>3, <2>4, CacheValueMonotonic
  <2>5. ASSUME NEW x \in ToBlocks(s), lastBlockTo[s] = CacheValue(x)
        PROVE  lastBlockTo[s] <= CacheValue(b)
      BY <1>1, <2>3, <2>5, CacheValueMonotonic
  <2>6. QED
      BY <1>3, <2>1, <2>3, <2>4, <2>5 DEF AssignCache, OwnLookupCurrent
<1>4. ASSUME NEW c \in Streams, AssignCache(c), lookup[c].on = s,
             lastBlockTo'[s] = CacheValue(lookup[c].block)
      PROVE  FALSE
    BY <1>1, <1>3, <1>4
<1>5. QED
    BY <1>1, <1>2, <1>4, CacheStep

\* In one process no scan and no lookup of a goroutine loses progress; only
\* a handler with an old maximum moves LastBlockTo back.
THEOREM ProgressIsKept == Spec => ProgressKept
<1>1. ProgressInv /\ ProgressInv' /\ [Next]_vars =>
          [\A s \in Streams :
              lastBlockTo'[s] < lastBlockTo[s] =>
                  \/ Crash
                  \/ \E h \in Handlers : lookup[h].on = s /\ AssignCache(h)]_vars
    BY ProgressStep DEF ProgressInv
<1>2. QED
    BY <1>1, InitProgressInv, NextProgressInv, PTL DEF Spec, ProgressKept

-----------------------------------------------------------------------------
(***************************************************************************)
(* When the comments say the truth                                         *)
(***************************************************************************)

\* No trader has two delegations in a block, the other way for INSERTs to collide.
KeysDistinct ==
    \A d, e \in Event :
        d # e => \/ blockOf["delegates"][d] # blockOf["delegates"][e]
                 \/ addrOf["delegates"][d] # addrOf["delegates"][e]

\* No scan delivered an event beyond the block of its header.
RowsWithinTheirBlock ==
    \A r \in table["delegates"] : blockOf["delegates"][r.event] <= r.toBlock

Undisturbed == crashes = 0 /\ faults = 0 /\ KeysDistinct /\ RowsWithinTheirBlock

\* No handler assigns to LastBlockTo[0] a maximum it read before a scan ended.
NoRewind == lastBlockTo'["delegates"] < lastBlockTo["delegates"] => Crash

\* A goroutine that is not disturbed scans beyond all rows, so that none of
\* its INSERTs meets a row of the same key.
DelegatesNotDropped ==
    Undisturbed =>
        /\ pc["delegates"] # "insert" =>
              \A r \in table["delegates"] : r.toBlock <= lastBlockTo["delegates"]
        /\ lookup["delegates"].at = "returned" =>
              \A r \in table["delegates"] : r.toBlock <= lookup["delegates"].block
        /\ pc["delegates"] = "scan" =>
              /\ fromBlock["delegates"] <= upToBlock["delegates"]
              /\ \A r \in table["delegates"] : r.toBlock < fromBlock["delegates"]
        /\ pc["delegates"] = "insert" =>
              \A r \in table["delegates"] :
                  r.toBlock <= upToBlock["delegates"] /\ r.event \notin batch["delegates"]
        /\ dropped["delegates"] = {}

\* What is undisturbed after a step was so before it, and the step is no crash.
LEMMA UndisturbedBefore ==
    ASSUME TypeOK, [Next]_vars, Undisturbed'
    PROVE  /\ Undisturbed
           /\ crashes' = crashes /\ faults' = faults /\ ~Crash
           /\ blockOf' = blockOf /\ addrOf' = addrOf
<1>1. blockOf' = blockOf /\ addrOf' = addrOf
    BY DEF Next, ClockSetBack, vars, chainVars, Mine, Run, Goroutine, Lookup, CacheHit, CacheMiss,
       ReadMaxToBlock, ReadMaxToBlockFails, AssignCache, ScanBegins, ScanRefused,
       ScanDelivers, ScanFails, InsertRow, InsertCollides, InsertFails, AbandonBatch,
       SetLastBlockTo, Handler, Request, DelegatesLookedUp, TransfersLookedUp, Done, Crash
<1>2. \/ crashes' = crashes + 1
      \/ crashes' = crashes /\ ~Crash
    BY DEF Next, ClockSetBack, vars, boundVars, Mine, Run, Goroutine, Lookup, CacheHit, CacheMiss,
       ReadMaxToBlock, ReadMaxToBlockFails, AssignCache, ScanBegins, ScanRefused,
       ScanDelivers, ScanFails, InsertRow, InsertCollides, InsertFails, AbandonBatch,
       SetLastBlockTo, Handler, Request, DelegatesLookedUp, TransfersLookedUp, Done, Crash
<1>3. faults' = faults + 1 \/ faults' = faults
    BY DEF Next, ClockSetBack, vars, boundVars, Mine, Run, Goroutine, Lookup, CacheHit, CacheMiss,
       ReadMaxToBlock, ReadMaxToBlockFails, AssignCache, ScanBegins, ScanRefused,
       ScanDelivers, ScanFails, InsertRow, InsertCollides, InsertFails, AbandonBatch,
       SetLastBlockTo, Handler, Request, DelegatesLookedUp, TransfersLookedUp, Done, Crash
<1>4. crashes' = 0 /\ faults' = 0 /\ crashes \in Nat /\ faults \in Nat
    BY BoundsAssumption DEF Undisturbed, TypeOK
<1>5. crashes' = crashes /\ faults' = faults /\ ~Crash /\ crashes = 0 /\ faults = 0
    BY <1>2, <1>3, <1>4
<1>6. table["delegates"] \subseteq table'["delegates"]
  <2>1. CASE \E s \in Streams : InsertRow(s)
      BY <2>1 DEF InsertRow, TypeOK
  <2>2. CASE table' = table
      BY <2>2
  <2>3. QED
      BY <2>1, <2>2 DEF Next, ClockSetBack, vars, dbVars, Mine, Run, Goroutine, Lookup,
         CacheHit, CacheMiss,
         ReadMaxToBlock, ReadMaxToBlockFails, AssignCache, ScanBegins, ScanRefused,
         ScanDelivers, ScanFails, InsertCollides, InsertFails, AbandonBatch,
         SetLastBlockTo, Handler, Request, DelegatesLookedUp, TransfersLookedUp, Done, Crash
<1>7. KeysDistinct /\ RowsWithinTheirBlock
    BY <1>1, <1>6 DEF Undisturbed, KeysDistinct, RowsWithinTheirBlock
<1>8. QED
    BY <1>1, <1>5, <1>7 DEF Undisturbed

LEMMA NextDelegatesNotDropped ==
    ASSUME ProgressInv, TypeOK', DelegatesNotDropped, [Next]_vars, [NoRewind]_vars
    PROVE  DelegatesNotDropped'
<1> DEFINE D == "delegates"
<1>1. SUFFICES ASSUME Undisturbed'
               PROVE  /\ pc'[D] # "insert" => \A r \in table'[D] : r.toBlock <= lastBlockTo'[D]
                      /\ lookup'[D].at = "returned" =>
                            \A r \in table'[D] : r.toBlock <= lookup'[D].block
                      /\ pc'[D] = "scan" =>
                            /\ fromBlock'[D] <= upToBlock'[D]
                            /\ \A r \in table'[D] : r.toBlock < fromBlock'[D]
                      /\ pc'[D] = "insert" =>
                            \A r \in table'[D] :
                                r.toBlock <= upToBlock'[D] /\ r.event \notin batch'[D]
                      /\ dropped'[D] = {}
    BY DEF DelegatesNotDropped
<1>2. /\ TypeOK /\ D \in Streams
      /\ lookup[D].at # "out" => pc[D] = "lookup" /\ lookup[D].on = D
    BY DEF ProgressInv, OwnLookupCurrent, TypeOK
<1>3. Undisturbed /\ faults' = faults /\ ~Crash
    BY <1>1, <1>2, UndisturbedBefore
<1>4. /\ pc[D] # "insert" => \A r \in table[D] : r.toBlock <= lastBlockTo[D]
      /\ lookup[D].at = "returned" => \A r \in table[D] : r.toBlock <= lookup[D].block
      /\ pc[D] = "scan" => /\ fromBlock[D] <= upToBlock[D]
                          /\ \A r \in table[D] : r.toBlock < fromBlock[D]
      /\ pc[D] = "insert" =>
            \A r \in table[D] : r.toBlock <= upToBlock[D] /\ r.event \notin batch[D]
      /\ dropped[D] = {}
    BY <1>3 DEF DelegatesNotDropped
<1>5. \A r \in table[D] : r.toBlock \in Int /\ r.event \in Event
    BY <1>2, MaxBlockAssumption DEF TypeOK, Row
<1>6. lastBlockTo[D] \in Int /\ lastBlockTo'[D] \in Int /\ lastBlockTo[D] <= lastBlockTo'[D]
  <2>1. lastBlockTo[D] \in Int /\ lastBlockTo'[D] \in Int
      BY <1>2, MaxBlockAssumption DEF TypeOK
  <2>2. ~(lastBlockTo'[D] < lastBlockTo[D])
      BY <1>3, <2>1 DEF NoRewind, vars
  <2>3. QED
      BY <2>1, <2>2
<1>7. /\ fromBlock[D] \in Int /\ upToBlock[D] \in Int
      /\ head \in Int /\ lookup[D].block \in Int
      /\ batch[D] \subseteq Event
    BY <1>2, MaxBlockAssumption, GenesisAssumption DEF TypeOK, LookupState
<1> HIDE DEF D
\* Steps of others: only LastBlockTo may change, and that forward.
<1>8. CASE /\ UNCHANGED <<pc[D], lookup[D], table[D], fromBlock[D], upToBlock[D]>>
           /\ UNCHANGED <<batch[D], dropped[D]>>
    BY <1>4, <1>5, <1>6, <1>8
<1>9. CASE Lookup(D)
  <2>1. CASE CacheHit(D)
    <3>1. /\ lookup'[D].block = lastBlockTo[D] /\ pc[D] = "lookup"
          /\ UNCHANGED <<pc, table, lastBlockTo, dropped>>
        BY <1>2, <2>1 DEF CacheHit, Moved, TypeOK, scanVars, dbVars
    <3>2. QED
        BY <1>4, <3>1
  <2>2. CASE CacheMiss(D) \/ ReadMaxToBlock(D) \/ AssignCache(D)
    <3>1. /\ lookup'[D].at # "returned" /\ pc[D] = "lookup"
          /\ UNCHANGED <<pc, table, dropped>>
        BY <1>2, <2>2 DEF CacheMiss, ReadMaxToBlock, AssignCache, Moved, TypeOK, scanVars, dbVars
    <3>2. QED
        BY <1>4, <1>5, <1>6, <3>1
  <2>3. CASE ReadMaxToBlockFails(D)
      BY <1>2, <1>3, <2>3, BoundsAssumption DEF ReadMaxToBlockFails, TypeOK
  <2>4. QED
      BY <1>9, <2>1, <2>2, <2>3 DEF Lookup
<1>10. CASE Run
    BY <1>2, <1>4, <1>10 DEF Run, StartOf, dbVars
<1>11. CASE ScanBegins(D)
  <2>1. /\ pc'[D] = "scan" /\ lookup'[D].at = "out" /\ lookup[D].at = "returned"
        /\ fromBlock'[D] = lookup[D].block + 1 /\ upToBlock'[D] = head
        /\ lookup[D].block + 1 <= head
        /\ UNCHANGED <<table, dropped, lastBlockTo>>
      BY <1>2, <1>11 DEF ScanBegins, ScanStart, Idle, TypeOK, dbVars
  <2>2. \A r \in table[D] : r.toBlock < lookup[D].block + 1 /\ r.toBlock <= lastBlockTo[D]
      BY <1>2, <1>4, <1>5, <1>7, <2>1
  <2>3. QED
      BY <1>4, <2>1, <2>2
<1>12. CASE ScanRefused(D)
  <2>1. /\ pc'[D] = "idle" /\ lookup'[D].at = "out" /\ pc[D] = "lookup"
        /\ UNCHANGED <<table, dropped, lastBlockTo>>
      BY <1>2, <1>12 DEF ScanRefused, Idle, TypeOK, dbVars
  <2>2. QED
      BY <1>4, <2>1
<1>13. CASE ScanDelivers(D)
  <2>1. /\ pc[D] = "scan" /\ pc'[D] = "insert" /\ lookup[D].at = "out"
        /\ batch'[D] = LogsBetween(blockOf[D], fromBlock[D], head)
        /\ UNCHANGED <<table, dropped, lastBlockTo, upToBlock, lookup>>
      BY <1>2, <1>13 DEF ScanDelivers, TypeOK, dbVars
  <2>2. ASSUME NEW r \in table[D]
        PROVE  r.toBlock <= upToBlock[D] /\ r.event \notin batch'[D]
    <3>1. r.toBlock < fromBlock[D] /\ fromBlock[D] <= upToBlock[D]
        BY <1>4, <2>1
    <3>2. blockOf[D][r.event] <= r.toBlock
        BY <1>3 DEF Undisturbed, RowsWithinTheirBlock, D
    <3>3. blockOf[D][r.event] \in Int
        BY <1>2, <1>5, MaxBlockAssumption, GenesisAssumption DEF TypeOK
    <3>4. ~(fromBlock[D] <= blockOf[D][r.event])
        BY <1>5, <1>7, <3>1, <3>2, <3>3
    <3>5. r.event \notin batch'[D]
        BY <1>7, <2>1, <3>3, <3>4 DEF LogsBetween
    <3>6. QED
        BY <1>5, <1>7, <3>1, <3>5
  <2>3. QED
      BY <1>4, <2>1, <2>2
<1>14. CASE ScanFails(D)
  <2>1. /\ pc[D] = "scan" /\ pc'[D] = "idle" /\ lookup[D].at = "out"
        /\ UNCHANGED <<table, dropped, lastBlockTo, lookup>>
      BY <1>2, <1>14 DEF ScanFails, GoroutineDone, TypeOK, dbVars
  <2>2. QED
      BY <1>4, <2>1
<1>15. CASE InsertRow(D)
  <2>1. PICK e \in batch[D] :
            /\ table'[D] = table[D] \cup {NewRow(D, e)}
            /\ batch'[D] = batch[D] \ {e}
      BY <1>2, <1>15 DEF InsertRow, TypeOK
  <2>2. /\ pc[D] = "insert" /\ pc'[D] = "insert" /\ lookup[D].at = "out"
        /\ UNCHANGED <<dropped, upToBlock, lookup>>
      BY <1>2, <1>15 DEF InsertRow, dbVars
  <2>3. NewRow(D, e).event = e /\ NewRow(D, e).toBlock = upToBlock[D]
      BY DEF NewRow
  <2>4. QED
      BY <1>4, <1>7, <2>1, <2>2, <2>3
<1>16. CASE InsertCollides(D)
  <2>1. PICK e \in batch[D] : KeyTaken(D, e)
      BY <1>16 DEF InsertCollides
  <2>2. PICK r \in table[D] :
            /\ blockOf[D][r.event] = blockOf[D][e]
            /\ addrOf[D][r.event] = addrOf[D][e]
      BY <2>1 DEF KeyTaken, SameKey
  <2>3. r.event = e
      BY <1>3, <1>5, <1>7, <2>1, <2>2 DEF Undisturbed, KeysDistinct, D
  <2>4. pc[D] = "insert"
      BY <1>16 DEF InsertCollides, AbandonBatch
  <2>5. QED
      BY <1>4, <2>1, <2>3, <2>4
<1>17. CASE InsertFails(D)
    BY <1>2, <1>3, <1>17, BoundsAssumption DEF InsertFails, TypeOK
<1>18. CASE SetLastBlockTo(D)
  <2>1. /\ pc[D] = "insert" /\ pc'[D] = "idle" /\ lookup[D].at = "out"
        /\ lastBlockTo'[D] = upToBlock[D]
        /\ UNCHANGED <<table, dropped, lookup>>
      BY <1>2, <1>18 DEF SetLastBlockTo, GoroutineDone, TypeOK, dbVars
  <2>2. QED
      BY <1>4, <2>1
<1>19. ASSUME NEW s \in Streams, s # D, Goroutine(s), ~Lookup(s)
       PROVE  /\ UNCHANGED <<pc[D], lookup[D], table[D], fromBlock[D], upToBlock[D]>>
              /\ UNCHANGED <<batch[D], dropped[D]>>
    BY <1>2, <1>19 DEF Goroutine, ScanBegins, ScanRefused, ScanDelivers, ScanFails, InsertRow,
       InsertCollides, InsertFails, AbandonBatch, SetLastBlockTo, GoroutineDone, TypeOK, dbVars
<1>20. ASSUME NEW c \in Callers, c # D, Lookup(c)
       PROVE  /\ UNCHANGED <<pc[D], lookup[D], table[D], fromBlock[D], upToBlock[D]>>
              /\ UNCHANGED <<batch[D], dropped[D]>>
    BY <1>2, <1>20 DEF Lookup, CacheHit, CacheMiss, ReadMaxToBlock, ReadMaxToBlockFails,
       AssignCache, Moved, scanVars, dbVars, TypeOK
<1>21. ASSUME NEW h \in Handlers, Handler(h), ~Lookup(h)
       PROVE  /\ UNCHANGED <<pc[D], lookup[D], table[D], fromBlock[D], upToBlock[D]>>
              /\ UNCHANGED <<batch[D], dropped[D]>>
    BY <1>2, <1>21, HandlersAssumption DEF Handler, Request, DelegatesLookedUp,
       TransfersLookedUp, Done, scanVars, dbVars, TypeOK
<1>22. Mine \/ ClockSetBack \/ UNCHANGED vars =>
          /\ UNCHANGED <<pc[D], lookup[D], table[D], fromBlock[D], upToBlock[D]>>
          /\ UNCHANGED <<batch[D], dropped[D]>>
    BY DEF Mine, ClockSetBack, vars, scanVars, dbVars
<1>23. CASE Goroutine(D)
    BY <1>9, <1>11, <1>12, <1>13, <1>14, <1>15, <1>16, <1>17, <1>18, <1>23 DEF Goroutine
<1>24. \A h \in Handlers : h # D
    BY <1>2, HandlersAssumption
<1>25. QED
    BY <1>2, <1>3, <1>8, <1>10, <1>19, <1>20, <1>21, <1>22, <1>23, <1>24 DEF Next

\* All delegations up to that block are stored, too, if no trader has two in
\* a block: unless the process crashed, a statement failed, a scan stored an
\* event beyond its header's block, as the run overlap_loses_delegates shows,
\* or a handler moved the cache back.  There is no other way for
\* DBInsertDelegates to lose one.
THEOREM DelegatesAreCollected ==
    Spec /\ [][NoRewind]_vars =>
        [](crashes = 0 /\ faults = 0 /\ RowsWithinTheirBlock => DelegatesCollected)
<1>1. Init => IInv /\ ProgressInv /\ DelegatesNotDropped
  <2>1. Init => DelegatesNotDropped
      BY DEF Init, DelegatesNotDropped, Idle
  <2>2. QED
      BY <2>1, InitIInv, InitProgressInv
<1>2. ASSUME IInv, ProgressInv, DelegatesNotDropped, [Next]_vars, [NoRewind]_vars
      PROVE  IInv' /\ ProgressInv' /\ DelegatesNotDropped'
    BY <1>2, NextIInv, NextProgressInv, NextDelegatesNotDropped DEF ProgressInv
<1>3. ASSUME IInv, DelegatesNotDropped
      PROVE  crashes = 0 /\ faults = 0 /\ RowsWithinTheirBlock => DelegatesCollected
  <2>1. SUFFICES ASSUME Undisturbed, pc["delegates"] # "insert"
                 PROVE  Collected("delegates", CachedLatest)
      BY DEF Undisturbed, KeysDistinct, DelegatesCollected
  <2>2. dropped["delegates"] = {}
      BY <1>3, <2>1 DEF DelegatesNotDropped
  <2>3. QED
      BY <1>3, <2>1, <2>2, CollectedUnlessDropped
<1>4. QED
    BY <1>1, <1>2, <1>3, PTL DEF Spec
=============================================================================
