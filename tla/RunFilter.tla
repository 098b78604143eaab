------------------------------ MODULE RunFilter ------------------------------
(***************************************************************************)
(* The indexer: App.RunFilter with its two goroutines, the Postgres tables *)
(* they fill, the LastBlockTo cache, and the API handlers that read the    *)
(* same cache through DBGetLatestBlock.  Goroutines, handlers, the chain   *)
(* and the database interleave freely; LastBlockTo is shared without a     *)
(* lock.  The process may crash at any point and is restarted.             *)
(*                                                                         *)
(* A goroutine's call of FilterEvents is the two steps of EventScan: the   *)
(* header is read, and later the events up to the head of that moment      *)
(* arrive, or the call fails.  FilterEvents is proved to implement it.     *)
(***************************************************************************)
EXTENDS EventChain

CONSTANTS
    Handlers,   \* API requests in flight
    Addr,       \* the addresses in an event
    Genesis,    \* app.Genesis, the configured start block
    MaxCrashes, \* bound on crashes
    MaxFaults   \* bound on failing statements and on setting back the clock

ASSUME EventAssumption == Event \subseteq Nat  \* numbered in chain order
ASSUME GenesisAssumption == Genesis \in 1..MaxBlock
ASSUME BoundsAssumption == MaxCrashes \in Nat /\ MaxFaults \in Nat

Streams == {"delegates", "transfers"}

ASSUME HandlersAssumption == Handlers \cap Streams = {}

\* Whoever calls DbGetDelegateStartBlock or DbGetShTknTransferStartBlock.
Callers == Streams \cup Handlers

VARIABLES
    blockOf,        \* blockOf[s][e]: the block of the e-th event of stream s
    addrOf,         \* addrOf[s][e]: the trader of a SetDelegate event, the sender and
                    \* receiver of a Transfer
    head,           \* the chain's latest block
    table,          \* table[s]: the rows of delegates / sh_tkn_transfer
    clock,          \* the database's clock, in ticks shorter than a statement
    lastBlockTo,    \* app.LastBlockTo, 0 when not set
    pc,             \* where goroutine s is in RunFilter
    fromBlock,      \* the block goroutine s scans from
    upToBlock,      \* the block its scan reported
    batch,          \* the events it still has to insert
    lookup,         \* lookup[c]: caller c's progress in Db...StartBlock
    hpc,            \* where handler h is in DBGetLatestBlock
    latest,         \* latest[h]: the block h has determined so far
    dropped,        \* history: events of batches that were not completed
    crashes,        \* crashes so far
    faults          \* faults of the database so far

chainVars == <<blockOf, addrOf, head>>
dbVars == <<table, clock, dropped>>
scanVars == <<pc, fromBlock, upToBlock, batch>>
handlerVars == <<hpc, latest>>
boundVars == <<crashes, faults>>
vars == <<chainVars, dbVars, lastBlockTo, scanVars, lookup, handlerVars, boundVars>>

\* Events are numbered in the order of their blocks.
ChainOrder(f) == \A d, e \in Event : d <= e => f[d] <= f[e]

Idle == [at |-> "out", on |-> "delegates", block |-> 0]

Init ==
    /\ blockOf \in [Streams -> [Event -> Genesis..MaxBlock]]
    /\ \A s \in Streams : ChainOrder(blockOf[s])
    /\ addrOf \in [Streams -> [Event -> Addr]]
    /\ head \in Genesis..MaxBlock
    /\ table = [s \in Streams |-> {}]
    /\ clock = 0
    /\ lastBlockTo = [s \in Streams |-> 0]
    /\ pc = [s \in Streams |-> "idle"]
    /\ fromBlock = [s \in Streams |-> 0]
    /\ upToBlock = [s \in Streams |-> 0]
    /\ batch = [s \in Streams |-> {}]
    /\ lookup = [c \in Callers |-> Idle]
    /\ hpc = [h \in Handlers |-> "idle"]
    /\ latest = [h \in Handlers |-> 0]
    /\ dropped = [s \in Streams |-> {}]
    /\ crashes = 0
    /\ faults = 0

-----------------------------------------------------------------------------
(***************************************************************************)
(* The chain                                                               *)
(***************************************************************************)

Mine ==
    /\ head < MaxBlock
    /\ head' = head + 1
    /\ UNCHANGED <<blockOf, addrOf, dbVars, lastBlockTo, scanVars, lookup, handlerVars, boundVars>>

-----------------------------------------------------------------------------
(***************************************************************************)
(* DbGetDelegateStartBlock and DbGetShTknTransferStartBlock, for caller c. *)
(* The check of the cache, the query, and the assignment are separate      *)
(* steps; the value returned is read from the cache again.                 *)
(***************************************************************************)

StartOf(s) == [at |-> "check", on |-> s, block |-> 0]

\* Caller c goes on to `at' with block b.
Moved(c, at, b) == [lookup EXCEPT ![c] = [at |-> at, on |-> lookup[c].on, block |-> b]]

CacheHit(c) ==
    /\ lookup[c].at = "check"
    /\ lastBlockTo[lookup[c].on] # 0
    /\ lookup' = Moved(c, "returned", lastBlockTo[lookup[c].on])
    /\ UNCHANGED <<chainVars, dbVars, lastBlockTo, scanVars, handlerVars, boundVars>>

CacheMiss(c) ==
    /\ lookup[c].at = "check"
    /\ lastBlockTo[lookup[c].on] = 0
    /\ lookup' = Moved(c, "query", 0)
    /\ UNCHANGED <<chainVars, dbVars, lastBlockTo, scanVars, handlerVars, boundVars>>

\* SELECT coalesce(max(to_block), 0): b is the result.
ToBlocks(s) == {r.toBlock : r \in table[s]} \cup {0}
IsMaxToBlock(s, b) == b \in ToBlocks(s) /\ \A x \in ToBlocks(s) : x <= b

ReadMaxToBlock(c) ==
    /\ lookup[c].at = "query"
    /\ \E b \in ToBlocks(lookup[c].on) :
          /\ IsMaxToBlock(lookup[c].on, b)
          /\ lookup' = Moved(c, "assign", b)
    /\ UNCHANGED <<chainVars, dbVars, lastBlockTo, scanVars, handlerVars, boundVars>>

\* On an error 0 is returned and the cache stays unset.
ReadMaxToBlockFails(c) ==
    /\ lookup[c].at = "query"
    /\ faults < MaxFaults
    /\ faults' = faults + 1
    /\ lookup' = Moved(c, "returned", 0)
    /\ UNCHANGED <<chainVars, dbVars, lastBlockTo, scanVars, handlerVars, crashes>>

\* A mutation: the cache is to hold the next block to read.
CacheValue_NextBlock(b) == IF b > Genesis THEN b + 1 ELSE Genesis

CacheValue(b) == IF b > Genesis THEN b ELSE Genesis

\* Then back to "check", where the cache is now set: the return statement.
AssignCache(c) ==
    /\ lookup[c].at = "assign"
    /\ lastBlockTo' = [lastBlockTo EXCEPT ![lookup[c].on] = CacheValue(lookup[c].block)]
    /\ lookup' = Moved(c, "check", 0)
    /\ UNCHANGED <<chainVars, dbVars, scanVars, handlerVars, boundVars>>

Lookup(c) ==
    \/ CacheHit(c)
    \/ CacheMiss(c)
    \/ ReadMaxToBlock(c)
    \/ ReadMaxToBlockFails(c)
    \/ AssignCache(c)

-----------------------------------------------------------------------------
(***************************************************************************)
(* RunFilter                                                               *)
(***************************************************************************)

\* At the start, and two minutes after both goroutines are done.
Run ==
    /\ \A s \in Streams : pc[s] = "idle"
    /\ pc' = [s \in Streams |-> "lookup"]
    /\ lookup' = [c \in Callers |-> IF c \in Streams THEN StartOf(c) ELSE lookup[c]]
    /\ UNCHANGED <<chainVars, dbVars, lastBlockTo, fromBlock, upToBlock, batch,
                   handlerVars, boundVars>>

\* A mutation: one block is left out between two scans.
ScanStart_SkipsBlock(s) == lookup[s].block + 2

ScanStart(s) == lookup[s].block + 1

\* FilterEvents reads the header, which must not be before the start block.
ScanBegins(s) ==
    /\ pc[s] = "lookup"
    /\ lookup[s].at = "returned"
    /\ ScanStart(s) <= head
    /\ pc' = [pc EXCEPT ![s] = "scan"]
    /\ fromBlock' = [fromBlock EXCEPT ![s] = ScanStart(s)]
    /\ upToBlock' = [upToBlock EXCEPT ![s] = head]
    /\ lookup' = [lookup EXCEPT ![s] = Idle]
    /\ UNCHANGED <<chainVars, dbVars, lastBlockTo, batch, handlerVars, boundVars>>

\* The header could not be read, or there is no new block: the goroutine is done.
ScanRefused(s) ==
    /\ pc[s] = "lookup"
    /\ lookup[s].at = "returned"
    /\ pc' = [pc EXCEPT ![s] = "idle"]
    /\ lookup' = [lookup EXCEPT ![s] = Idle]
    /\ UNCHANGED <<chainVars, dbVars, lastBlockTo, fromBlock, upToBlock, batch,
                   handlerVars, boundVars>>

ScanDelivers(s) ==
    /\ pc[s] = "scan"
    /\ batch' = [batch EXCEPT ![s] = LogsBetween(blockOf[s], fromBlock[s], head)]
    /\ pc' = [pc EXCEPT ![s] = "insert"]
    /\ UNCHANGED <<chainVars, dbVars, lastBlockTo, fromBlock, upToBlock, lookup,
                   handlerVars, boundVars>>

\* The goroutine returns and its locals are gone.
GoroutineDone(s) ==
    /\ pc' = [pc EXCEPT ![s] = "idle"]
    /\ fromBlock' = [fromBlock EXCEPT ![s] = 0]
    /\ upToBlock' = [upToBlock EXCEPT ![s] = 0]

\* A mutation: without the early return, the block of the failed scan is kept.
ScanFails_NoReturn(s) ==
    /\ pc[s] = "scan"
    /\ GoroutineDone(s)
    /\ lastBlockTo' = [lastBlockTo EXCEPT ![s] = 0]
    /\ UNCHANGED <<chainVars, dbVars, batch, lookup, handlerVars, boundVars>>

ScanFails(s) ==
    /\ pc[s] = "scan"
    /\ GoroutineDone(s)
    /\ UNCHANGED <<chainVars, dbVars, lastBlockTo, batch, lookup, handlerVars, boundVars>>

-----------------------------------------------------------------------------
(***************************************************************************)
(* DBInsertDelegates and DBInsertShTknTransfer: one INSERT per event, each *)
(* committed on its own.                                                   *)
(***************************************************************************)

NextToInsert(s, e) == e \in batch[s] /\ \A d \in batch[s] : e <= d

SameKey(s, r, e) ==
    /\ blockOf[s][r.event] = blockOf[s][e]
    /\ addrOf[s][r.event] = addrOf[s][e]

\* A mutation: sh_tkn_transfer without created_on in its primary key.
KeyTaken_NoTimestamp(s, e) == \E r \in table[s] : SameKey(s, r, e)

\* The primary key of delegates is (addr, block, chain_id); that of
\* sh_tkn_transfer is (from, to, block, sh_tkn, created_on), where created_on
\* is the time of the INSERT.
KeyTaken(s, e) ==
    \E r \in table[s] :
        /\ SameKey(s, r, e)
        /\ s = "transfers" => r.createdOn = clock

\* The created_on of delegates is in no key and is never read: it stays 0.
CreatedOn(s) == IF s = "transfers" THEN clock ELSE 0

\* The clock has moved on before the next INSERT into sh_tkn_transfer.
ClockMovesOn(s) == clock' = IF s = "transfers" THEN clock + 1 ELSE clock

NewRow(s, e) == [event |-> e, toBlock |-> upToBlock[s], createdOn |-> CreatedOn(s)]

InsertRow(s) ==
    /\ pc[s] = "insert"
    /\ \E e \in batch[s] :
          /\ NextToInsert(s, e)
          /\ ~KeyTaken(s, e)
          /\ table' = [table EXCEPT ![s] = @ \cup {NewRow(s, e)}]
          /\ batch' = [batch EXCEPT ![s] = @ \ {e}]
    /\ ClockMovesOn(s)
    /\ UNCHANGED <<chainVars, dropped, lastBlockTo, pc, fromBlock, upToBlock, lookup,
                   handlerVars, boundVars>>

\* The first statement that fails ends the loop; the error is only logged.
AbandonBatch(s) ==
    /\ pc[s] = "insert"
    /\ dropped' = [dropped EXCEPT ![s] = @ \cup batch[s]]
    /\ batch' = [batch EXCEPT ![s] = {}]
    /\ ClockMovesOn(s)
    /\ UNCHANGED <<chainVars, table, lastBlockTo, pc, fromBlock, upToBlock, lookup,
                   handlerVars, crashes>>

InsertCollides(s) ==
    /\ \E e \in batch[s] : NextToInsert(s, e) /\ KeyTaken(s, e)
    /\ AbandonBatch(s)
    /\ UNCHANGED faults

InsertFails(s) ==
    /\ batch[s] # {}
    /\ faults < MaxFaults
    /\ faults' = faults + 1
    /\ AbandonBatch(s)

\* app.LastBlockTo[i] = upToBlock, whether or not every row is in.
SetLastBlockTo(s) ==
    /\ pc[s] = "insert"
    /\ batch[s] = {}
    /\ lastBlockTo' = [lastBlockTo EXCEPT ![s] = upToBlock[s]]
    /\ GoroutineDone(s)
    /\ UNCHANGED <<chainVars, dbVars, batch, lookup, handlerVars, boundVars>>

Goroutine(s) ==
    \/ Lookup(s)
    \/ ScanBegins(s) \/ ScanRefused(s)
    \/ ScanDelivers(s) \/ ScanFails(s)
    \/ InsertRow(s) \/ InsertCollides(s) \/ InsertFails(s)
    \/ SetLastBlockTo(s)

-----------------------------------------------------------------------------
(***************************************************************************)
(* DBGetLatestBlock in an API handler: the smaller of the two lookups,     *)
(* delegates first.                                                        *)
(***************************************************************************)

Request(h) ==
    /\ hpc[h] = "idle"
    /\ lookup' = [lookup EXCEPT ![h] = StartOf("delegates")]
    /\ hpc' = [hpc EXCEPT ![h] = "delegates"]
    /\ UNCHANGED <<chainVars, dbVars, lastBlockTo, scanVars, latest, boundVars>>

DelegatesLookedUp(h) ==
    /\ hpc[h] = "delegates"
    /\ lookup[h].at = "returned"
    /\ latest' = [latest EXCEPT ![h] = lookup[h].block]
    /\ lookup' = [lookup EXCEPT ![h] = StartOf("transfers")]
    /\ hpc' = [hpc EXCEPT ![h] = "transfers"]
    /\ UNCHANGED <<chainVars, dbVars, lastBlockTo, scanVars, boundVars>>

\* A mutation: max instead of min.
Smaller_Max(a, b) == IF a > b THEN a ELSE b

Smaller(a, b) == IF a < b THEN a ELSE b

TransfersLookedUp(h) ==
    /\ hpc[h] = "transfers"
    /\ lookup[h].at = "returned"
    /\ latest' = [latest EXCEPT ![h] = Smaller(latest[h], lookup[h].block)]
    /\ lookup' = [lookup EXCEPT ![h] = Idle]
    /\ hpc' = [hpc EXCEPT ![h] = "answered"]
    /\ UNCHANGED <<chainVars, dbVars, lastBlockTo, scanVars, boundVars>>

Done(h) ==
    /\ hpc[h] = "answered"
    /\ hpc' = [hpc EXCEPT ![h] = "idle"]
    /\ latest' = [latest EXCEPT ![h] = 0]
    /\ UNCHANGED <<chainVars, dbVars, lastBlockTo, scanVars, lookup, boundVars>>

Handler(h) ==
    \/ Request(h)
    \/ Lookup(h)
    \/ DelegatesLookedUp(h)
    \/ TransfersLookedUp(h)
    \/ Done(h)

-----------------------------------------------------------------------------
(***************************************************************************)
(* What the service does not control.  A crash loses everything but the    *)
(* tables, and the service is restarted.  The clock of the database's host *)
(* may be set back.                                                        *)
(***************************************************************************)

Crash ==
    /\ crashes < MaxCrashes
    /\ crashes' = crashes + 1
    /\ lastBlockTo' = [s \in Streams |-> 0]
    /\ pc' = [s \in Streams |-> "idle"]
    /\ fromBlock' = [s \in Streams |-> 0]
    /\ upToBlock' = [s \in Streams |-> 0]
    /\ dropped' = [s \in Streams |-> dropped[s] \cup batch[s]]
    /\ batch' = [s \in Streams |-> {}]
    /\ lookup' = [c \in Callers |-> Idle]
    /\ hpc' = [h \in Handlers |-> "idle"]
    /\ latest' = [h \in Handlers |-> 0]
    /\ UNCHANGED <<chainVars, table, clock, faults>>

ClockSetBack ==
    /\ faults < MaxFaults
    /\ faults' = faults + 1
    /\ clock' \in 0..(clock - 1)
    /\ UNCHANGED <<chainVars, table, dropped, lastBlockTo, scanVars, lookup, handlerVars, crashes>>

Next ==
    \/ Mine
    \/ Run
    \/ \E s \in Streams : Goroutine(s)
    \/ \E h \in Handlers : Handler(h)
    \/ Crash
    \/ ClockSetBack

Spec == Init /\ [][Next]_vars

(***************************************************************************)
(* The scheduler runs the goroutines and the timer fires.  The provider    *)
(* may fail again and again, but not forever: a goroutine that reaches a   *)
(* header or a log query time after time gets an answer in the end.        *)
(***************************************************************************)
FairSpec ==
    /\ Spec
    /\ WF_vars(Run)
    /\ \A s \in Streams :
          /\ WF_vars(Goroutine(s))
          /\ SF_vars(ScanBegins(s))
          /\ SF_vars(ScanDelivers(s))

-----------------------------------------------------------------------------
(***************************************************************************)
(* Properties                                                              *)
(***************************************************************************)

Row == [event : Event, toBlock : 0..MaxBlock, createdOn : Nat]

LookupState ==
    [at : {"out", "check", "query", "assign", "returned"},
     on : Streams, block : 0..MaxBlock]

\* The types; a goroutine that is in its lookup looks its own stream up.
TypeOK ==
    /\ blockOf \in [Streams -> [Event -> Genesis..MaxBlock]]
    /\ addrOf \in [Streams -> [Event -> Addr]]
    /\ head \in Genesis..MaxBlock
    /\ table \in [Streams -> SUBSET Row]
    /\ clock \in Nat
    /\ lastBlockTo \in [Streams -> 0..MaxBlock]
    /\ pc \in [Streams -> {"idle", "lookup", "scan", "insert"}]
    /\ fromBlock \in [Streams -> 0..MaxBlock]
    /\ upToBlock \in [Streams -> 0..MaxBlock]
    /\ batch \in [Streams -> SUBSET Event]
    /\ lookup \in [Callers -> LookupState]
    /\ \A s \in Streams : lookup[s].at # "out" => lookup[s].on = s
    /\ hpc \in [Handlers -> {"idle", "delegates", "transfers", "answered"}]
    /\ latest \in [Handlers -> 0..MaxBlock]
    /\ dropped \in [Streams -> SUBSET Event]
    /\ crashes \in 0..MaxCrashes
    /\ faults \in 0..MaxFaults

Stored(s) == {r.event : r \in table[s]}

\* The events that are in the table, or about to be inserted, or were in a
\* batch that could not be completed.
Known(s) == Stored(s) \cup batch[s] \cup dropped[s]

\* Every event of stream s after Genesis and up to block b is known.
Accounted(s, b) ==
    \A e \in Event : blockOf[s][e] \in (Genesis + 1)..b => e \in Known(s)

\* Whatever crashes, fails or interleaves, LastBlockTo never passes an event
\* that was not fetched: consecutive scans leave no gap, a restart resumes
\* where the rows say, and a stale handler only moves the cache back.  The
\* one way to lose an event is a batch whose insertion did not complete.
NothingSkipped == \A s \in Streams : Accounted(s, lastBlockTo[s])

\* The same holds, for both streams, of the block that DBGetLatestBlock
\* returns to an API handler, although its two lookups are not one step.
AnswerAccounted ==
    \A h \in Handlers : hpc[h] = "answered" =>
        \A s \in Streams : Accounted(s, latest[h])

\* In one process LastBlockTo only moves back when a handler assigns the
\* maximum it read before: no scan, failed or not, loses progress.
ProgressKept ==
    [][\A s \in Streams :
          lastBlockTo'[s] < lastBlockTo[s] =>
              \/ Crash
              \/ \E h \in Handlers : lookup[h].on = s /\ AssignCache(h)]_vars

\* Every event of the chain after Genesis is stored in the end, or was in a
\* batch that could not be completed: the two-minute cycle never gets stuck
\* and never leaves a block behind.
EventSettled ==
    \A s \in Streams, e \in Event :
        (Genesis < blockOf[s][e] /\ blockOf[s][e] <= head)
            ~> (e \in Stored(s) \cup dropped[s])

-----------------------------------------------------------------------------
(***************************************************************************)
(* What the comments say                                                   *)
(***************************************************************************)

Collected(s, b) ==
    \A e \in Event : blockOf[s][e] \in (Genesis + 1)..b => e \in Stored(s)

\* What DBGetLatestBlock returns when both blocks are cached.
CachedLatest == Smaller(lastBlockTo["delegates"], lastBlockTo["transfers"])

\* DBGetLatestBlock "looks for the last block for which data has been
\* collected" (db.go): while no batch is being inserted, all SetDelegate
\* events up to there are stored, if no trader has two in one block.
DelegatesCollected ==
    /\ \A d, e \in Event :
          d # e => blockOf["delegates"][d] # blockOf["delegates"][e]
                     \/ addrOf["delegates"][d] # addrOf["delegates"][e]
    /\ pc["delegates"] # "insert"
    => Collected("delegates", CachedLatest)

\* The same of the transfer events.
TransfersCollected ==
    pc["transfers"] # "insert" => Collected("transfers", CachedLatest)

\* The comment is true of the transfers until the process crashes, a statement
\* fails or the clock is set back: neither scans that overlap, nor equal
\* transfers in a block, nor a handler that moves LastBlockTo back or forward
\* while rows are inserted leave one out below the announced block.
TransfersStored == crashes = 0 /\ faults = 0 => TransfersCollected
=============================================================================
