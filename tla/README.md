# d8x-etherfi in TLA+

Models, model-checking runs and machine-checked proofs for the service in this
repository: it indexes the delegation and share-token events of a D8X pool into
Postgres and answers how much WEETH each address effectively owns at a block.

Tools: TLC (`tlc -config X.cfg M.tla`) and TLAPS (`tlapm M.tla`).
`PROJECT.json` lists the runs, the mutants of the code that each property
detects, the source lines of every definition, the hazards, and the findings.

## 1. The system

| component | state | operations | interacts with |
|---|---|---|---|
| Event filterer, `internal/filterer` | none between calls; during a call the batch start, batch size, tries, slice of logs | `FilterEvents` and its two wrappers | called by RunFilter's goroutines; reads the chain |
| Indexer, `etherfi/runfilter.go`, `etherfi/db.go`, migrations | tables `delegates`, `sh_tkn_transfer`; `app.LastBlockTo` | `RunFilter` with two goroutines, `DbGet...StartBlock`, `DBInsert...` | filterer; the handlers share `LastBlockTo` with it, without a lock |
| RPC manager, `utils/rpchandler.go` | index of the next client, one bucket per client | `GetNextRpc`, `WaitForToken` | every query |
| Rate limiter, `utils/token_bucket.go` | tokens, time of the last refill | `Take`, `WaitForToken` | every query |
| Balances call, `etherfi/etherfi.go`, `etherfi/evm.go` | locals of one request, three unbuffered channels | `Balances`, the queries with their retries | RPC manager, tables |
| Balance computation, same files | maps and slices of one request | `reassignTraderBalances`, `attributeLpBalances`, `combineBalances` | `DbFindStrategyDelegates` |
| Endpoints, `internal/api` | none | four routes: `/balances`, `/get-balances`, `/contracts`, `/etherfi-apy` | `DBGetLatestBlock`, `Balances`, RPC manager, APY cache |
| APY cache, `onEtherfiApy` | `EtherfiAPY`, `EtherfiAPYTs` | one handler | an external endpoint |
| Service start, `internal/svc` | none | connect, migrate, start RunFilter, serve | the container is restarted when it exits |
| Configuration, number conversion, contract bindings | none | | |

What is hard here:

* **Concurrency.** Two goroutines of the indexer and any number of request
  handlers read and write `LastBlockTo` unsynchronised; a start-block lookup is
  check, query, assign. `Balances` collects from two goroutines over channels.
  All retries in flight share one rotation of rpc clients. Requests read and set
  the cached APY and its time without a lock.
* **Failure.** Insertions are not transactions, their errors are only logged;
  scans are retried in smaller batches; queries are tried 3 or 4 times, each
  time with the next client. A fetch of the APY may fail, hang or come back late.
* **Restart.** `docker-compose.yml` restarts the service; only the tables are left.
* **Ordering.** The chain grows during a scan; rows and map entries come in no
  particular order.
* **Boundaries.** Inclusive block ranges, integer truncation in the bucket,
  floor division, a pool without shares.

What makes each component correct:

* filterer: a successful scan delivers every event of its blocks exactly once;
  it ends.
* indexer: the block it announces as collected never passes an event that was
  not fetched; nothing is lost without a failure; every event arrives in the end.
* rate limiter: a bound on what any window lets through; waiting callers are served.
* RPC manager: a client that is down does not defeat a query that retries, nor
  one stream of the indexer for good.
* balances call: an answer only from two complete results; it always returns;
  the block is one whose events are known.
* APY cache: an old value is not passed off as fresh without a reason; requests
  do not all fetch; the value is renewed for ever.
* balance computation: the report hands out the pool, nobody twice, and does
  not depend on the order of rows.

## 2. Modules

    EventChain            the chain: events with their blocks, log queries
      EventScan           what one FilterEvents call promises       (abstract)
      FilterEvents        batches, retries, the moving head         (detailed)
        FilterEventsProofs     types, exactness, refinement of EventScan
      RunFilter           the indexer; a scan is EventScan's two steps
        RunFilterProofs        types, NothingSkipped, AnswerAccounted, ProgressKept,
                               when announced blocks are collected
    TokenBucket           the rate limiter
      TokenBucketProofs        types, the bound on a window
    RpcHandler            the rotation of clients and its users
      RpcHandlerProofs         types, failing over, starvation of scans
    Balances              one request for balances: handlers and control
      BalancesProofs           types, AnswersAreComplete
    EffectiveBalances     the numbers of one Balances call
      EffectiveBalancesProofs  sum, entries and names of a report
    FiniteSums            sums over finite sets and over sequences, with proofs
    EtherfiApy            the APY cache
      EtherfiApyProofs         types, CachedAnswersAreFresh, NobodyFetchesTwice
    MC*                   instances for TLC

The composition of scan and indexer goes through the abstract specification:
`FilterEvents` implements `EventScan` (checked and proved), and `RunFilter` uses
`EventScan`'s steps (`ScanBegins` = `Begin`, `ScanRefused` = `Reject`,
`ScanDelivers` = `Deliver`, `ScanFails` = `Fail`) for each goroutine, so the
batches need not be interleaved with two goroutines, handlers and crashes.

### EventChain, EventScan, FilterEvents

`blockOf` fixes the block of every event; `head` only grows (`Mine`). A log
query returns all events of the queried blocks. `Call` reads the header
(`nowBlock`), `ReadBatch` is an iteration of the inner loop with an upper end,
`ReadLastBatch` the one without (`LastBlockRead` = the provider's head),
`QueryFails` the end of an iteration of the retry loop, `GiveUp` its seventh
failure. `CallRefused` and `HeaderFails` are the early returns. The slice is a
bag: `logs[e]` counts how often `e` was appended. `RunFilter` always passes
`endBlock = 0`, so that case is the only one modelled.

### RunFilter

| model | code |
|---|---|
| `table[s]`, rows `[event, toBlock, createdOn]` | the tables; its key fields are `blockOf`, `addrOf` and, for transfers, `createdOn` |
| `clock` | the clock of the database, `CURRENT_TIMESTAMP` |
| `lastBlockTo[s]` | `app.LastBlockTo[0]`, `[1]` |
| `lookup[c]`: `check`, `query`, `assign`, `returned` | the steps of `DbGetDelegateStartBlock` / `DbGetShTknTransferStartBlock` by goroutine or handler `c` |
| `pc[s]`: `idle`, `lookup`, `scan`, `insert` | the goroutine of stream `s` |
| `batch[s]`, `fromBlock[s]`, `upToBlock[s]` | its locals |
| `hpc[h]`, `latest[h]` | a handler in `DBGetLatestBlock` |
| `dropped[s]` | history: events of batches that were not completed |

`InsertRow` commits one row; `InsertCollides` is a violation of the primary key
`(addr, block, chain_id)` of `delegates`; `InsertFails` any other failure of a
statement (bounded by `MaxFaults`). In both cases the rest of the batch is
abandoned and `SetLastBlockTo` follows, as in the code. `sh_tkn_transfer` has
`created_on`, the time of the INSERT, in its key. Each INSERT is a transaction of
its own with a round trip to the database, so the clock, which counts
microseconds, has moved on by the next one (`ClockMovesOn`); what time passes
otherwise makes no difference to the keys and is left out. But it is a wall clock and
may be set back (`ClockSetBack`, a fault that counts for `MaxFaults`): then
equal transfers may collide. `Crash` loses everything but the tables.
`Request ... Done` is a handler; it can be anywhere in it when a goroutine moves.

### TokenBucket

`Take` runs under the mutex and is one step; time is counted in ticks, the rate
is `RateNum / RateDen` tokens per tick so that truncation is visible.
`wElapsed` and `wTaken` observe an arbitrary window.

### RpcHandler

| model | code |
|---|---|
| `handler` | which of the two `RpcHandler`s: `app.RpcMngr` or the filterer's; they share nothing |
| `lastIdx`, `NextIdx`, `TakeTurn` | `h.lastIdx`, `GetNextRpc` under the mutex |
| `clients`, `down` | `len(h.RpcClients)`; the one client that fails every call |
| `pc[q]`, `kind[q]`, `tries[q]`, `client[q]` | a retry loop: `retryQuery` (4 tries), the loops around `QueryMultiTokenBalance`, `queryActiveAddr`, `queryAvailCash` (3), `onHolderContracts` (3) |
| `pc[s]`, `client[s]` | the scan of stream `s`: `FilterEvents` takes one client for all its calls |
| `others[q]`, `misses[s]` | history: turns of others since `q` began; scans in a row that `s` lost |

`onHolderContracts` takes one client before its loop (`ChooseOnce`) and, in the
loop, a turn and a token of the next client, but calls the first (`Target`).
Waiting for the token lies between taking the turn and the call, so everybody
else may move there; the bucket itself is `TokenBucket`. The rotation of the
filterer is used by two goroutines, `RunFilter`'s next run beginning when both
are done.

### EtherfiApy

`age` is `now - app.EtherfiAPYTs`, `valueAge` how long `app.EtherfiAPY` has been
there: of the number itself only its age matters. The check (`SeesExpired`), the
assignment of the time (`Claim`) and the end of the fetch (`FetchSucceeds`,
`FetchFails`) are separate steps of a request; any number of ticks may pass
during a fetch, because `http.Get` has no timeout. A response with an empty list
panics in the handler; the server recovers it and the fetch counts as failed.

### Balances, EffectiveBalances

`Balances` begins with the handlers. `GetAccepted` is `onGetBalances`, whose
`GetBlock` uses the parsed number only when there was an error (`Atoi` gives 0,
or the limit of int, which leaves the latest block); `PostAccepted` and
`Rejected` are the checks of `onBalances`. What `DBGetLatestBlock` answers is any
block here: which ones it may be is `RunFilter`'s matter, and `AnswerAccounted`
says what they have in common. `AnswerComplete` closes the chain: the block of
a request is at most that answer.

`Balances` then is the control of one call: where the call and its goroutines
are, what is sent and received, how often each query was tried. A result is
`missing`, `empty` or `full`. The goroutines go on after sending an error, as
the code does (it has no `return` there). `EffectiveBalances` is the data of the
same call: it reads the shares chunk by chunk (`QueryMultiTokenBalance`, a
failed chunk starts the next try from nothing), then runs
`reassignTraderBalances` row by row, `attributeLpBalances`, and
`combineBalances` address by address. Balances are small integers; the
conversion to floating point is left out. In `Balances` a failed attempt is one
step, and so is the answer of a query in chunks.

## 3. Runs

| run | instance | shows |
|---|---|---|
| `scan` | 2 events, 5 blocks, batches of 3, 1, 0, 4 tries | `LogsExact`, `ScanTerminates`, `ImplementsEventScan` |
| `indexer` | 2 events per stream, 3 blocks, 1 handler, 1 crash | `NothingSkipped`, `AnswerAccounted`, `TransfersStored`, `ProgressKept` |
| `indexer_live` | 1 event per stream, 2 blocks, 1 handler, 1 crash, 1 fault | `EventSettled` |
| `token_bucket` | 2 callers, 2 tokens, 2 tokens per 3 ticks | `WindowBound`, `SomeoneServed` |
| `rpc` | 2 queries of any kind, or the 2 streams; 1 to 4 clients, any of them down | `DefeatedOnlyByOthers`, `ScansOnDistinctClients`, `ScanMissesBounded` |
| `balances_call` | GET and POST, 2 blocks, 2 perpetuals, 0 or 1 address | `AnswerComplete`, `CallReturns` |
| `effective_balances` | 3 addresses that may be holder, trader, delegate; cash -1..1; at most 2 delegations; chunks of 2 | `ReportSumsToPool`, `ReportedDue`, `ReportNamesAll` |
| `apy` | 3 requests, a value that expires after 2 ticks | `AnswerFresh`, `NoSecondFetch`, `Refreshed` |

Runs that show a disagreement between the code and what it says of itself:

| run | property | what the trace shows |
|---|---|---|
| `overlap_loses_delegates` | `DelegatesCollected` | an event mined during a scan is read again by the next one, its second insertion collides, the events behind it in the batch are lost and the block counts as collected |
| `crash_loses_transfers` | `TransfersCollected` | a crash between two INSERTs; the restart resumes behind the missing rows |
| `get_block` | `GetSameAsPost` | a GET request that names an available block is answered for the latest one |
| `pool_at_latest` | `ReportSumsToPoolAtBlock` | the pool's balance ignores the block of the request: the report adds up to the pool of the latest block, not to that of the requested one |

Four more things the models show, without a run of their own. A handler
that queries `max(to_block)` in the middle of a batch announces a block whose last
rows are still being inserted: `AnswerAccounted` counts those as known. A handler
that assigns an old maximum (`ProgressKept` allows nobody else to) lets the next
scan read stored delegations again, and their INSERTs collide as in
`overlap_loses_delegates`; `DelegatesAreCollected` says that, without a failure, there is no third way. A call
that returns an error leaves a goroutine blocked on its channel for ever
(`ReceiveError` sets `send`, and nobody receives). And at a block without shares
`combineBalances` indexes nil balances and the handler panics (`Combine`), where
the comment at `etherfi.go:167` promises zeros; `AnswerComplete` states that
nothing else makes it panic.

`DefeatedOnlyByOthers` deserves a sentence: retrying with the next client looks
like a guarantee that one broken client is survived when there are two, and it is
not one, since other requests turn the same wheel. The property says how much it
takes: the turns of others must come to all the other clients between any two
tries. With the filterer's handler the wheel turns by two per run;
`ScanMissesBounded` shows for three and four clients that no stream meets the
broken one more than twice in a row, in whatever order the goroutines start (with
more it is met less often, as a run takes two neighbouring turns). With two
clients there is no bound: a stream may be stuck until the order changes.

### Why the bounds are enough

* `scan`: five blocks and batches of 3 give a first batch, a last batch and a
  resume with both smaller sizes, down to one block per query; two events fall
  in the same, adjacent or distant batches, or are mined during the scan.
* `indexer`: three blocks are two successive scans, the second of which
  overlaps the first; two events are the shortest batch that can be interrupted
  in the middle, on one or on two blocks. One crash can happen anywhere. The
  service starts at the configured block and all events come after it
  (`FromGenesis`), since the properties speak of no others. The number of
  handlers matters only through `LastBlockTo`, which one stale handler already
  exercises; the proofs cover any number of everything.
* `indexer_live`: liveness needs all interleavings without symmetry, hence one
  event per stream and two blocks. This is also where a statement fails or the
  clock is set back, together with a crash and a handler; that the safety
  invariants hold under any number of faults is proved.
* `rpc`: four tries and four clients, so that a query may end before, when and
  after it has met each client; two queries are enough, as one of them may take
  any number of turns for the other. The histories are capped where the
  properties no longer distinguish.
* `apy`: three requests are two that race for the expired value while a third
  one's fetch hangs; ages are capped one tick beyond the time to live, where the
  code stops distinguishing them.
* `token_bucket`: the age of a refill is capped where the bucket is full
  anyway, the window at 7 ticks, in which the bucket empties and refills twice.
* `balances_call`: two perpetuals are the loop and its exit. One address is
  enough for the index into `lpBal`, two blocks for a request before, at or after
  the announced one.
* `effective_balances`: three addresses are enough for a chain of delegations,
  for two wallets with one delegate, and for a trader that is also a holder;
  with chunks of two they are one full chunk and one that is not.

### Fairness

* `FilterEvents`: weak fairness of the scan's steps: every query returns, with
  logs or with an error; nothing is assumed of how often it succeeds.
* `RunFilter`: weak fairness of the timer (`Run`) and of each goroutine; strong
  fairness of `ScanBegins` and `ScanDelivers`: a provider that is asked again
  every two minutes answers in the end. No fairness of `Mine`, handlers,
  crashes or faults, which are bounded.
* `TokenBucket`: time passes, a waiting caller wakes up (`time.Sleep` of at most
  500 ms). `WF_vars(OpenWindow /\ wElapsed = MaxWindow)` only keeps the
  observation's bound from stopping time.
* `EtherfiApy`: a request that saw the value expired goes on to its fetch and an
  answered one ends (weak fairness); strong fairness of some fetch succeeding:
  each single one may fail or hang, but not all of them for ever. Requests and
  time are not assumed; `Refreshed` has them as its premise.
* `Balances`: each goroutine and the call go on as long as they can, that is,
  queries return and tokens are granted.

Deadlock is checked except in the runs of `Balances`, where a call ends and may
leave goroutines blocked on a channel, and of `EffectiveBalances`, which ends.

## 4. Proofs

All theorems hold for every value of the constants that satisfies the named
assumptions of the modules (sets of natural numbers, bounds in `Nat`).

**FilterEventsProofs.** `TypeCorrect`; `SliceExact` (`[]LogsExact`), from the
type invariant and `LogsExact` itself, which is inductive: `ReadBatch` extends
the interval of read blocks by exactly the batch, a failure leaves it alone.
`Refinement` (`Spec => Scan!Spec`): `Call` maps to `Begin`, `ReadLastBatch` to
`Deliver` because by `LogsExact` the slice before it holds the blocks up to
`startBlock - 1`, `GiveUp` to `Fail`; `ReadBatch` and `QueryFails` stutter.

**RunFilterProofs.** `NothingSkipped` is not inductive: what is assigned to
`lastBlockTo` comes from a row, from a scan, or from a handler that read a row
some time ago. `IInv` says of every place where such a block number can be kept
(rows, lookups, scans, handlers) that it is accounted for: all events after
Genesis up to it were fetched. The two facts behind the induction are that
`Known(s)` only grows, so that a stale number stays accounted for, and that a
scan starts at most one block behind an accounted number (`ScanStart`).
`NothingIsSkipped` and `AnswersAreAccounted` follow, for any number of crashes
and faults. `TransfersAreCollected` (`[]TransfersStored`) turns "known" into
"stored": until the process crashes, a statement fails or the clock is set back,
the property that `crash_loses_transfers` refutes holds, in spite of overlapping scans and equal
transfers. Known events that are neither stored nor about to be inserted were dropped
(`CollectedUnlessDropped`); none is, since no INSERT collides
(`TransfersNotDropped`), since every row was created before the current time
(`RowsInThePast`), which each INSERT has to preserve.

`ProgressIsKept` rests on `ProgressInv`. A goroutine's lookup assigns the maximum
it read a step before, which nobody else can have passed: only its own scan
writes rows of its stream (`OwnLookupCurrent`), and what other lookups may have
assigned meanwhile is the cache value of some row (`LookupsInRows`). At the end
of a scan the cache is behind the scan's block, since so are all rows
(`ScansAhead`). That leaves the handlers and `Crash`.

`DelegatesAreCollected` is about what `overlap_loses_delegates` shows to be false in
general. `DelegatesNotDropped` says that a goroutine starts each scan beyond all
of its rows' blocks; if each row's event is within its block
(`RowsWithinTheirBlock`, which an overlap breaks), the batch meets no row of its own.
The theorem restricts the behaviours by `NoRewind`: no handler moves the cache
back. Both hypotheses are needed, TLC shows a lost delegation without either.

**TokenBucketProofs.** `TypeCorrect`; `RateIsBounded` from `WindowBudget`, which
adds to `WindowBound` what is in the bucket and what accrued since the last
refill: a refill turns accrued time into tokens and never makes more of it.

**EtherfiApyProofs.** `AnswerFresh` compares each age with the time to live and
is not inductive: nothing in it says what happens when the value crosses that
limit first. `IInv` relates the two ages instead: the value is at most as old as the time claims, unless a fetch runs
or the last one failed; and the claimed time is no older than any running fetch.
`CachedAnswersAreFresh` and `NobodyFetchesTwice` follow.

**BalancesProofs.** `AnswerComplete` needs to know why two receipts are two
results although a goroutine sends its result even after an error. `IInv` says:
while the call collects, a goroutine that had an error is still waiting to send
it (`ErrorsPending`), so its result cannot come first; and once collecting is
over, nothing had failed (`ResultsIn`).

**RpcHandlerProofs.** `RetryingFailsOver`: `Ahead` is how far the index has moved
on from the broken client. `TurnsCounted` says that since a query met that client
for the `t`-th time, others took at least `(t - 1) * (clients - 1) + Ahead` turns.
A turn moves the index one further or onto the broken client, and the latter only
from a distance of `clients - 1` (`AheadMoves`), so each further meeting costs a
full round of others' turns. The multiplication is expanded once, for the five
numbers of tries (`RoundsNat`).

`ScansUseDistinctClients` and `ScansAreNotStarved` (`ScanMissesBounded`) rest on
`ScanInv`. `FirstTurnKept`: whoever takes the second turn of a run finds the index
where the first one left it, so the two clients are neighbours. `MissesBehind`:
the scans a stream has lost in a row, the turns the run has left and the distance of the index
from the broken client (`Ahead`) together are bounded, so that a stream that lost
two is followed by two turns that both miss it, in either order, if there are three
clients or more.

**FiniteSums.** `EffectiveBalances` adds up with the folds of the community
modules. A fold is defined by a recursion over a chosen element, so its equations
do not follow by unfolding. The module derives them without an induction theorem:
if some finite set refuted a statement, there would be one that does and whose
proper subsets do not (`SmallestSubset`), and that one does not either. In this way
there is one and only one way to sum up (`SumsExist`, `SumsUnique`), the sum
is a number, and any element may be taken off it first (`SumOnRemove`), whichever the fold
chooses. The rest are the facts that the other module uses: adding two functions,
equal functions, summands that are 0, bounds, factors, and renamed indices.

**EffectiveBalancesProofs.** Neither property of the report is inductive; they
follow from what holds after each stage of the call. `StagesInOrder` and
`SharesInOrder` tie the numbers to the place in the code: shares are read for a
prefix of the holders, and the later stages see all of them. `CashConserved`:
each row moves cash from one trader to another, so the map's total does not
change. `AttributedSum`: the parts of the pool are rounded down one by one, so
they sum to at most the pool and fall short by less than one each. Hence
`ReportSumsToThePool`. `MapHoldsDue` says what each entry of the map is after the
rows processed so far (`RowProcessed`), in any order of rows, if delegations are
plain; `EntriesDue` carries that to the report (`ReportIsDue`). `NamesOnce`,
`NamesInOrder` and `NobodyLeftOut` are about who is in the report
(`ReportNamesEverybody`). The set of addresses, the balances, the delegations and the
size of a chunk are arbitrary; a request names one or two addresses, and a
trader's cash is at least -1, as in `Init`.

The inductive invariants stand at the head of the modules that prove them; TLC
checked each one on a small instance before it was proved.

Only model-checked: the liveness properties `ScanTerminates`, `EventSettled`,
`SomeoneServed`, `CallReturns` and `Refreshed`, which need fairness and ENABLED and
are out of the prover's reach. Every invariant and every action property of a passing run is
a theorem. The properties of the violation runs are false of the code; for two of
them the theorems above say under which conditions they hold.

## 5. Not modelled

The block `Genesis` itself: `etherfi.go` calls it the "starting block when no
data", but the first scan starts one block later (`runfilter.go:16` and `33`),
so the properties of the indexer speak of the events after Genesis.

Configuration, number conversion and the generated contract bindings: no state
that changes later. The service's start (load, connect, migrate, go RunFilter,
serve): each step that fails ends the process, which is restarted, so to the other
parts it is a longer `Crash`; whether a migration can be resumed is decided by the
migration library. How many calls are made per token: the header of a scan and
the decimals are read without one, a query in several chunks shares one. More
than one client that is down. The finality of blocks: the
code treats every block as final, and so does the chain of the model. A provider
whose backends disagree about the head is not modelled either; the code cannot
notice it.

## 6. Plan

1. `Balances` with the data of `EffectiveBalances`: an abstract specification
   of a call (one answer, from one block) that both implement.
2. The steps of `RunFilter`'s scans as an instance of `EventScan`, for each stream.
3. `ReportSumsToThePool` for a report on named addresses: what it leaves out.
