----------------------------- MODULE RpcHandler -----------------------------
(***************************************************************************)
(* The rotation of rpc clients: GetNextRpc moves one index, under a mutex, *)
(* for everybody who uses the handler.  The service has two handlers that  *)
(* share nothing; a behaviour shows one of them:                           *)
(*   - the app's, used by the queries of API requests, which retry;        *)
(*   - the filterer's, used by the two goroutines of RunFilter, each of    *)
(*     which takes one client for a whole scan.                            *)
(* One of the clients is down: every call to it fails, to others none.     *)
(* Between GetNextRpc and the call a token is waited for (TokenBucket).    *)
(***************************************************************************)
EXTENDS Integers

CONSTANTS
    Query,      \* queries in flight, on the app's handler
    MaxClients  \* bound on the configured clients

ASSUME ClientsAssumption == MaxClients \in Nat \ {0}

Streams == {"delegates", "transfers"}

\* The tries of retryQuery, of the loops over QueryMultiTokenBalance and the
\* like, and of onHolderContracts.
Trials == [retry4 |-> 4, retry3 |-> 3, holders |-> 3]

VARIABLES
    clients,    \* how many clients could be connected to
    down,       \* the index of the one that is down
    handler,    \* "app" or "filterer"
    lastIdx,    \* h.lastIdx
    pc,         \* pc[u]: "idle" | "start" | "next" | "call" | "done"
    kind,       \* the kind of query q, a key of Trials
    client,     \* the index of the client u calls
    tries,      \* failed tries of query q
    others,     \* history: turns others took since q's first, capped
    misses      \* history: scans in a row that stream s lost, capped

Users == IF handler = "app" THEN Query ELSE Streams

given == <<clients, down, handler>>
vars == <<given, lastIdx, pc, kind, client, tries, others, misses>>

\* Init skips the urls it cannot connect to, and fails if none is left.
Init ==
    /\ clients \in 1..MaxClients
    /\ down \in 0..(clients - 1)
    /\ handler \in {"app", "filterer"}
    /\ lastIdx = 0
    /\ pc = [u \in Users |-> "idle"]
    /\ kind = [q \in Query |-> "retry4"]
    /\ client = [u \in Users |-> 0]
    /\ tries = [q \in Query |-> 0]
    /\ others = [q \in Query |-> 0]
    /\ misses = [s \in Streams |-> 0]

Goto(u, at) == pc' = [pc EXCEPT ![u] = at]

\* A mutation: the client in use is taken (GetRpc).
NextIdx_Same == lastIdx

\* A mutation: off by one.
NextIdx_Beyond == (lastIdx + 1) % (clients + 1)

\* A mutation: the last client is never reached.
NextIdx_Short == (lastIdx + 1) % (IF clients > 2 THEN clients - 1 ELSE clients)

NextIdx == (lastIdx + 1) % clients

-----------------------------------------------------------------------------
(***************************************************************************)
(* Queries: retryQuery, QueryLpBalances, queryActiveAddr,                  *)
(* tryQueryAvailCash, and onHolderContracts.                               *)
(***************************************************************************)

\* The turns that all other clients take t times.
Rounds(t) == t * (clients - 1)

\* The bound of the history: no query has more than four tries.
Capped(x) == IF x > Rounds(3) THEN Rounds(3) ELSE x

\* u takes a turn; the queries under way see it.
TakeTurn(u) ==
    /\ lastIdx' = NextIdx
    /\ others' = [q \in Query |->
                    IF handler # "app" \/ u = q \/ pc[q] = "idle" THEN others[q]
                    ELSE Capped(others[q] + 1)]

StartQuery(q, k) ==
    /\ handler = "app"
    /\ pc[q] = "idle"
    /\ kind' = [kind EXCEPT ![q] = k]
    /\ tries' = [tries EXCEPT ![q] = 0]
    /\ Goto(q, IF k = "holders" THEN "start" ELSE "next")
    /\ others' = [others EXCEPT ![q] = 0]
    /\ UNCHANGED <<given, lastIdx, client, misses>>

\* onHolderContracts chooses its client before the loop.
ChooseOnce(q) ==
    /\ handler = "app"
    /\ pc[q] = "start"
    /\ TakeTurn(q)
    /\ client' = [client EXCEPT ![q] = NextIdx]
    /\ Goto(q, "next")
    /\ UNCHANGED <<given, kind, tries, misses>>

\* A mutation: every query keeps the client of its first try.
Target_First(q) == IF tries[q] = 0 /\ kind[q] # "holders" THEN NextIdx ELSE client[q]

\* The loop of onHolderContracts takes a token of the next client, and calls
\* the one it chose before.
Target(q) == IF kind[q] = "holders" THEN client[q] ELSE NextIdx

ChooseNext(q) ==
    /\ handler = "app"
    /\ pc[q] = "next"
    /\ TakeTurn(q)
    /\ client' = [client EXCEPT ![q] = Target(q)]
    /\ Goto(q, "call")
    /\ UNCHANGED <<given, kind, tries, misses>>

Answered(q) ==
    /\ handler = "app"
    /\ pc[q] = "call"
    /\ client[q] # down
    /\ Goto(q, "idle")
    /\ UNCHANGED <<given, lastIdx, kind, client, tries, others, misses>>

TryFails(q) ==
    /\ handler = "app"
    /\ pc[q] = "call"
    /\ client[q] = down
    /\ tries' = [tries EXCEPT ![q] = @ + 1]
    /\ Goto(q, IF tries'[q] < Trials[kind[q]] THEN "next" ELSE "done")
    /\ UNCHANGED <<given, lastIdx, kind, client, others, misses>>

\* The query returns the error of its last try.
GiveUp(q) ==
    /\ handler = "app"
    /\ pc[q] = "done"
    /\ Goto(q, "idle")
    /\ UNCHANGED <<given, lastIdx, kind, client, tries, others, misses>>

-----------------------------------------------------------------------------
(***************************************************************************)
(* Scans: FilterEvents in the two goroutines of RunFilter.  The next run   *)
(* starts when both are done.                                              *)
(***************************************************************************)

RunFilter ==
    /\ handler = "filterer"
    /\ \A s \in Streams : pc[s] = "idle"
    /\ pc' = [s \in Streams |-> "next"]
    /\ UNCHANGED <<given, lastIdx, kind, client, tries, others, misses>>

FilterEvents(s) ==
    /\ handler = "filterer"
    /\ pc[s] = "next"
    /\ TakeTurn(s)
    /\ client' = [client EXCEPT ![s] = NextIdx]
    /\ Goto(s, "call")
    /\ UNCHANGED <<given, kind, tries, misses>>

\* Header and logs come from one client; its seven tries go there too.
ScanEnds(s) ==
    /\ handler = "filterer"
    /\ pc[s] = "call"
    /\ misses' = [misses EXCEPT ![s] = IF client[s] # down THEN 0 ELSE IF @ < 3 THEN @ + 1 ELSE @]
    /\ Goto(s, "idle")
    /\ UNCHANGED <<given, lastIdx, kind, client, tries, others>>

Next ==
    \/ \E q \in Query :
          \/ \E k \in DOMAIN Trials : StartQuery(q, k)
          \/ ChooseOnce(q) \/ ChooseNext(q)
          \/ Answered(q) \/ TryFails(q) \/ GiveUp(q)
    \/ RunFilter
    \/ \E s \in Streams : FilterEvents(s) \/ ScanEnds(s)

Spec == Init /\ [][Next]_vars

-----------------------------------------------------------------------------
(***************************************************************************)
(* Properties                                                              *)
(***************************************************************************)

\* The types: the index is always that of a client, and a query that goes on
\* has a try left.
TypeOK ==
    /\ clients \in 1..MaxClients
    /\ down \in 0..(clients - 1)
    /\ handler \in {"app", "filterer"}
    /\ lastIdx \in 0..(clients - 1)
    /\ pc \in [Users -> {"idle", "start", "next", "call", "done"}]
    /\ kind \in [Query -> DOMAIN Trials]
    /\ client \in [Users -> 0..(clients - 1)]
    /\ tries \in [Query -> 0..4]
    /\ handler = "app" =>
          \A q \in Query : pc[q] \in {"start", "next", "call"} => tries[q] < Trials[kind[q]]
    /\ others \in [Query -> 0..Rounds(3)]
    /\ misses \in [Streams -> 0..3]

\* Retrying fails over: one client that is down makes a query give up only if
\* the turns of others fall between its tries, all the others' clients between
\* any two of them, so that it meets the same client each time.  (Of the query
\* of onHolderContracts this is not true.)
DefeatedOnlyByOthers ==
    \A q \in Query :
        (handler = "app" /\ pc[q] = "done" /\ kind[q] # "holders") =>
            others[q] >= Rounds(Trials[kind[q]] - 1)

\* The two scans of a run use different clients if there are two.
ScansOnDistinctClients ==
    (/\ handler = "filterer" /\ clients > 1
     /\ \A s \in Streams : pc[s] = "call")
    => client["delegates"] # client["transfers"]

\* With three clients or more, one that is down costs a stream at most two
\* scans in a row, in whatever order the goroutines of each run get there: the
\* rotation by two per run does not lock in with the clients.  With two it may
\* cost one of the streams every scan.
ScanMissesBounded == clients > 2 => \A s \in Streams : misses[s] <= 2
=============================================================================
