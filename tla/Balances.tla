------------------------------- MODULE Balances -------------------------------
(***************************************************************************)
(* One request for balances: the handlers onGetBalances and onBalances,    *)
(* which choose the block, and the call of App.Balances: two goroutines    *)
(* query the traders' balances and the share token balances and hand them, *)
(* or an error, to the caller over unbuffered channels.  Every query is    *)
(* tried several times.  The balances themselves are in EffectiveBalances; *)
(* here a result is present, empty or missing.                             *)
(***************************************************************************)
EXTENDS Integers

CONSTANTS
    Perps,      \* number of perpetuals of the pool (len(app.PerpIds))
    MaxAddrs,   \* bound on the number of addresses reported on
    MaxBlock    \* bound on the blocks

ASSUME PerpsAssumption == Perps \in Nat \ {0}
ASSUME BoundsAssumption == MaxAddrs \in Nat \ {0} /\ MaxBlock \in Nat

Goroutines == {"trader", "lp"}
Processes == Goroutines \cup {"main"}

\* The queries and how often each is tried: queryActiveAddr, queryAvailCash,
\* queryShareTknSupply, QueryMultiTokenBalance and queryPoolTknTotalBalance.
Trials == [active |-> 3, cash |-> 3, supply |-> 4, multi |-> 3, pool |-> 4]

VARIABLES
    request,    \* the request, see Requests
    chain,      \* perpCode: the manager is deployed at the block asked for;
                \* shares: the share token at the block, "noCode", "none" or "some"
    latest,     \* what DBGetLatestBlock answered
    block,      \* the block the request is answered for
    pc,         \* where the request ("main") and its goroutines are
    perp,       \* the perpetual being queried
    tries,      \* failed tries of the current query
    result,     \* what a goroutine sends: "missing", "empty" or "full"
    failed,     \* history: the goroutines that had an error
    received,   \* the goroutines whose result the call has received
    reply       \* "none", "rejected", "balances", "error" or "panic"

given == <<request, chain>>
blocks == <<latest, block>>
channels == <<received, reply>>
vars == <<given, blocks, pc, perp, tries, result, failed, channels>>

\* blockArg is the block number as sent; number its value, 0 if it has none.
\* addrs: how many addresses are reported on; exact: the request names them;
\* valid: they are well-formed.
Requests ==
    {r \in [via : {"GET", "POST"}, blockArg : {"none", "malformed", "outOfRange", "number"},
            number : 0..MaxBlock, addrs : 0..MaxAddrs, exact : BOOLEAN, valid : BOOLEAN] :
        /\ r.blockArg # "number" => r.number = 0
        /\ r.exact => r.addrs > 0
        /\ ~r.exact => r.valid}

Chains == [perpCode : BOOLEAN, shares : {"noCode", "none", "some"}]

Init ==
    /\ request \in Requests
    /\ chain \in Chains
    /\ latest = 0
    /\ block = 0
    /\ pc = [p \in Processes |-> IF p = "main" THEN "handler" ELSE "none"]
    /\ perp = 1
    /\ tries = [p \in Processes |-> 0]
    /\ result = [p \in Goroutines |-> "missing"]
    /\ failed = {}
    /\ received = {}
    /\ reply = "none"

\* p goes on to `at' and starts counting tries anew.
Goto(p, at) ==
    /\ pc' = [pc EXCEPT ![p] = at]
    /\ tries' = [tries EXCEPT ![p] = 0]

Return(r) ==
    /\ Goto("main", "done")
    /\ reply' = r

Fails(p) == failed' = failed \cup {p}

-----------------------------------------------------------------------------
(***************************************************************************)
(* The handlers.  b is what DBGetLatestBlock answers (RunFilter).          *)
(***************************************************************************)

\* The number parsed is used when it was not parsed: Atoi returns 0 for a
\* malformed one and the limit of int for one that is out of range.
GetBlock(b) == IF request.blockArg = "malformed" THEN 0 ELSE b

GetAccepted ==
    /\ pc["main"] = "handler"
    /\ request.via = "GET" /\ request.valid
    /\ \E b \in 0..MaxBlock : latest' = b /\ block' = GetBlock(b)
    /\ Goto("main", "start")
    /\ UNCHANGED <<given, perp, result, failed, channels>>

Available(b) == request.number <= b

\* Without a block number the payload's is 0.
PostAccepted ==
    /\ pc["main"] = "handler"
    /\ request.via = "POST" /\ request.valid
    /\ request.blockArg \in {"none", "number"}
    /\ \E b \in 0..MaxBlock : Available(b) /\ latest' = b
    /\ block' = request.number
    /\ Goto("main", "start")
    /\ UNCHANGED <<given, perp, result, failed, channels>>

Rejected ==
    /\ pc["main"] = "handler"
    /\ \/ ~request.valid
       \/ /\ request.via = "POST"
          /\ \/ request.blockArg \in {"malformed", "outOfRange"}
             \/ \E b \in 0..MaxBlock : ~Available(b)
    /\ Return("rejected")
    /\ UNCHANGED <<given, blocks, perp, result, failed, received>>

-----------------------------------------------------------------------------
(***************************************************************************)
(* The call                                                                *)
(***************************************************************************)

\* Without addresses the holders are read from the database first.
HoldersFail ==
    /\ pc["main"] = "start"
    /\ ~request.exact
    /\ Return("error")
    /\ Fails("main")
    /\ UNCHANGED <<given, blocks, perp, result, received>>

StartGoroutines ==
    /\ pc["main"] = "start"
    /\ pc' = [p \in Processes |-> CASE p = "main" -> "collect"
                                 [] p = "trader" -> "active"
                                 [] p = "lp" -> "supply"]
    /\ UNCHANGED <<given, blocks, perp, tries, result, failed, channels>>

\* A mutation: the loop ends after one result.
AllReceived_First(got) == got # {}

AllReceived(got) == got = Goroutines

ReceiveResult(p) ==
    /\ pc["main"] = "collect"
    /\ pc[p] = "send"
    /\ received' = received \cup {p}
    /\ pc' = [pc EXCEPT ![p] = "done",
                        !["main"] = IF AllReceived(received') THEN "attribute" ELSE @]
    /\ UNCHANGED <<given, blocks, perp, tries, result, failed, reply>>

\* The call returns.  The goroutine goes on as if nothing had happened: after
\* a failed query to the reassignment, after that to sending its result.
ReceiveError(p) ==
    /\ pc["main"] = "collect"
    /\ pc[p] \in {"queryErr", "reassignErr"}
    /\ pc' = [pc EXCEPT !["main"] = "done",
                        ![p] = IF p = "trader" /\ @ = "queryErr" THEN "reassign" ELSE "send"]
    /\ reply' = "error"
    /\ UNCHANGED <<given, blocks, perp, tries, result, failed, received>>

\* attributeLpBalances returns nil when there are no shares.
Attribute ==
    /\ pc["main"] = "attribute"
    /\ Goto("main", IF result["lp"] = "full" THEN "pool" ELSE "combine")
    /\ UNCHANGED <<given, blocks, perp, result, failed, channels>>

\* The pool token is read at the latest block, where it has code.
PoolRead ==
    /\ pc["main"] = "pool"
    /\ Goto("main", "combine")
    /\ UNCHANGED <<given, blocks, perp, result, failed, channels>>

PoolFails ==
    /\ pc["main"] = "pool"
    /\ tries["main"] + 1 = Trials["pool"]
    /\ Return("error")
    /\ Fails("main")
    /\ UNCHANGED <<given, blocks, perp, result, received>>

\* combineBalances indexes lpBal for every address.
Combine ==
    /\ pc["main"] = "combine"
    /\ Return(IF result["lp"] # "full" /\ request.addrs > 0 THEN "panic" ELSE "balances")
    /\ UNCHANGED <<given, blocks, perp, result, failed, received>>

-----------------------------------------------------------------------------
(***************************************************************************)
(* The queries                                                             *)
(***************************************************************************)

\* A mutation: the loop runs once more.
TryLeft_OneMore(p) == tries[p] < Trials[pc[p]]

TryLeft(p) == tries[p] + 1 < Trials[pc[p]]

TryFails(p) ==
    /\ pc[p] \in DOMAIN Trials
    /\ TryLeft(p)
    /\ tries' = [tries EXCEPT ![p] = @ + 1]
    /\ UNCHANGED <<given, blocks, pc, perp, result, failed, channels>>

\* A mutation: the error is logged and the goroutine returns.
QueryFails_NotSent(p) ==
    /\ p \in Goroutines
    /\ pc[p] \in DOMAIN Trials
    /\ tries[p] + 1 = Trials[pc[p]]
    /\ Goto(p, "done")
    /\ Fails(p)
    /\ UNCHANGED <<given, blocks, perp, result, channels>>

QueryFails(p) ==
    /\ p \in Goroutines
    /\ pc[p] \in DOMAIN Trials
    /\ tries[p] + 1 = Trials[pc[p]]
    /\ Goto(p, "queryErr")
    /\ Fails(p)
    /\ UNCHANGED <<given, blocks, perp, result, channels>>

\* QueryTraderBalances: per perpetual the active accounts, then their cash.
ActiveRead ==
    /\ pc["trader"] = "active"
    /\ chain.perpCode
    /\ Goto("trader", "cash")
    /\ UNCHANGED <<given, blocks, perp, result, failed, channels>>

\* "no contract code" on the last try is no error: there are no traders.
NoManager ==
    /\ pc["trader"] = "active"
    /\ ~chain.perpCode
    /\ tries["trader"] + 1 = Trials["active"]
    /\ Goto("trader", "reassign")
    /\ result' = [result EXCEPT !["trader"] = "empty"]
    /\ UNCHANGED <<given, blocks, perp, failed, channels>>

NextPerp ==
    /\ pc["trader"] = "cash"
    /\ perp < Perps
    /\ perp' = perp + 1
    /\ Goto("trader", "active")
    /\ UNCHANGED <<given, blocks, result, failed, channels>>

LastPerp ==
    /\ pc["trader"] = "cash"
    /\ perp = Perps
    /\ Goto("trader", "reassign")
    /\ result' = [result EXCEPT !["trader"] = "full"]
    /\ UNCHANGED <<given, blocks, perp, failed, channels>>

\* reassignTraderBalances reads the delegates from the database, once.
Reassign ==
    /\ pc["trader"] = "reassign"
    /\ Goto("trader", "send")
    /\ UNCHANGED <<given, blocks, perp, result, failed, channels>>

ReassignFails ==
    /\ pc["trader"] = "reassign"
    /\ Goto("trader", "reassignErr")
    /\ Fails("trader")
    /\ UNCHANGED <<given, blocks, perp, result, channels>>

\* QueryLpBalances: no share token, or no shares, ends it with nil balances.
SupplyRead ==
    /\ pc["lp"] = "supply"
    /\ chain.shares = "some"
    /\ Goto("lp", "multi")
    /\ UNCHANGED <<given, blocks, perp, result, failed, channels>>

NoSupply ==
    /\ pc["lp"] = "supply"
    /\ chain.shares # "some"
    /\ Goto("lp", "send")
    /\ result' = [result EXCEPT !["lp"] = "empty"]
    /\ UNCHANGED <<given, blocks, perp, failed, channels>>

SharesRead ==
    /\ pc["lp"] = "multi"
    /\ Goto("lp", "send")
    /\ result' = [result EXCEPT !["lp"] = "full"]
    /\ UNCHANGED <<given, blocks, perp, failed, channels>>

TraderStep ==
    \/ TryFails("trader") \/ QueryFails("trader")
    \/ ActiveRead \/ NoManager \/ NextPerp \/ LastPerp
    \/ Reassign \/ ReassignFails

LpStep ==
    \/ TryFails("lp") \/ QueryFails("lp")
    \/ SupplyRead \/ NoSupply \/ SharesRead

MainStep ==
    \/ GetAccepted \/ PostAccepted \/ Rejected
    \/ HoldersFail \/ StartGoroutines
    \/ \E p \in Goroutines : ReceiveResult(p) \/ ReceiveError(p)
    \/ Attribute \/ TryFails("main") \/ PoolRead \/ PoolFails \/ Combine

Next == TraderStep \/ LpStep \/ MainStep

Spec == Init /\ [][Next]_vars

\* Every query returns, with a result or with an error; tokens are granted.
FairSpec == Spec /\ WF_vars(TraderStep) /\ WF_vars(LpStep) /\ WF_vars(MainStep)

-----------------------------------------------------------------------------
(***************************************************************************)
(* Properties                                                              *)
(***************************************************************************)

Places ==
    [main |-> {"handler", "start", "collect", "attribute", "pool", "combine", "done"},
     trader |-> {"none", "active", "cash", "queryErr", "reassign", "reassignErr", "send", "done"},
     lp |-> {"none", "supply", "multi", "queryErr", "send", "done"}]

\* The types: where each process can be, and how often it tries.
TypeOK ==
    /\ request \in Requests
    /\ chain \in Chains
    /\ latest \in 0..MaxBlock
    /\ block \in 0..MaxBlock
    /\ pc \in [Processes -> UNION {Places[p] : p \in Processes}]
    /\ \A p \in Processes : pc[p] \in Places[p]
    /\ perp \in 1..Perps
    /\ tries \in [Processes -> 0..3]
    /\ result \in [Goroutines -> {"missing", "empty", "full"}]
    /\ failed \subseteq Processes
    /\ received \subseteq Goroutines
    /\ reply \in {"none", "rejected", "balances", "error", "panic"}

\* Both goroutines have sent their results, and nothing failed.
AllDelivered == failed = {} /\ \A p \in Goroutines : pc[p] = "done" /\ result[p] # "missing"

\* Balances are answered only when both goroutines delivered and neither had
\* an error, although each sends its result even after an error; none is left
\* behind then, blocked on a channel.  Without an error the call never answers
\* with one, and it panics only at a block without shares, when there is an
\* address to report on.  The block is one announced as collected, however
\* its number was sent.
AnswerComplete ==
    /\ block <= latest
    /\ reply = "balances" => AllDelivered
    /\ reply = "error" => failed # {}
    /\ reply = "panic" => chain.shares # "some" /\ request.addrs > 0

\* The request is always answered: whichever of the goroutines fails, and in
\* whatever order results and errors arrive, it does not wait for a channel
\* nobody sends on.  (After an error a goroutine does: it stays blocked.)
CallReturns == <>(reply # "none")

-----------------------------------------------------------------------------
(***************************************************************************)
(* What the documentation says                                             *)
(***************************************************************************)

\* The GET endpoint gives the "same response as the corresponding post request"
\* (README): one that names an available block is answered for that block.
GetSameAsPost ==
    (/\ request.via = "GET" /\ request.blockArg = "number"
     /\ reply = "balances" /\ request.number <= latest)
    => block = request.number
=============================================================================
