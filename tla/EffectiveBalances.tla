-------------------------- MODULE EffectiveBalances --------------------------
(***************************************************************************)
(* What App.Balances computes: the shares are read chunk by chunk, the     *)
(* traders' cash is moved to their delegates row by row, what is left of   *)
(* the pool is divided among the share holders, and both are combined per  *)
(* address.  Balances are small integers, in the pool token's unit.        *)
(***************************************************************************)
EXTENDS Integers, Sequences, FiniteSetsExt, Functions

CONSTANTS
    Addr,       \* lower-case addresses
    PerpProxy,  \* the manager's own address
    MaxCash,    \* bound on a trader's available cash, which unpaid funding can
                \* make negative (here -1)
    MaxShares,  \* bound on an address's share tokens
    MaxPool,    \* the manager's pool tokens at the block asked for
    MaxRows,    \* bound on the delegations
    Inc         \* addresses per multicall, 500 in the code

ASSUME AddrAssumption == IsFiniteSet(Addr)
ASSUME ProxyAssumption == PerpProxy \notin Addr
ASSUME BoundsAssumption == {MaxCash, MaxShares, MaxPool, MaxRows} \subseteq Nat
ASSUME IncAssumption == Inc \in Nat \ {0}

VARIABLES
    addrs,      \* the addresses reported on, in order
    exact,      \* they were named in the request
    shares,     \* share token balances at the block
    cash,       \* available cash of each active account at the block
    pool,       \* the manager's pool tokens, atBlock and atLatest
    rows,       \* the (addr, delegate) pairs of DbFindStrategyDelegates
    pc,         \* "query" | "reassign" | "combine" | "traders" | "done"
    from,       \* the addresses QueryMultiTokenBalance has asked for
    balcs,      \* the shares it has read so far
    rowsLeft,   \* the rows reassignTraderBalances has not processed
    traderBal,  \* the map of trader balances
    lpBal,      \* the pool tokens attributed to addrs[i]
    k,          \* combineBalances' index into addrs
    mapLeft,    \* the keys of traderBal its second loop has not visited
    report      \* the balances reported: [addr, bal], in order

inputVars == <<addrs, exact, shares, cash, pool, rows>>
queryVars == <<from, balcs>>
vars == <<inputVars, pc, queryVars, rowsLeft, traderBal, lpBal, k, mapLeft, report>>

SumOf(f) == FoldFunction(LAMBDA x, y : x + y, 0, f)

\* QueryTraderBalances leaves the manager itself out.
Traders == DOMAIN cash \ {PerpProxy}
TraderTotal == SumOf(Restrict(cash, Traders))
ShTknTotal == SumOf(shares)

\* The addresses a request may name, the first of them perhaps twice.
NamedAddrs == UNION {[1..n -> Addr] : n \in 1..2}

\* Whoever received share tokens: the holders, and perhaps former ones, once
\* each and in no particular order.
Receivers ==
    LET Holders == {a \in Addr : shares[a] > 0}
    IN  UNION {{s \in [1..Cardinality(H) -> H] : IsInjective(s)} :
                  H \in {S \in SUBSET Addr : Holders \subseteq S}}

Init ==
    /\ shares \in [Addr -> 0..MaxShares]
    /\ ShTknTotal > 0
    /\ exact \in BOOLEAN
    /\ addrs \in (IF exact THEN NamedAddrs ELSE Receivers)
    /\ cash \in UNION {[T \cup {PerpProxy} -> (-1)..MaxCash] : T \in SUBSET Addr}
    /\ cash[PerpProxy] = MaxCash
    /\ pool \in [atBlock : {MaxPool}, atLatest : {MaxPool, 1}]
    /\ rows \in {R \in SUBSET (Addr \X Addr) : Cardinality(R) <= MaxRows}
    /\ pc = "query"
    /\ from = 0
    /\ balcs = <<>>
    /\ rowsLeft = rows
    /\ traderBal = Restrict(cash, Traders)
    /\ lpBal = <<>>
    /\ k = 1
    /\ mapLeft = {}
    /\ report = <<>>

-----------------------------------------------------------------------------
(***************************************************************************)
(* QueryMultiTokenBalance                                                  *)
(***************************************************************************)

Lesser(a, b) == IF a < b THEN a ELSE b

\* A mutation: the end of a chunk is taken for its last index.
NextFrom_Overlaps(to) == IF to < Len(addrs) THEN to - 1 ELSE to

NextFrom(to) == to

\* One multicall, which answers in the order of its calls.
ReadChunk ==
    /\ pc = "query"
    /\ LET to == Lesser(Len(addrs), from + Inc)
       IN  /\ balcs' = balcs \o [i \in 1..(to - from) |-> shares[addrs[from + i]]]
           /\ from' = NextFrom(to)
    /\ pc' = IF from' >= Len(addrs) THEN "reassign" ELSE "query"
    /\ UNCHANGED <<inputVars, rowsLeft, traderBal, lpBal, k, mapLeft, report>>

\* The next try starts over.
ChunkFails ==
    /\ pc = "query"
    /\ from' = 0
    /\ balcs' = <<>>
    /\ UNCHANGED <<inputVars, pc, rowsLeft, traderBal, lpBal, k, mapLeft, report>>

-----------------------------------------------------------------------------
(***************************************************************************)
(* reassignTraderBalances: the rows come in no particular order.           *)
(***************************************************************************)

BalOf(a) == IF a \in DOMAIN traderBal THEN traderBal[a] ELSE 0

\* A mutation: the delegate's own balance is overwritten.
Moved_Overwrites(a, d) ==
    [x \in DOMAIN traderBal \cup {d} |->
        IF x = a THEN 0 ELSE IF x = d THEN traderBal[a] ELSE traderBal[x]]

\* What the trader has is added to the delegate; then the trader is set to 0.
Moved(a, d) ==
    [x \in DOMAIN traderBal \cup {d} |->
        IF x = a THEN 0
        ELSE IF x = d THEN BalOf(d) + traderBal[a]
        ELSE traderBal[x]]

Reassign ==
    \E row \in rowsLeft :
        /\ pc = "reassign"
        /\ rowsLeft' = rowsLeft \ {row}
        /\ traderBal' = IF row[1] \in DOMAIN traderBal
                        THEN Moved(row[1], row[2]) ELSE traderBal
        /\ UNCHANGED <<inputVars, queryVars, pc, lpBal, k, mapLeft, report>>

-----------------------------------------------------------------------------
(***************************************************************************)
(* attributeLpBalances: big.Int's Div rounds down for a positive divisor.  *)
(***************************************************************************)

\* QueryTokenBalance drops the block it is given.
PoolBalance == pool.atLatest

Attributed(bal) == (bal * (PoolBalance - TraderTotal)) \div ShTknTotal

AttributeLpBalances ==
    /\ pc = "reassign"
    /\ rowsLeft = {}
    /\ lpBal' = [i \in DOMAIN balcs |-> Attributed(balcs[i])]
    /\ pc' = "combine"
    /\ UNCHANGED <<inputVars, queryVars, rowsLeft, traderBal, k, mapLeft, report>>

-----------------------------------------------------------------------------
(***************************************************************************)
(* combineBalances: first the addresses in order, then the other traders.  *)
(***************************************************************************)

Entry(a, bal) == [addr |-> a, bal |-> bal]

Listed(bal) == bal # 0 \/ exact

\* A mutation: a trader that is also a holder is not set to zero.
Consumed_Kept(a) == traderBal

Consumed(a) == IF a \in DOMAIN traderBal THEN [traderBal EXCEPT ![a] = 0] ELSE traderBal

CombineAddr ==
    /\ pc = "combine"
    /\ k <= Len(addrs)
    /\ LET bal == lpBal[k] + BalOf(addrs[k])
       IN  report' = IF Listed(bal) THEN Append(report, Entry(addrs[k], bal)) ELSE report
    /\ traderBal' = Consumed(addrs[k])
    /\ k' = k + 1
    /\ UNCHANGED <<inputVars, queryVars, pc, rowsLeft, lpBal, mapLeft>>

\* The traders are added only to a report on all holders.
AddrsCombined ==
    /\ pc = "combine"
    /\ k > Len(addrs)
    /\ pc' = IF exact THEN "done" ELSE "traders"
    /\ mapLeft' = IF exact THEN {} ELSE DOMAIN traderBal
    /\ UNCHANGED <<inputVars, queryVars, rowsLeft, traderBal, lpBal, k, report>>

\* A map is ranged over in no particular order.
ReportTrader ==
    \E a \in mapLeft :
        /\ pc = "traders"
        /\ mapLeft' = mapLeft \ {a}
        /\ report' = IF traderBal[a] # 0 THEN Append(report, Entry(a, traderBal[a])) ELSE report
        /\ UNCHANGED <<inputVars, queryVars, pc, rowsLeft, traderBal, lpBal, k>>

TradersReported ==
    /\ pc = "traders"
    /\ mapLeft = {}
    /\ pc' = "done"
    /\ UNCHANGED <<inputVars, queryVars, rowsLeft, traderBal, lpBal, k, mapLeft, report>>

Next ==
    \/ ReadChunk \/ ChunkFails
    \/ Reassign \/ AttributeLpBalances
    \/ CombineAddr \/ AddrsCombined \/ ReportTrader \/ TradersReported

Spec == Init /\ [][Next]_vars

-----------------------------------------------------------------------------
(***************************************************************************)
(* Properties                                                              *)
(***************************************************************************)

Done == pc = "done"
ReportTotal == SumOf([i \in DOMAIN report |-> report[i].bal])
NoSelfDelegation == \A row \in rows : row[1] # row[2]

\* Every trader has one delegate, who is no strategy wallet itself.
PlainDelegation ==
    \A row, other \in rows :
        /\ row[1] = other[1] => row = other
        /\ row[2] # other[1]

\* A report on all holders hands out the pool: the traders' cash, wherever it
\* was moved to, and the holders' parts add up to what attributeLpBalances
\* read as the pool's balance, less than one unit short per address.  Without
\* a delegation to oneself, that is, which makes the trader's cash vanish.
ReportSumsToPool ==
    (Done /\ ~exact /\ NoSelfDelegation) =>
        /\ ReportTotal <= PoolBalance
        /\ ReportTotal > PoolBalance - Len(addrs)

\* The traders whose cash the rows R move to a, and a itself if it keeps its own.
Wallets(a, R) == {row[1] : row \in {r \in R : r[2] = a}} \cap Traders
Own(a, R) == IF a \in Traders /\ ~\E row \in R : row[1] = a THEN {a} ELSE {}
CashDue(a, R) == SumOf(Restrict(cash, Wallets(a, R) \cup Own(a, R)))
Due(a) == Attributed(shares[a]) + CashDue(a, rows)

\* Whatever order the rows and the map are read in, an address is reported
\* its part of the pool, the cash of the strategy wallets that delegate to it
\* and, unless it is such a wallet, its own: when delegations are plain.
ReportedDue ==
    (Done /\ PlainDelegation /\ IsInjective(addrs)) =>
        \A i \in DOMAIN report : report[i].bal = Due(report[i].addr)

\* A report on all holders names nobody twice, and everybody who is due
\* something; one on named addresses has an entry for each, in their order.
ReportNamesAll ==
    Done =>
        IF exact THEN [i \in DOMAIN report |-> report[i].addr] = addrs
        ELSE /\ IsInjective([i \in DOMAIN report |-> report[i].addr])
             /\ PlainDelegation =>
                    \A a \in Addr : Due(a) # 0 => \E i \in DOMAIN report : report[i].addr = a

\* "LPs get allocated the entire pool WEETH minus the trader amount" (README):
\* both at the block of the request.
ReportSumsToPoolAtBlock ==
    (Done /\ ~exact /\ rows = {}) =>
        ReportTotal \in (pool.atBlock - Len(addrs) + 1)..pool.atBlock
=============================================================================
