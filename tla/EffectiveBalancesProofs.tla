------------------------ MODULE EffectiveBalancesProofs ------------------------
(***************************************************************************)
(* The computation of the balances, for any finite set of addresses, any   *)
(* balances, any number of delegations and addresses per multicall: the    *)
(* report sums to the pool, gives everybody what is due and names          *)
(* everybody.                                                              *)
(***************************************************************************)
EXTENDS EffectiveBalances, FiniteSums, SequenceTheorems, TLAPS

-----------------------------------------------------------------------------
(***************************************************************************)
(* The types, and what Init knows of the inputs.                           *)
(***************************************************************************)
InputsOK ==
    /\ shares \in [Addr -> Nat]
    /\ ShTknTotal > 0
    /\ exact \in BOOLEAN
    /\ addrs \in Seq(Addr)
    /\ ~exact => /\ IsInjective(addrs)
                 /\ \A a \in Addr : shares[a] > 0 => \E i \in DOMAIN addrs : addrs[i] = a
    /\ cash \in [DOMAIN cash -> Int]
    /\ DOMAIN cash \subseteq Addr \cup {PerpProxy}
    /\ pool.atLatest \in Int
    /\ rows \subseteq Addr \X Addr

TypeOK ==
    /\ InputsOK
    /\ pc \in {"query", "reassign", "combine", "traders", "done"}
    /\ from \in 0..Len(addrs)
    /\ balcs \in Seq(Nat)
    /\ rowsLeft \subseteq rows
    /\ traderBal \in [DOMAIN traderBal -> Int]
    /\ Traders \subseteq DOMAIN traderBal
    /\ DOMAIN traderBal \subseteq Traders \cup {row[2] : row \in rows}
    /\ lpBal \in Seq(Int)
    /\ k \in 1..(Len(addrs) + 1)
    /\ mapLeft \subseteq DOMAIN traderBal
    /\ report \in Seq([addr : Addr, bal : Int])

(***************************************************************************)
(* The stages, one after the other: each starts from what the one before   *)
(* has finished.                                                           *)
(***************************************************************************)
StagesInOrder ==
    /\ pc # "query" => from = Len(addrs)
    /\ pc \in {"query", "reassign"} => k = 1 /\ lpBal = <<>> /\ report = <<>>
    /\ pc \notin {"query", "reassign"} => rowsLeft = {}
    /\ pc # "traders" => mapLeft = {}
    /\ pc = "traders" => ~exact
    /\ pc \in {"traders", "done"} => k = Len(addrs) + 1

\* However often reading starts over, balcs are the shares of the first from
\* addresses, and every address is attributed the part its own shares give.
SharesInOrder ==
    /\ balcs = [i \in 1..from |-> shares[addrs[i]]]
    /\ pc \notin {"query", "reassign"} =>
          lpBal = [i \in 1..Len(addrs) |-> Attributed(shares[addrs[i]])]

\* The addresses combineBalances is done with have no trader balance left.
Combined == {addrs[i] : i \in 1..(k - 1)}
CombinedAreConsumed == \A a \in Combined : BalOf(a) = 0

(***************************************************************************)
(* Conservation: what is reported and what is still in the map is the      *)
(* traders' cash and the parts attributed so far.                          *)
(***************************************************************************)
LeftInMap == IF pc \in {"traders", "done"} THEN mapLeft ELSE DOMAIN traderBal
Reported == [i \in DOMAIN report |-> report[i].bal]

CashConserved ==
    (~exact /\ NoSelfDelegation) =>
        SumOn(Reported, DOMAIN report) + SumOn(traderBal, LeftInMap)
            = TraderTotal + SumOn(lpBal, 1..(k - 1))

(***************************************************************************)
(* The map: until an address is combined, the map holds for it what is due *)
(* by the rows processed so far.                                           *)
(***************************************************************************)
MapHoldsDue ==
    PlainDelegation =>
        \A a \in Addr \ Combined : BalOf(a) = CashDue(a, rows \ rowsLeft)

(***************************************************************************)
(* The entries.                                                            *)
(***************************************************************************)
EntriesDue ==
    (PlainDelegation /\ IsInjective(addrs)) =>
        \A i \in DOMAIN report : report[i].bal = Due(report[i].addr)

Names == [i \in DOMAIN report |-> report[i].addr]
Named == {report[i].addr : i \in DOMAIN report}

\* The keys of the map that the second loop has visited.
Visited == IF pc \in {"traders", "done"} THEN DOMAIN traderBal \ mapLeft ELSE {}

NamesInOrder == exact => Names = [i \in 1..(k - 1) |-> addrs[i]]

NamesOnce == ~exact => IsInjective(Names) /\ Named \subseteq Combined \cup Visited

NobodyLeftOut ==
    (~exact /\ PlainDelegation) =>
        /\ \A a \in Combined : Due(a) # 0 => a \in Named
        /\ pc \in {"traders", "done"} => \A a \in Visited : traderBal[a] # 0 => a \in Named

IInv ==
    /\ TypeOK
    /\ StagesInOrder
    /\ SharesInOrder
    /\ CombinedAreConsumed
    /\ CashConserved
    /\ MapHoldsDue
    /\ EntriesDue
    /\ NamesInOrder
    /\ NamesOnce
    /\ NobodyLeftOut

-----------------------------------------------------------------------------
(***************************************************************************)
(* Lemmas about the sums of the model                                      *)
(***************************************************************************)

LEMMA SumOfIsSumOn ==
    ASSUME NEW f
    PROVE  SumOf(f) = SumOn(f, DOMAIN f)
BY FoldIsSumOn DEF SumOf

LEMMA SumOfRestrict ==
    ASSUME NEW f, NEW S, IsFiniteSet(S)
    PROVE  SumOf(Restrict(f, S)) = SumOn(f, S)
<1>1. DOMAIN Restrict(f, S) = S /\ \A x \in S : Restrict(f, S)[x] = f[x]
    BY DEF Restrict
<1>2. SumOn(Restrict(f, S), S) = SumOn(f, S)
    BY <1>1, SumOnSame
<1>3. QED
    BY <1>1, <1>2, SumOfIsSumOn

\* The accounts are finitely many, their cash and the shares add up to integers.
LEMMA InputsFacts ==
    ASSUME InputsOK
    PROVE  /\ IsFiniteSet(Traders)
           /\ Traders \subseteq Addr
           /\ Traders \subseteq DOMAIN cash
           /\ \A a \in Traders : cash[a] \in Int
           /\ TraderTotal = SumOn(cash, Traders)
           /\ TraderTotal \in Int
           /\ ShTknTotal = SumOn(shares, Addr)
           /\ ShTknTotal \in Int
           /\ PoolBalance \in Int
           /\ \A n \in Int : Attributed(n) \in Int
<1>1. Traders \subseteq Addr /\ Traders \subseteq DOMAIN cash
    BY DEF InputsOK, Traders
<1>2. IsFiniteSet(Traders)
    BY <1>1, FS_Subset, AddrAssumption
<1>3. \A a \in Traders : cash[a] \in Int
    BY <1>1 DEF InputsOK
<1>4. TraderTotal = SumOn(cash, Traders)
    BY <1>2, SumOfRestrict DEF TraderTotal
<1>5. TraderTotal \in Int
    BY <1>2, <1>3, <1>4, SumOnType
<1>6. ShTknTotal = SumOn(shares, Addr)
    BY SumOfIsSumOn DEF ShTknTotal, InputsOK
<1>7. ShTknTotal \in Int
  <2>1. \A a \in Addr : shares[a] \in Int
      BY DEF InputsOK
  <2>2. QED
      BY <2>1, <1>6, SumOnType, AddrAssumption
<1>8. PoolBalance \in Int
    BY DEF PoolBalance, InputsOK
<1>9. ASSUME NEW n \in Int PROVE Attributed(n) \in Int
  <2>1. ShTknTotal > 0
      BY DEF InputsOK
  <2>2. QED
      BY <2>1, <1>5, <1>7, <1>8 DEF Attributed
<1>10. QED
    BY <1>1, <1>2, <1>3, <1>4, <1>5, <1>6, <1>7, <1>8, <1>9

LEMMA CashDueIsSum ==
    ASSUME InputsOK, NEW a, NEW R
    PROVE  /\ Wallets(a, R) \cup Own(a, R) \subseteq Traders
           /\ IsFiniteSet(Wallets(a, R) \cup Own(a, R))
           /\ CashDue(a, R) = SumOn(cash, Wallets(a, R) \cup Own(a, R))
           /\ CashDue(a, R) \in Int
<1>1. Wallets(a, R) \cup Own(a, R) \subseteq Traders
    BY DEF Wallets, Own
<1>2. IsFiniteSet(Wallets(a, R) \cup Own(a, R))
    BY <1>1, FS_Subset, InputsFacts
<1>3. CashDue(a, R) = SumOn(cash, Wallets(a, R) \cup Own(a, R))
    BY <1>2, SumOfRestrict DEF CashDue
<1>4. \A x \in Wallets(a, R) \cup Own(a, R) : cash[x] \in Int
    BY <1>1, InputsFacts
<1>5. QED
    BY <1>1, <1>2, <1>3, <1>4, SumOnType

\* No step changes the inputs, nor what is computed from them alone.
LEMMA NextInputs ==
    ASSUME [Next]_vars
    PROVE  UNCHANGED inputVars
BY DEF Next, vars, ReadChunk, ChunkFails, Reassign, AttributeLpBalances, CombineAddr,
       AddrsCombined, ReportTrader, TradersReported

LEMMA InputsSame ==
    ASSUME UNCHANGED inputVars
    PROVE  /\ InputsOK' = InputsOK
           /\ Traders' = Traders
           /\ TraderTotal' = TraderTotal
           /\ PoolBalance' = PoolBalance
           /\ NoSelfDelegation' = NoSelfDelegation
           /\ PlainDelegation' = PlainDelegation
           /\ \A n : Attributed(n)' = Attributed(n)
           /\ \A a, R : CashDue(a, R)' = CashDue(a, R)
           /\ \A a : Due(a)' = Due(a)
<1>1. Traders' = Traders
    BY DEF inputVars, Traders
<1>2. TraderTotal' = TraderTotal
    BY <1>1 DEF inputVars, TraderTotal
<1>3. PoolBalance' = PoolBalance
    BY DEF inputVars, PoolBalance
<1>4. ShTknTotal' = ShTknTotal
    BY DEF inputVars, ShTknTotal
<1>5. \A n : Attributed(n)' = Attributed(n)
    BY <1>2, <1>3, <1>4 DEF Attributed
<1>6. ASSUME NEW a, NEW R PROVE CashDue(a, R)' = CashDue(a, R)
  <2>1. Wallets(a, R)' = Wallets(a, R) /\ Own(a, R)' = Own(a, R)
      BY <1>1 DEF Wallets, Own
  <2>2. QED
      BY <2>1 DEF inputVars, CashDue
<1>7. ASSUME NEW a PROVE Due(a)' = Due(a)
    BY <1>5, <1>6 DEF inputVars, Due
<1>8. InputsOK' = InputsOK
    BY <1>4 DEF inputVars, InputsOK
<1>9. NoSelfDelegation' = NoSelfDelegation /\ PlainDelegation' = PlainDelegation
    BY DEF inputVars, NoSelfDelegation, PlainDelegation
<1>10. QED
    BY <1>1, <1>2, <1>3, <1>5, <1>6, <1>7, <1>8, <1>9

-----------------------------------------------------------------------------
(***************************************************************************)
(* The initial states                                                      *)
(***************************************************************************)

LEMMA InitInputs ==
    ASSUME Init
    PROVE  InputsOK
<1>1. shares \in [Addr -> Nat]
    BY BoundsAssumption DEF Init
<1>2. ShTknTotal > 0 /\ exact \in BOOLEAN /\ rows \subseteq Addr \X Addr
    BY DEF Init
<1>3. pool.atLatest \in Int
    BY BoundsAssumption DEF Init
<1>4. /\ cash \in [DOMAIN cash -> Int]
      /\ DOMAIN cash \subseteq Addr \cup {PerpProxy}
  <2>1. PICK T \in SUBSET Addr : cash \in [T \cup {PerpProxy} -> (-1)..MaxCash]
      BY DEF Init
  <2>2. MaxCash \in Nat
      BY BoundsAssumption
  <2>3. QED
      BY <2>1, <2>2
<1>5. CASE exact
  <2>1. PICK n \in 1..2 : addrs \in [1..n -> Addr]
      BY <1>5 DEF Init, NamedAddrs
  <2>2. addrs \in Seq(Addr)
      BY <2>1
  <2>3. QED
      BY <1>1, <1>2, <1>3, <1>4, <1>5, <2>2 DEF InputsOK
<1>6. CASE ~exact
  <2>1. addrs \in Receivers
      BY <1>6 DEF Init
  <2>2. PICK H \in SUBSET Addr :
            /\ \A a \in Addr : shares[a] > 0 => a \in H
            /\ addrs \in [1..Cardinality(H) -> H]
            /\ IsInjective(addrs)
      BY <2>1 DEF Receivers
  <2>3. IsFiniteSet(H) /\ Cardinality(H) \in Nat
      BY FS_Subset, FS_CardinalityType, AddrAssumption
  <2>4. Cardinality(1..Cardinality(H)) = Cardinality(H)
      BY <2>3, FS_Interval
  <2>5. addrs \in Injection(1..Cardinality(H), H)
      BY <2>2 DEF Injection
  <2>6. addrs \in Surjection(1..Cardinality(H), H)
      BY <2>3, <2>4, <2>5, FS_Injection
  <2>7. \A a \in H : \E i \in 1..Cardinality(H) : addrs[i] = a
      BY <2>6 DEF Surjection
  <2>8. addrs \in Seq(Addr)
      BY <2>2, <2>3
  <2>9. QED
      BY <1>1, <1>2, <1>3, <1>4, <1>6, <2>2, <2>7, <2>8 DEF InputsOK
<1>7. QED
    BY <1>2, <1>5, <1>6

LEMMA InitIInv ==
    ASSUME Init
    PROVE  IInv
<1>1. InputsOK
    BY InitInputs
<1>2. DOMAIN traderBal = Traders /\ \A a \in Traders : traderBal[a] = cash[a]
    BY DEF Init, Restrict
<1>3. traderBal \in [Traders -> Int]
    BY <1>1, <1>2, InputsFacts DEF Init, Restrict
<1>4. TypeOK
  <2>1. Len(addrs) \in Nat
      BY <1>1 DEF InputsOK
  <2>2. from \in 0..Len(addrs) /\ k \in 1..(Len(addrs) + 1)
      BY <2>1 DEF Init
  <2>3. balcs \in Seq(Nat) /\ lpBal \in Seq(Int) /\ report \in Seq([addr : Addr, bal : Int])
      BY DEF Init
  <2>4. QED
      BY <1>1, <1>2, <1>3, <2>2, <2>3 DEF Init, TypeOK
<1>5. StagesInOrder
    BY DEF Init, StagesInOrder
<1>6. SharesInOrder
  <2>1. balcs = [i \in 1..from |-> shares[addrs[i]]]
      BY DEF Init
  <2>2. QED
      BY <2>1 DEF Init, SharesInOrder
<1>7. Combined = {} /\ Visited = {} /\ report = <<>> /\ rows \ rowsLeft = {}
    BY DEF Init, Combined, Visited
<1>8. CombinedAreConsumed
    BY <1>7 DEF CombinedAreConsumed
<1>9. CashConserved
  <2>1. LeftInMap = Traders
      BY <1>2 DEF Init, LeftInMap
  <2>2. SumOn(traderBal, Traders) = TraderTotal
      BY <1>1, <1>2, SumOnSame, InputsFacts
  <2>3. DOMAIN report = {} /\ 1..(k - 1) = {}
      BY DEF Init
  <2>4. SumOn(Reported, {}) = 0 /\ SumOn(lpBal, {}) = 0
      BY SumOnEmpty
  <2>5. TraderTotal \in Int
      BY <1>1, InputsFacts
  <2>6. 0 + TraderTotal = TraderTotal + 0
      BY <2>5
  <2>7. SumOn(Reported, DOMAIN report) = 0 /\ SumOn(lpBal, 1..(k - 1)) = 0
      BY <2>3, <2>4, Zenon
  <2>8. QED
      BY <2>1, <2>2, <2>6, <2>7, Zenon DEF CashConserved
<1>10. MapHoldsDue
  <2>1. ASSUME NEW a \in Addr PROVE BalOf(a) = CashDue(a, {})
    <3>1. Wallets(a, {}) = {} /\ Own(a, {}) = (IF a \in Traders THEN {a} ELSE {})
        BY DEF Wallets, Own
    <3>2. CASE a \in Traders
      <4>0. Wallets(a, {}) \cup Own(a, {}) = {a}
          BY <3>1, <3>2
      <4>1. CashDue(a, {}) = SumOn(cash, {a})
          BY <1>1, <4>0, CashDueIsSum, Zenon
      <4>2. cash[a] \in Int
          BY <1>1, <3>2, InputsFacts
      <4>3. SumOn(cash, {} \cup {a}) = cash[a] + SumOn(cash, {})
          BY <4>2, SumOnAdd, FS_EmptySet
      <4>4. SumOn(cash, {a}) = cash[a]
          BY <4>2, <4>3, SumOnEmpty
      <4>5. QED
          BY <1>2, <3>2, <4>1, <4>4 DEF BalOf
    <3>3. CASE a \notin Traders
      <4>0. Wallets(a, {}) \cup Own(a, {}) = {}
          BY <3>1, <3>3
      <4>1. CashDue(a, {}) = SumOn(cash, {})
          BY <1>1, <4>0, CashDueIsSum, Zenon
      <4>2. QED
          BY <1>2, <3>3, <4>1, SumOnEmpty DEF BalOf
    <3>4. QED
        BY <3>2, <3>3
  <2>2. QED
      BY <1>7, <2>1 DEF MapHoldsDue
<1>11. EntriesDue
    BY <1>7 DEF EntriesDue
<1>12. NamesInOrder
  <2>1. Names = [i \in 1..(k - 1) |-> addrs[i]]
      BY DEF Init, Names
  <2>2. QED
      BY <2>1 DEF NamesInOrder
<1>13. NamesOnce
    BY <1>7 DEF NamesOnce, Names, Named, IsInjective
<1>14. NobodyLeftOut
    BY <1>7 DEF NobodyLeftOut
<1>15. QED
    BY <1>4, <1>5, <1>6, <1>8, <1>9, <1>10, <1>11, <1>12, <1>13, <1>14 DEF IInv

-----------------------------------------------------------------------------
(***************************************************************************)
(* The types, the stages and the shares                                    *)
(***************************************************************************)

\* A prefix of g and the chunk that follows it are a longer prefix.
LEMMA PrefixExtended ==
    ASSUME NEW g, NEW n \in Nat, NEW m \in Nat, n <= m, \A i \in 1..m : g[i] \in Nat,
           NEW s, s = [i \in 1..n |-> g[i]],
           NEW t, t = [i \in 1..(m - n) |-> g[n + i]],
           NEW u, u = [i \in 1..m |-> g[i]]
    PROVE  s \o t = u
<1>1. PICK d \in Nat : d = m - n
    OBVIOUS
<1>2. s \in Seq(Nat) /\ Len(s) = n /\ u \in Seq(Nat) /\ Len(u) = m
    OBVIOUS
<1>3. t \in Seq(Nat) /\ Len(t) = d
    BY <1>1
<1>4. /\ \A i \in 1..n : s[i] = g[i]
      /\ \A i \in 1..d : t[i] = g[n + i]
      /\ \A i \in 1..m : u[i] = g[i]
    BY <1>1
<1>5. /\ s \o t \in Seq(Nat)
      /\ Len(s \o t) = n + d
      /\ \A i \in 1..(n + d) : (s \o t)[i] = IF i <= n THEN s[i] ELSE t[i - n]
    BY <1>2, <1>3, ConcatProperties
<1>6. n + d = m
    BY <1>1
<1>7. ASSUME NEW i \in 1..m
      PROVE  (s \o t)[i] = u[i]
  <2>1. CASE i <= n
      BY <1>4, <1>5, <1>6, <2>1
  <2>2. CASE i > n
    <3>1. PICK j \in 1..d : j = i - n
        BY <1>6, <2>2
    <3>2. n + j = i
        BY <3>1
    <3>3. t[j] = g[i]
        BY <1>4, <3>2
    <3>4. QED
        BY <1>4, <1>5, <1>6, <2>2, <3>1, <3>3
  <2>3. i <= n \/ i > n
      OBVIOUS
  <2>4. QED
      BY <2>1, <2>2, <2>3, Zenon
<1>8. s \o t = u
    BY <1>2, <1>5, <1>6, <1>7, SeqEqual
<1>9. QED
    BY <1>8

\* The chunks that were read make up a prefix of the shares.
LEMMA ReadChunkStep ==
    ASSUME TypeOK, SharesInOrder, ReadChunk
    PROVE  /\ from' \in 0..Len(addrs)
           /\ balcs' = [i \in 1..from' |-> shares[addrs[i]]]
           /\ pc' # "query" => from' = Len(addrs)
<1>1. Len(addrs) \in Nat /\ from \in 0..Len(addrs) /\ Inc \in Nat \ {0}
    BY IncAssumption DEF TypeOK, InputsOK
<1>2. PICK to \in from..Len(addrs) : to = Lesser(Len(addrs), from + Inc)
    BY <1>1 DEF Lesser
<1>3. from' = to /\ balcs' = balcs \o [i \in 1..(to - from) |-> shares[addrs[from + i]]]
    BY <1>2 DEF ReadChunk, NextFrom
<1> DEFINE g == [i \in 1..Len(addrs) |-> shares[addrs[i]]]
           chunk == [i \in 1..(to - from) |-> shares[addrs[from + i]]]
           prefix == [i \in 1..to |-> shares[addrs[i]]]
<1>4. \A i \in 1..to : g[i] \in Nat
    BY <1>1, <1>2 DEF TypeOK, InputsOK
<1>5. balcs = [i \in 1..from |-> g[i]]
    BY <1>1 DEF SharesInOrder
<1>6. chunk = [i \in 1..(to - from) |-> g[from + i]]
    BY <1>1, <1>2
<1>7. prefix = [i \in 1..to |-> g[i]]
    BY <1>1, <1>2
<1> HIDE DEF g, chunk, prefix
<1>8. balcs \o chunk = prefix
  <2>1. from \in Nat /\ to \in Nat /\ from <= to
      BY <1>1
  <2>2. QED
      BY <1>4, <1>5, <1>6, <1>7, <2>1, PrefixExtended
<1>9. pc' # "query" => from' = Len(addrs)
    BY <1>1, <1>2, <1>3 DEF ReadChunk
<1>10. balcs' = [i \in 1..from' |-> shares[addrs[i]]]
    BY <1>3, <1>8 DEF chunk, prefix
<1>11. QED
    BY <1>1, <1>2, <1>3, <1>9, <1>10

\* The trader balances stay integers, of traders and delegates.
LEMMA TraderBalType ==
    ASSUME TypeOK, [Next]_vars
    PROVE  /\ traderBal' \in [DOMAIN traderBal' -> Int]
           /\ DOMAIN traderBal \subseteq DOMAIN traderBal'
           /\ DOMAIN traderBal' \subseteq Traders \cup {row[2] : row \in rows}
<1>1. CASE Reassign
  <2>1. PICK row \in rowsLeft :
            traderBal' = IF row[1] \in DOMAIN traderBal
                         THEN Moved(row[1], row[2]) ELSE traderBal
      BY <1>1 DEF Reassign
  <2>2. row \in rows
      BY DEF TypeOK
  <2>3. /\ Moved(row[1], row[2]) \in [DOMAIN traderBal \cup {row[2]} -> Int]
           \/ row[1] \notin DOMAIN traderBal
    <3>1. \A x \in DOMAIN traderBal : traderBal[x] \in Int
        BY DEF TypeOK
    <3>2. BalOf(row[2]) \in Int
        BY <3>1 DEF BalOf
    <3>3. QED
        BY <3>1, <3>2 DEF Moved
  <2>4. QED
      BY <2>1, <2>2, <2>3 DEF TypeOK
<1>2. CASE CombineAddr
    BY <1>2 DEF CombineAddr, Consumed, TypeOK
<1>3. CASE UNCHANGED traderBal
    BY <1>3 DEF TypeOK
<1>4. QED
    BY <1>1, <1>2, <1>3 DEF Next, vars, ReadChunk, ChunkFails, AttributeLpBalances,
       AddrsCombined, ReportTrader, TradersReported

\* The parts attributed, one for each address, are integers.
LEMMA LpBalTyped ==
    ASSUME TypeOK, SharesInOrder, pc \notin {"query", "reassign"}
    PROVE  \A i \in 1..Len(addrs) : /\ lpBal[i] = Attributed(shares[addrs[i]])
                                    /\ lpBal[i] \in Int
<1>1. SUFFICES ASSUME NEW i \in 1..Len(addrs)
               PROVE  /\ lpBal[i] = Attributed(shares[addrs[i]])
                      /\ lpBal[i] \in Int
    OBVIOUS
<1>2. lpBal[i] = Attributed(shares[addrs[i]])
    BY DEF SharesInOrder
<1>3. shares[addrs[i]] \in Int
    BY DEF TypeOK, InputsOK
<1>4. QED
    BY <1>2, <1>3, InputsFacts DEF TypeOK

LEMMA BalOfType ==
    ASSUME TypeOK
    PROVE  \A a : BalOf(a) \in Int
BY DEF TypeOK, BalOf

LEMMA EntryAppended ==
    ASSUME TypeOK, NEW a \in Addr, NEW b \in Int
    PROVE  /\ Append(report, Entry(a, b)) \in Seq([addr : Addr, bal : Int])
           /\ Len(report) \in Nat
           /\ DOMAIN report = 1..Len(report)
           /\ Len(report) + 1 \notin DOMAIN report
           /\ DOMAIN Append(report, Entry(a, b)) = 1..(Len(report) + 1)
           /\ DOMAIN Append(report, Entry(a, b)) = DOMAIN report \cup {Len(report) + 1}
           /\ Append(report, Entry(a, b))[Len(report) + 1].addr = a
           /\ Append(report, Entry(a, b))[Len(report) + 1].bal = b
           /\ \A i \in DOMAIN report : Append(report, Entry(a, b))[i] = report[i]
<1>1. Entry(a, b) \in [addr : Addr, bal : Int] /\ Entry(a, b).addr = a /\ Entry(a, b).bal = b
    BY DEF Entry
<1>2. report \in Seq([addr : Addr, bal : Int])
    BY DEF TypeOK
<1>3. QED
    BY <1>1, <1>2

LEMMA NextTypeOK ==
    ASSUME TypeOK, StagesInOrder, SharesInOrder, [Next]_vars
    PROVE  TypeOK'
<1>1. /\ InputsOK' /\ addrs' = addrs /\ rows' = rows /\ Traders' = Traders
    BY NextInputs, InputsSame DEF TypeOK, inputVars
<1>2. /\ traderBal' \in [DOMAIN traderBal' -> Int]
      /\ DOMAIN traderBal \subseteq DOMAIN traderBal'
      /\ DOMAIN traderBal' \subseteq Traders \cup {row[2] : row \in rows}
    BY TraderBalType
<1>3. /\ Traders' \subseteq DOMAIN traderBal'
      /\ DOMAIN traderBal' \subseteq Traders' \cup {row[2] : row \in rows'}
    BY <1>1, <1>2 DEF TypeOK
<1>4. Len(addrs) \in Nat
    BY DEF TypeOK, InputsOK
<1>5. CASE ReadChunk
  <2>1. from' \in 0..Len(addrs) /\ balcs' = [i \in 1..from' |-> shares[addrs[i]]]
      BY <1>5, ReadChunkStep
  <2>2. \A i \in 1..Len(addrs) : shares[addrs[i]] \in Nat
      BY DEF TypeOK, InputsOK
  <2>3. balcs' \in Seq(Nat)
      BY <1>4, <2>1, <2>2
  <2>4. QED
      BY <1>1, <1>2, <1>3, <1>5, <2>1, <2>3 DEF TypeOK, ReadChunk
<1>6. CASE ChunkFails
    BY <1>1, <1>2, <1>3, <1>4, <1>6 DEF TypeOK, ChunkFails
<1>7. CASE Reassign
    BY <1>1, <1>2, <1>3, <1>7 DEF TypeOK, Reassign, queryVars
<1>8. CASE AttributeLpBalances
  <2>1. lpBal' \in Seq(Int)
    <3>1. \A i \in 1..Len(balcs) : Attributed(balcs[i]) \in Int
        BY InputsFacts DEF TypeOK
    <3>2. lpBal' = [i \in 1..Len(balcs) |-> Attributed(balcs[i])]
        BY <1>8 DEF AttributeLpBalances, TypeOK
    <3>3. QED
        BY <3>1, <3>2 DEF TypeOK
  <2>2. QED
      BY <1>1, <1>2, <1>3, <1>8, <2>1 DEF TypeOK, AttributeLpBalances, queryVars
<1>9. CASE CombineAddr
  <2>1. k \in 1..Len(addrs) /\ k' \in 1..(Len(addrs) + 1)
      BY <1>4, <1>9 DEF TypeOK, CombineAddr
  <2>2. lpBal[k] + BalOf(addrs[k]) \in Int
      BY <1>9, <2>1, LpBalTyped, BalOfType DEF CombineAddr
  <2>3. addrs[k] \in Addr
      BY <2>1 DEF TypeOK, InputsOK
  <2>4. report' \in Seq([addr : Addr, bal : Int])
      BY <1>9, <2>2, <2>3, EntryAppended DEF CombineAddr, TypeOK
  <2>5. QED
      BY <1>1, <1>2, <1>3, <1>9, <2>1, <2>4 DEF TypeOK, CombineAddr, queryVars
<1>10. CASE AddrsCombined
    BY <1>1, <1>2, <1>3, <1>10 DEF TypeOK, AddrsCombined, queryVars
<1>11. CASE ReportTrader
  <2>1. PICK a \in mapLeft :
            /\ mapLeft' = mapLeft \ {a}
            /\ report' = IF traderBal[a] # 0 THEN Append(report, Entry(a, traderBal[a]))
                         ELSE report
      BY <1>11 DEF ReportTrader
  <2>2. a \in DOMAIN traderBal /\ traderBal[a] \in Int /\ a \in Addr
      BY InputsFacts DEF TypeOK, InputsOK
  <2>3. report' \in Seq([addr : Addr, bal : Int])
      BY <2>1, <2>2, EntryAppended DEF TypeOK
  <2>4. QED
      BY <1>1, <1>2, <1>3, <1>11, <2>1, <2>3 DEF TypeOK, ReportTrader, queryVars
<1>12. CASE TradersReported
    BY <1>1, <1>2, <1>3, <1>12 DEF TypeOK, TradersReported, queryVars
<1>13. CASE UNCHANGED vars
    BY <1>1, <1>2, <1>3, <1>13 DEF TypeOK, vars, queryVars
<1>14. QED
    BY <1>5, <1>6, <1>7, <1>8, <1>9, <1>10, <1>11, <1>12, <1>13 DEF Next

LEMMA NextStagesInOrder ==
    ASSUME TypeOK, StagesInOrder, SharesInOrder, [Next]_vars
    PROVE  StagesInOrder'
<1>1. addrs' = addrs /\ exact' = exact /\ Len(addrs) \in Nat
    BY NextInputs DEF inputVars, TypeOK, InputsOK
<1>2. CASE ReadChunk
    BY <1>1, <1>2, ReadChunkStep DEF StagesInOrder, ReadChunk
<1>3. CASE ChunkFails
    BY <1>1, <1>3 DEF StagesInOrder, ChunkFails
<1>4. CASE Reassign
    BY <1>1, <1>4 DEF StagesInOrder, Reassign, queryVars
<1>5. CASE AttributeLpBalances
    BY <1>1, <1>5 DEF StagesInOrder, AttributeLpBalances, queryVars
<1>6. CASE CombineAddr
    BY <1>1, <1>6 DEF StagesInOrder, CombineAddr, queryVars
<1>7. CASE AddrsCombined
    BY <1>1, <1>7 DEF StagesInOrder, AddrsCombined, queryVars, TypeOK
<1>8. CASE ReportTrader
    BY <1>1, <1>8 DEF StagesInOrder, ReportTrader, queryVars
<1>9. CASE TradersReported
    BY <1>1, <1>9 DEF StagesInOrder, TradersReported, queryVars
<1>10. CASE UNCHANGED vars
    BY <1>1, <1>10 DEF StagesInOrder, vars, queryVars
<1>11. QED
    BY <1>2, <1>3, <1>4, <1>5, <1>6, <1>7, <1>8, <1>9, <1>10 DEF Next

LEMMA NextSharesInOrder ==
    ASSUME TypeOK, StagesInOrder, SharesInOrder, [Next]_vars
    PROVE  SharesInOrder'
<1>1. addrs' = addrs /\ shares' = shares /\ Len(addrs) \in Nat
    BY NextInputs DEF inputVars, TypeOK, InputsOK
<1>2. \A n : Attributed(n)' = Attributed(n)
    BY NextInputs, InputsSame
<1>3. CASE ReadChunk
  <2>1. pc' \notin {"query", "reassign"} => FALSE
      BY <1>3 DEF ReadChunk
  <2>2. QED
      BY <1>1, <1>3, <2>1, ReadChunkStep DEF SharesInOrder
<1>4. CASE ChunkFails
    BY <1>1, <1>4 DEF ChunkFails, SharesInOrder
<1>5. CASE AttributeLpBalances
  <2>1. DOMAIN balcs = 1..Len(addrs) /\ from = Len(addrs)
      BY <1>5 DEF AttributeLpBalances, StagesInOrder, SharesInOrder
  <2>2. \A i \in 1..Len(addrs) : balcs[i] = shares[addrs[i]]
      BY <2>1 DEF SharesInOrder
  <2>3. lpBal' = [i \in 1..Len(addrs) |-> Attributed(shares[addrs[i]])]
      BY <1>5, <2>1, <2>2 DEF AttributeLpBalances
  <2>4. balcs' = balcs /\ from' = from
      BY <1>5 DEF AttributeLpBalances, queryVars
  <2>5. QED
      BY <1>1, <1>2, <2>3, <2>4 DEF SharesInOrder
<1>6. CASE /\ UNCHANGED <<queryVars, lpBal>>
           /\ pc' \in {"query", "reassign"} \/ pc \notin {"query", "reassign"}
    BY <1>1, <1>2, <1>6 DEF SharesInOrder, queryVars
<1>7. CASE Reassign \/ CombineAddr \/ AddrsCombined \/ ReportTrader \/ TradersReported
    BY <1>6, <1>7 DEF Reassign, CombineAddr, AddrsCombined, ReportTrader, TradersReported
<1>8. CASE UNCHANGED vars
    BY <1>6, <1>8 DEF vars
<1>9. QED
    BY <1>3, <1>4, <1>5, <1>7, <1>8 DEF Next

\* Only combineBalances' first loop adds to the addresses it is done with.
LEMMA CombinedStep ==
    ASSUME TypeOK, StagesInOrder, [Next]_vars
    PROVE  /\ CombineAddr => /\ k \in 1..Len(addrs)
                             /\ Combined' = Combined \cup {addrs[k]}
           /\ ~CombineAddr => k' = k /\ Combined' = Combined
           /\ Combined \subseteq Addr
           /\ pc \in {"query", "reassign"} => Combined = {}
           /\ pc \in {"traders", "done"} => Combined = {addrs[i] : i \in DOMAIN addrs}
<1>1. addrs' = addrs /\ Len(addrs) \in Nat /\ k \in 1..(Len(addrs) + 1)
    BY NextInputs DEF inputVars, TypeOK, InputsOK
<1>2. ASSUME CombineAddr
      PROVE  k \in 1..Len(addrs) /\ Combined' = Combined \cup {addrs[k]}
  <2>1. k \in 1..Len(addrs) /\ k' = k + 1
      BY <1>1, <1>2 DEF CombineAddr
  <2>2. 1..(k' - 1) = (1..(k - 1)) \cup {k}
      BY <1>1, <2>1
  <2>3. QED
      BY <1>1, <2>1, <2>2 DEF Combined
<1>3. ASSUME ~CombineAddr
      PROVE  k' = k /\ Combined' = Combined
  <2>1. k' = k
      BY <1>3 DEF Next, vars, ReadChunk, ChunkFails, Reassign, AttributeLpBalances,
         AddrsCombined, ReportTrader, TradersReported
  <2>2. QED
      BY <1>1, <2>1 DEF Combined
<1>4. Combined \subseteq Addr
    BY <1>1 DEF Combined, TypeOK, InputsOK
<1>5. pc \in {"query", "reassign"} => Combined = {}
    BY DEF Combined, StagesInOrder
<1>6. ASSUME pc \in {"traders", "done"}
      PROVE  Combined = {addrs[i] : i \in DOMAIN addrs}
  <2>1. k - 1 = Len(addrs)
      BY <1>1, <1>6 DEF StagesInOrder
  <2>2. DOMAIN addrs = 1..Len(addrs)
      BY DEF TypeOK, InputsOK
  <2>3. QED
      BY <2>1, <2>2 DEF Combined
<1>7. QED
    BY <1>2, <1>3, <1>4, <1>5, <1>6

LEMMA NextCombinedAreConsumed ==
    ASSUME TypeOK, StagesInOrder, CombinedAreConsumed, [Next]_vars
    PROVE  CombinedAreConsumed'
<1>1. CASE CombineAddr
  <2>1. Combined' = Combined \cup {addrs[k]}
      BY <1>1, CombinedStep
  <2>2. traderBal' = Consumed(addrs[k])
      BY <1>1 DEF CombineAddr
  <2>3. \A a : BalOf(a)' = IF a = addrs[k] THEN 0 ELSE BalOf(a)
      BY <2>2 DEF Consumed, BalOf, TypeOK
  <2>4. QED
      BY <2>1, <2>3 DEF CombinedAreConsumed
<1>2. CASE Reassign
  <2>1. Combined' = {}
      BY <1>2, CombinedStep DEF Reassign, CombineAddr
  <2>2. QED
      BY <2>1 DEF CombinedAreConsumed
<1>3. CASE UNCHANGED traderBal /\ ~CombineAddr
  <2>1. Combined' = Combined /\ \A a : BalOf(a)' = BalOf(a)
      BY <1>3, CombinedStep DEF BalOf
  <2>2. QED
      BY <2>1 DEF CombinedAreConsumed
<1>4. QED
    BY <1>1, <1>2, <1>3 DEF Next, vars, ReadChunk, ChunkFails, AttributeLpBalances,
       AddrsCombined, ReportTrader, TradersReported

-----------------------------------------------------------------------------
(***************************************************************************)
(* Conservation                                                            *)
(***************************************************************************)

LEMMA SumsTyped ==
    ASSUME TypeOK, StagesInOrder, SharesInOrder
    PROVE  /\ IsFiniteSet(DOMAIN traderBal)
           /\ IsFiniteSet(mapLeft)
           /\ DOMAIN traderBal \subseteq Addr
           /\ \A a \in DOMAIN traderBal : traderBal[a] \in Int
           /\ SumOn(traderBal, LeftInMap) \in Int
           /\ IsFiniteSet(DOMAIN report)
           /\ \A i \in DOMAIN report : Reported[i] \in Int
           /\ SumOn(Reported, DOMAIN report) \in Int
           /\ IsFiniteSet(1..(k - 1))
           /\ \A i \in 1..(k - 1) : lpBal[i] \in Int
           /\ SumOn(lpBal, 1..(k - 1)) \in Int
<1>1. DOMAIN traderBal \subseteq Addr /\ \A a \in DOMAIN traderBal : traderBal[a] \in Int
    BY InputsFacts DEF TypeOK, InputsOK
<1>2. IsFiniteSet(DOMAIN traderBal) /\ IsFiniteSet(mapLeft)
    BY <1>1, FS_Subset, AddrAssumption DEF TypeOK
<1>3. LeftInMap \subseteq DOMAIN traderBal /\ IsFiniteSet(LeftInMap)
    BY <1>2 DEF LeftInMap, TypeOK
<1>4. SumOn(traderBal, LeftInMap) \in Int
    BY <1>1, <1>3, SumOnType
<1>5. DOMAIN report = 1..Len(report) /\ Len(report) \in Nat
    BY DEF TypeOK
<1>6. IsFiniteSet(DOMAIN report)
    BY <1>5, FS_Interval
<1>7. \A i \in DOMAIN report : Reported[i] \in Int
  <2>1. \A i \in DOMAIN report : report[i] \in [addr : Addr, bal : Int]
      BY <1>5, ElementOfSeq DEF TypeOK
  <2>2. ASSUME NEW i \in DOMAIN report PROVE report[i].bal \in Int
    <3>1. report[i] \in [addr : Addr, bal : Int]
        BY <2>1
    <3>2. QED
        BY <3>1
  <2>3. QED
      BY <2>2 DEF Reported
<1>8. SumOn(Reported, DOMAIN report) \in Int
    BY <1>6, <1>7, SumOnType
<1>9. k \in Int /\ IsFiniteSet(1..(k - 1))
  <2>1. k \in Int /\ k - 1 \in Int
      BY DEF TypeOK, InputsOK
  <2>2. QED
      BY <2>1, FS_Interval
<1>10. \A i \in 1..(k - 1) : lpBal[i] \in Int
  <2>1. CASE pc \in {"query", "reassign"}
      BY <2>1 DEF StagesInOrder
  <2>2. CASE pc \notin {"query", "reassign"}
    <3>1. \A i \in 1..(k - 1) : i \in 1..Len(addrs)
        BY DEF TypeOK, InputsOK
    <3>2. QED
        BY <2>2, <3>1, LpBalTyped
  <2>3. QED
      BY <2>1, <2>2
<1>11. SumOn(lpBal, 1..(k - 1)) \in Int
    BY <1>9, <1>10, SumOnType
<1>12. QED
    BY <1>1, <1>2, <1>4, <1>6, <1>7, <1>8, <1>9, <1>10, <1>11

\* An entry appended adds its balance.
LEMMA AppendedSum ==
    ASSUME TypeOK, StagesInOrder, SharesInOrder, NEW a \in Addr, NEW b \in Int,
           report' = Append(report, Entry(a, b))
    PROVE  SumOn(Reported, DOMAIN report)' = b + SumOn(Reported, DOMAIN report)
<1> DEFINE n == Len(report) + 1
<1>1. DOMAIN report' = DOMAIN report \cup {n} /\ n \notin DOMAIN report
    BY EntryAppended
<1>2. PICK r : r = Reported'
    OBVIOUS
<1>3. r[n] = b /\ \A i \in DOMAIN report : r[i] = Reported[i]
  <2>1. report'[n].bal = b /\ \A i \in DOMAIN report : report'[i] = report[i]
    <3>1. /\ Append(report, Entry(a, b))[n].bal = b
          /\ \A i \in DOMAIN report : Append(report, Entry(a, b))[i] = report[i]
        BY EntryAppended
    <3>2. QED
        BY <3>1, Zenon
  <2>2. r = [i \in DOMAIN report' |-> report'[i].bal]
      BY <1>2 DEF Reported
  <2> HIDE DEF n
  <2>3. QED
      BY <1>1, <2>1, <2>2 DEF Reported
<1>4. IsFiniteSet(DOMAIN report) /\ \A i \in DOMAIN report : Reported[i] \in Int
    BY SumsTyped
<1>5. \A i \in DOMAIN report \cup {n} : r[i] \in Int
    BY <1>3, <1>4
<1> HIDE DEF n
<1>6. SumOn(r, DOMAIN report \cup {n}) = r[n] + SumOn(r, DOMAIN report)
    BY <1>1, <1>4, <1>5, SumOnAdd
<1>7. SumOn(r, DOMAIN report) = SumOn(Reported, DOMAIN report)
    BY <1>3, <1>4, SumOnSame
<1>8. SumOn(Reported, DOMAIN report)' = SumOn(r, DOMAIN report \cup {n})
    BY <1>1, <1>2
<1>9. QED
    BY <1>3, <1>6, <1>7, <1>8

\* What is moved to another address is not lost.
LEMMA MovedSum ==
    ASSUME TypeOK, StagesInOrder, SharesInOrder,
           NEW a \in DOMAIN traderBal, NEW d \in Addr, a # d
    PROVE  SumOn(Moved(a, d), DOMAIN traderBal \cup {d}) = SumOn(traderBal, DOMAIN traderBal)
<1> DEFINE D == DOMAIN traderBal
           E == D \cup {d}
           R == (E \ {a}) \ {d}
<1>1. PICK m : m = Moved(a, d)
    OBVIOUS
<1>2. /\ IsFiniteSet(D) /\ \A x \in D : traderBal[x] \in Int
      /\ BalOf(d) \in Int
    BY SumsTyped, BalOfType
<1>3. IsFiniteSet(E) /\ IsFiniteSet(E \ {a}) /\ IsFiniteSet(R) /\ IsFiniteSet(D \ {a})
    BY <1>2, FS_AddElement, FS_Difference
<1>4. /\ m[a] = 0
      /\ m[d] = BalOf(d) + traderBal[a]
      /\ \A x \in R : x \in D /\ m[x] = traderBal[x]
    BY <1>1 DEF Moved
<1>5. \A x \in E : m[x] \in Int
    BY <1>2, <1>4
<1>6. SumOn(m, E) = m[a] + SumOn(m, E \ {a})
    BY <1>3, <1>5, SumOnRemove
<1>7. SumOn(m, E \ {a}) = m[d] + SumOn(m, R)
  <2>1. d \in E \ {a} /\ \A x \in E \ {a} : m[x] \in Int
      BY <1>5
  <2> HIDE DEF E
  <2>2. QED
      BY <1>3, <2>1, SumOnRemove
<1>8. SumOn(m, R) = SumOn(traderBal, R)
    BY <1>3, <1>4, SumOnSame
<1>9. SumOn(traderBal, R) \in Int
    BY <1>2, <1>3, <1>4, SumOnType
<1>10. SumOn(traderBal, D) = traderBal[a] + SumOn(traderBal, D \ {a})
    BY <1>2, SumOnRemove
<1>11. SumOn(traderBal, D \ {a}) = BalOf(d) + SumOn(traderBal, R)
  <2>1. CASE d \in D
    <3>1. R = (D \ {a}) \ {d} /\ d \in D \ {a} /\ \A x \in D \ {a} : traderBal[x] \in Int
        BY <1>2, <2>1
    <3> HIDE DEF D, E, R
    <3>2. SumOn(traderBal, D \ {a}) = traderBal[d] + SumOn(traderBal, R)
        BY <1>3, <3>1, SumOnRemove
    <3>3. QED
        BY <2>1, <3>2 DEF BalOf, D
  <2>2. CASE d \notin D
    <3>1. R = D \ {a} /\ BalOf(d) = 0
        BY <2>2 DEF BalOf
    <3> HIDE DEF D, E, R
    <3>2. QED
        BY <1>9, <3>1
  <2>3. QED
      BY <2>1, <2>2
<1> HIDE DEF R
<1>12. QED
  <2>1. traderBal[a] \in Int
      BY <1>2
  <2>2. SumOn(m, E) = SumOn(traderBal, D)
      BY <1>2, <1>4, <1>6, <1>7, <1>8, <1>9, <1>10, <1>11, <2>1
  <2>3. QED
      BY <1>1, <2>2

\* A balance that is consumed is taken out of the map.
LEMMA ConsumedSum ==
    ASSUME TypeOK, StagesInOrder, SharesInOrder, NEW a \in Addr
    PROVE  /\ DOMAIN Consumed(a) = DOMAIN traderBal
           /\ BalOf(a) + SumOn(Consumed(a), DOMAIN traderBal) = SumOn(traderBal, DOMAIN traderBal)
<1> DEFINE D == DOMAIN traderBal
<1>1. PICK c : c = Consumed(a)
    OBVIOUS
<1>2. /\ IsFiniteSet(D) /\ \A x \in D : traderBal[x] \in Int
    BY SumsTyped
<1>3. SumOn(traderBal, D) \in Int
    BY <1>2, SumOnType
<1>4. CASE a \in D
  <2>1. DOMAIN c = D /\ c[a] = 0 /\ \A x \in D \ {a} : c[x] = traderBal[x]
      BY <1>1, <1>4 DEF Consumed
  <2>2. IsFiniteSet(D \ {a}) /\ \A x \in D : c[x] \in Int
    <3>1. \A x \in D : x = a \/ x \in D \ {a}
        OBVIOUS
    <3> HIDE DEF D
    <3>2. IsFiniteSet(D \ {a})
        BY <1>2, FS_Difference
    <3>3. \A x \in D : c[x] \in Int
        BY <1>2, <2>1, <3>1
    <3>4. QED
        BY <3>2, <3>3
  <2>3. SumOn(c, D) = c[a] + SumOn(c, D \ {a})
      BY <1>2, <1>4, <2>2, SumOnRemove
  <2>4. SumOn(traderBal, D) = traderBal[a] + SumOn(traderBal, D \ {a})
      BY <1>2, <1>4, SumOnRemove
  <2>5. SumOn(c, D \ {a}) = SumOn(traderBal, D \ {a})
      BY <2>1, <2>2, SumOnSame
  <2>6. SumOn(c, D \ {a}) \in Int
      BY <2>2, SumOnType
  <2>7. BalOf(a) = traderBal[a] /\ BalOf(a) \in Int
      BY <1>2, <1>4 DEF BalOf
  <2> HIDE DEF D
  <2>8. BalOf(a) + SumOn(c, D) = SumOn(traderBal, D)
      BY <2>1, <2>3, <2>4, <2>5, <2>6, <2>7
  <2>9. QED
      BY <1>1, <2>1, <2>8 DEF D
<1>5. CASE a \notin D
  <2>1. Consumed(a) = traderBal /\ BalOf(a) = 0
      BY <1>5 DEF Consumed, BalOf
  <2>2. QED
      BY <1>3, <2>1
<1>6. QED
    BY <1>4, <1>5

LEMMA NextCashConserved ==
    ASSUME TypeOK, StagesInOrder, SharesInOrder, CashConserved, [Next]_vars
    PROVE  CashConserved'
<1>1. /\ exact' = exact
      /\ NoSelfDelegation' = NoSelfDelegation
      /\ TraderTotal' = TraderTotal
      /\ TraderTotal \in Int
    BY NextInputs, InputsSame, InputsFacts DEF inputVars, TypeOK
<1>2. SUFFICES ASSUME ~exact, NoSelfDelegation
               PROVE  SumOn(Reported, DOMAIN report)' + SumOn(traderBal, LeftInMap)'
                        = TraderTotal + SumOn(lpBal, 1..(k - 1))'
    BY <1>1 DEF CashConserved
<1>3. SumOn(Reported, DOMAIN report) + SumOn(traderBal, LeftInMap)
        = TraderTotal + SumOn(lpBal, 1..(k - 1))
    BY <1>2 DEF CashConserved
<1>4. /\ SumOn(Reported, DOMAIN report) \in Int
      /\ SumOn(traderBal, LeftInMap) \in Int
      /\ SumOn(lpBal, 1..(k - 1)) \in Int
    BY SumsTyped
<1>5. ASSUME UNCHANGED report
      PROVE  SumOn(Reported, DOMAIN report)' = SumOn(Reported, DOMAIN report)
    BY <1>5 DEF Reported
<1>6. CASE ReadChunk \/ ChunkFails
  <2>1. UNCHANGED <<report, traderBal, k, lpBal, LeftInMap>>
      BY <1>6 DEF ReadChunk, ChunkFails, LeftInMap
  <2>2. QED
      BY <1>3, <1>5, <2>1
<1>7. CASE Reassign
  <2>1. PICK row \in rowsLeft :
            traderBal' = IF row[1] \in DOMAIN traderBal
                         THEN Moved(row[1], row[2]) ELSE traderBal
      BY <1>7 DEF Reassign
  <2>2. row[2] \in Addr /\ row[1] # row[2]
      BY <1>2 DEF TypeOK, InputsOK, NoSelfDelegation
  <2>3. /\ UNCHANGED <<report, k, lpBal>>
        /\ LeftInMap = DOMAIN traderBal
        /\ LeftInMap' = DOMAIN traderBal'
      BY <1>7 DEF Reassign, LeftInMap
  <2>4. SumOn(traderBal, LeftInMap)' = SumOn(traderBal, LeftInMap)
    <3>1. CASE row[1] \in DOMAIN traderBal
      <4>1. traderBal' = Moved(row[1], row[2])
          BY <2>1, <3>1
      <4>2. DOMAIN Moved(row[1], row[2]) = DOMAIN traderBal \cup {row[2]}
          BY DEF Moved
      <4>3. SumOn(Moved(row[1], row[2]), DOMAIN traderBal \cup {row[2]})
              = SumOn(traderBal, DOMAIN traderBal)
          BY <2>2, <3>1, MovedSum
      <4>4. QED
          BY <2>3, <4>1, <4>2, <4>3
    <3>2. CASE row[1] \notin DOMAIN traderBal
        BY <2>1, <2>3, <3>2
    <3>3. QED
        BY <3>1, <3>2
  <2>5. QED
      BY <1>3, <1>5, <2>3, <2>4
<1>8. CASE AttributeLpBalances
  <2>1. UNCHANGED <<report, traderBal, k, LeftInMap>> /\ 1..(k - 1) = {}
      BY <1>8 DEF AttributeLpBalances, LeftInMap, StagesInOrder
  <2>2. SumOn(lpBal, 1..(k - 1))' = 0 /\ SumOn(lpBal, 1..(k - 1)) = 0
      BY <2>1, SumOnEmpty
  <2>3. QED
      BY <1>3, <1>5, <2>1, <2>2
<1>9. CASE CombineAddr
  <2>1. /\ k \in 1..Len(addrs) /\ k' = k + 1 /\ lpBal' = lpBal
        /\ traderBal' = Consumed(addrs[k])
        /\ LeftInMap = DOMAIN traderBal /\ LeftInMap' = DOMAIN traderBal'
      BY <1>9, CombinedStep DEF CombineAddr, LeftInMap
  <2>2. PICK bal : bal = lpBal[k] + BalOf(addrs[k])
      OBVIOUS
  <2>3. addrs[k] \in Addr /\ lpBal[k] \in Int /\ BalOf(addrs[k]) \in Int /\ bal \in Int
    <3>1. addrs[k] \in Addr
        BY <2>1 DEF TypeOK, InputsOK
    <3>2. pc \notin {"query", "reassign"}
        BY <1>9 DEF CombineAddr
    <3>3. lpBal[k] \in Int
        BY <2>1, <3>2, LpBalTyped
    <3>4. BalOf(addrs[k]) \in Int
        BY BalOfType
    <3>5. QED
        BY <2>2, <3>1, <3>3, <3>4
  <2>4. report' = IF bal # 0 THEN Append(report, Entry(addrs[k], bal)) ELSE report
      BY <1>2, <1>9, <2>2 DEF CombineAddr, Listed
  <2>5. SumOn(Reported, DOMAIN report)' = bal + SumOn(Reported, DOMAIN report)
    <3>1. CASE bal # 0
        BY <2>3, <2>4, <3>1, AppendedSum
    <3>2. CASE bal = 0
        BY <1>4, <1>5, <2>4, <3>2
    <3>3. QED
        BY <3>1, <3>2
  <2>6. BalOf(addrs[k]) + SumOn(traderBal, LeftInMap)' = SumOn(traderBal, LeftInMap)
      BY <2>1, <2>3, ConsumedSum
  <2>7. SumOn(lpBal, 1..(k - 1))' = lpBal[k] + SumOn(lpBal, 1..(k - 1))
    <3>1. IsFiniteSet(1..(k - 1)) /\ \A i \in 1..(k - 1) : lpBal[i] \in Int
        BY SumsTyped
    <3>2. k \notin 1..(k - 1) /\ 1..(k' - 1) = (1..(k - 1)) \cup {k}
        BY <2>1 DEF TypeOK, InputsOK
    <3>3. SumOn(lpBal, (1..(k - 1)) \cup {k}) = lpBal[k] + SumOn(lpBal, 1..(k - 1))
        BY <2>3, <3>1, <3>2, SumOnAdd
    <3>4. QED
        BY <2>1, <3>2, <3>3
  <2>8. SumOn(traderBal, LeftInMap)' \in Int
    <3>1. IsFiniteSet(DOMAIN traderBal') /\ \A a \in DOMAIN traderBal' : traderBal'[a] \in Int
      <4>1. DOMAIN traderBal' = DOMAIN traderBal
          BY <2>1, <2>3, ConsumedSum
      <4>2. IsFiniteSet(DOMAIN traderBal')
          BY <4>1, SumsTyped
      <4>3. traderBal' \in [DOMAIN traderBal' -> Int]
          BY TraderBalType
      <4>4. QED
          BY <4>2, <4>3
    <3>2. PICK t : t = traderBal'
        OBVIOUS
    <3>3. SumOn(t, DOMAIN t) \in Int
        BY <3>1, <3>2, SumOnType
    <3>4. QED
        BY <2>1, <3>2, <3>3
  <2>9. PICK before \in Int, left \in Int, parts \in Int, leftThen \in Int,
             own \in Int, part \in Int :
            /\ before = SumOn(Reported, DOMAIN report)
            /\ left = SumOn(traderBal, LeftInMap)
            /\ parts = SumOn(lpBal, 1..(k - 1))
            /\ leftThen = SumOn(traderBal, LeftInMap)'
            /\ own = BalOf(addrs[k])
            /\ part = lpBal[k]
      BY <1>4, <2>3, <2>8
  <2>10. before + left = TraderTotal + parts /\ own + leftThen = left /\ bal = part + own
      BY <1>3, <2>2, <2>6, <2>9
  <2>11. (bal + before) + leftThen = TraderTotal + (part + parts)
      BY <1>1, <2>10
  <2>12. QED
      BY <2>5, <2>7, <2>9, <2>11
<1>10. CASE AddrsCombined
  <2>1. UNCHANGED <<report, traderBal, k, lpBal>>
      BY <1>10 DEF AddrsCombined
  <2>2. LeftInMap' = LeftInMap
      BY <1>2, <1>10 DEF AddrsCombined, LeftInMap
  <2>3. QED
      BY <1>3, <1>5, <2>1, <2>2
<1>11. CASE ReportTrader
  <2>1. PICK a \in mapLeft :
            /\ mapLeft' = mapLeft \ {a}
            /\ report' = IF traderBal[a] # 0 THEN Append(report, Entry(a, traderBal[a]))
                         ELSE report
      BY <1>11 DEF ReportTrader
  <2>2. /\ UNCHANGED <<traderBal, k, lpBal>>
        /\ LeftInMap = mapLeft /\ LeftInMap' = mapLeft'
      BY <1>11 DEF ReportTrader, LeftInMap
  <2>3. a \in Addr /\ traderBal[a] \in Int
      BY SumsTyped DEF TypeOK
  <2>4. SumOn(Reported, DOMAIN report)' = traderBal[a] + SumOn(Reported, DOMAIN report)
    <3>1. CASE traderBal[a] # 0
        BY <2>1, <2>3, <3>1, AppendedSum
    <3>2. CASE traderBal[a] = 0
        BY <1>4, <1>5, <2>1, <3>2
    <3>3. QED
        BY <3>1, <3>2
  <2>5. IsFiniteSet(mapLeft) /\ \A x \in mapLeft : traderBal[x] \in Int
      BY SumsTyped DEF TypeOK
  <2>6. SumOn(traderBal, mapLeft) = traderBal[a] + SumOn(traderBal, mapLeft \ {a})
      BY <2>5, SumOnRemove
  <2>7. SumOn(traderBal, mapLeft \ {a}) \in Int
      BY <2>5, FS_Difference, SumOnType
  <2>8. SumOn(traderBal, LeftInMap) = traderBal[a] + SumOn(traderBal, LeftInMap)'
      BY <2>1, <2>2, <2>6
  <2>9. SumOn(traderBal, LeftInMap)' \in Int
      BY <2>1, <2>2, <2>7
  <2>10. QED
      BY <1>1, <1>3, <1>4, <2>2, <2>3, <2>4, <2>8, <2>9
<1>12. CASE TradersReported
  <2>1. UNCHANGED <<report, traderBal, k, lpBal>> /\ LeftInMap' = LeftInMap
      BY <1>12 DEF TradersReported, LeftInMap
  <2>2. QED
      BY <1>3, <1>5, <2>1
<1>13. CASE UNCHANGED vars
  <2>1. UNCHANGED <<report, traderBal, k, lpBal>> /\ LeftInMap' = LeftInMap
      BY <1>13 DEF vars, LeftInMap
  <2>2. QED
      BY <1>3, <1>5, <2>1
<1>14. QED
    BY <1>6, <1>7, <1>8, <1>9, <1>10, <1>11, <1>12, <1>13 DEF Next

-----------------------------------------------------------------------------
(***************************************************************************)
(* The parts attributed add up to the pool, but for the rounding.          *)
(***************************************************************************)

LEMMA DivBounds ==
    ASSUME NEW x \in Int, NEW t \in Int, t > 0, NEW q \in Int, q = x \div t
    PROVE  t * q <= x /\ x <= t * q + (t - 1)
OBVIOUS

\* Multiplying by a positive number keeps the order.
LEMMA FactorCancels ==
    ASSUME NEW t \in Int, t > 0, NEW x \in Int, NEW y \in Int, NEW n \in Int, n > 0
    PROVE  /\ t * x <= t * y => x <= y
           /\ t * y <= t * x + (t - 1) * n => y < x + n
<1>1. t * x <= t * y => x <= y
  <2>1. CASE x <= y
      BY <2>1
  <2>2. CASE x >= y + 1
    <3>1. t * x >= t * (y + 1)
        BY <2>2
    <3>2. t * (y + 1) = t * y + t
        OBVIOUS
    <3>3. QED
        BY <3>1, <3>2
  <2>3. QED
      BY <2>1, <2>2
<1>2. ASSUME t * y <= t * x + (t - 1) * n, y >= x + n PROVE FALSE
  <2>1. t * y >= t * (x + n)
      BY <1>2
  <2>2. t * (x + n) = t * x + t * n /\ (t - 1) * n = t * n - n
      OBVIOUS
  <2>3. PICK a \in Int, b \in Int, c \in Int : a = t * y /\ b = t * x /\ c = t * n
      OBVIOUS
  <2>4. QED
      BY <1>2, <2>1, <2>2, <2>3
<1>3. QED
    BY <1>1, <1>2

\* In a report on all holders, each of them is asked for once.
LEMMA SharesSum ==
    ASSUME InputsOK, ~exact
    PROVE  /\ SumOn([i \in 1..Len(addrs) |-> shares[addrs[i]]], 1..Len(addrs)) = ShTknTotal
           /\ Len(addrs) > 0
<1> DEFINE n == Len(addrs)
           s == [i \in 1..n |-> shares[addrs[i]]]
           H == {addrs[i] : i \in 1..n}
<1>1. n \in Nat /\ addrs \in [1..n -> Addr] /\ IsFiniteSet(1..n)
  <2>1. n \in Nat /\ addrs \in [1..n -> Addr]
      BY DEF InputsOK
  <2>2. QED
      BY <2>1, FS_Interval
<1>2. \A i \in 1..n : s[i] \in Int /\ shares[addrs[i]] = s[i]
    BY <1>1 DEF InputsOK
<1>3. \A i, j \in 1..n : addrs[i] = addrs[j] => i = j
    BY <1>1 DEF InputsOK, IsInjective
<1>4. SumOn(s, 1..n) = SumOn(shares, H)
  <2> HIDE DEF n, s
  <2>1. QED
      BY <1>1, <1>2, <1>3, SumOnImage
<1>5. H \in SUBSET Addr
    BY <1>1
<1>6. \A a \in Addr : shares[a] \in Int
    BY DEF InputsOK
<1>7. \A a \in Addr \ H : shares[a] = 0
    BY <1>1 DEF InputsOK
<1>8. SumOn(shares, Addr) = SumOn(shares, H)
  <2> HIDE DEF H
  <2>1. QED
      BY <1>5, <1>6, <1>7, AddrAssumption, SumOnSupport
<1>9. SumOn(s, 1..n) = ShTknTotal
    BY <1>4, <1>8, InputsFacts
<1>10. n > 0
  <2>1. SUFFICES ASSUME n = 0 PROVE FALSE
      BY <1>1
  <2>2. SumOn(s, 1..n) = 0
    <3>1. 1..n = {}
        BY <2>1
    <3>2. QED
        BY <3>1, SumOnEmpty
  <2>3. ShTknTotal > 0
      BY DEF InputsOK
  <2>4. QED
      BY <1>9, <2>2, <2>3
<1>11. QED
    BY <1>9, <1>10

LEMMA AttributedSum ==
    ASSUME TypeOK, StagesInOrder, SharesInOrder, ~exact, pc \notin {"query", "reassign"}
    PROVE  /\ SumOn(lpBal, 1..Len(addrs)) \in Int
           /\ SumOn(lpBal, 1..Len(addrs)) <= PoolBalance - TraderTotal
           /\ PoolBalance - TraderTotal < SumOn(lpBal, 1..Len(addrs)) + Len(addrs)
<1>1. PICK n \in Nat, t \in Int, rest \in Int :
          n = Len(addrs) /\ t = ShTknTotal /\ rest = PoolBalance - TraderTotal
  <2>1. Len(addrs) \in Nat
      BY DEF TypeOK, InputsOK
  <2>2. ShTknTotal \in Int /\ PoolBalance - TraderTotal \in Int
      BY InputsFacts DEF TypeOK
  <2>3. QED
      BY <2>1, <2>2
<1>2. t > 0 /\ n > 0
    BY <1>1, SharesSum DEF TypeOK, InputsOK
<1> DEFINE s == [i \in 1..n |-> shares[addrs[i]]]
           scaled == [i \in 1..n |-> rest * s[i]]
           back == [i \in 1..n |-> t * lpBal[i]]
<1>3. IsFiniteSet(1..n) /\ Cardinality(1..n) = n
    BY FS_Interval
<1>4. \A i \in 1..n : s[i] \in Int /\ lpBal[i] \in Int /\ lpBal[i] = (s[i] * rest) \div t
  <2>1. ASSUME NEW i \in 1..n
        PROVE  s[i] \in Int /\ lpBal[i] \in Int /\ lpBal[i] = (s[i] * rest) \div t
    <3>1. lpBal[i] = Attributed(shares[addrs[i]]) /\ lpBal[i] \in Int
        BY <1>1, LpBalTyped
    <3>2. shares[addrs[i]] \in Int
        BY <1>1 DEF TypeOK, InputsOK
    <3>3. QED
        BY <1>1, <3>1, <3>2 DEF Attributed
  <2>2. QED
      BY <2>1
<1>5. PICK L \in Int : L = SumOn(lpBal, 1..n)
    BY <1>3, <1>4, SumOnType
<1>6. SumOn(s, 1..n) = t
    BY <1>1, SharesSum DEF TypeOK
<1>7. \A i \in 1..n : scaled[i] = rest * s[i] /\ back[i] = t * lpBal[i]
    OBVIOUS
<1>8. \A i \in 1..n : scaled[i] \in Int /\ back[i] \in Int
    BY <1>4
<1>9. \A i \in 1..n : back[i] <= scaled[i] + 0 /\ scaled[i] <= back[i] + (t - 1)
  <2>1. ASSUME NEW i \in 1..n
        PROVE  back[i] <= scaled[i] + 0 /\ scaled[i] <= back[i] + (t - 1)
    <3>1. PICK x \in Int, q \in Int : x = s[i] * rest /\ q = lpBal[i]
        BY <1>4
    <3>2. x = scaled[i] /\ t * q = back[i] /\ q = x \div t
        BY <1>4, <1>7, <3>1
    <3>3. t * q <= x /\ x <= t * q + (t - 1)
        BY <1>2, <3>2, DivBounds
    <3>4. QED
        BY <3>2, <3>3
  <2>2. QED
      BY <2>1
<1> HIDE DEF s, scaled, back
<1>10. SumOn(scaled, 1..n) = rest * t
  <2>1. \A i \in 1..n : s[i] \in Int /\ scaled[i] = rest * s[i]
      BY <1>4, <1>7
  <2>2. SumOn(scaled, 1..n) = rest * SumOn(s, 1..n)
      BY <1>3, <2>1, SumOnScaled
  <2>3. QED
      BY <1>6, <2>2
<1>11. SumOn(back, 1..n) = t * L
  <2>1. \A i \in 1..n : lpBal[i] \in Int /\ back[i] = t * lpBal[i]
      BY <1>4, <1>7
  <2>2. SumOn(back, 1..n) = t * SumOn(lpBal, 1..n)
      BY <1>3, <2>1, SumOnScaled
  <2>3. QED
      BY <1>5, <2>2
<1>12. SumOn(back, 1..n) <= SumOn(scaled, 1..n) + 0 * n
    BY <1>3, <1>8, <1>9, SumOnBound
<1>13. SumOn(scaled, 1..n) <= SumOn(back, 1..n) + (t - 1) * n
  <2>1. t - 1 \in Int /\ \A i \in 1..n : scaled[i] <= back[i] + (t - 1)
      BY <1>9
  <2>2. QED
      BY <1>3, <1>8, <2>1, SumOnBound
<1>14. t * L <= t * rest /\ t * rest <= t * L + (t - 1) * n
  <2>1. rest * t = t * rest /\ 0 * n = 0
      OBVIOUS
  <2>2. PICK u \in Int, v \in Int : u = t * L /\ v = t * rest
      OBVIOUS
  <2>3. u <= v + 0 /\ v <= u + (t - 1) * n
      BY <1>10, <1>11, <1>12, <1>13, <2>1, <2>2
  <2>4. QED
      BY <2>2, <2>3
<1>15. L <= rest /\ rest < L + n
    BY <1>2, <1>14, FactorCancels
<1>16. QED
    BY <1>1, <1>5, <1>15

LEMMA ReportSums ==
    ASSUME IInv
    PROVE  ReportSumsToPool
<1>1. SUFFICES ASSUME Done, ~exact, NoSelfDelegation
               PROVE  ReportTotal <= PoolBalance /\ ReportTotal > PoolBalance - Len(addrs)
    BY DEF ReportSumsToPool
<1>2. TypeOK /\ StagesInOrder /\ SharesInOrder /\ CashConserved
    BY DEF IInv
<1>3. ReportTotal = SumOn(Reported, DOMAIN report)
    BY SumOfIsSumOn DEF ReportTotal, Reported
<1>4. LeftInMap = {} /\ k = Len(addrs) + 1 /\ Len(addrs) \in Nat
    BY <1>1, <1>2 DEF LeftInMap, StagesInOrder, Done, TypeOK, InputsOK
<1>5. SumOn(traderBal, LeftInMap) = 0
    BY <1>4, SumOnEmpty
<1>6. 1..(k - 1) = 1..Len(addrs)
    BY <1>4
<1>7. SumOn(Reported, DOMAIN report) + 0 = TraderTotal + SumOn(lpBal, 1..Len(addrs))
    BY <1>1, <1>2, <1>5, <1>6, Zenon DEF CashConserved
<1>8. PICK L \in Int, n \in Nat, r \in Int :
          L = SumOn(lpBal, 1..Len(addrs)) /\ n = Len(addrs) /\ r = ReportTotal
    BY <1>1, <1>2, <1>3, <1>4, AttributedSum, SumsTyped DEF Done
<1>9. L <= PoolBalance - TraderTotal /\ PoolBalance - TraderTotal < L + n
    BY <1>1, <1>2, <1>8, AttributedSum DEF Done
<1>10. r = TraderTotal + L
    BY <1>3, <1>7, <1>8
<1>11. PoolBalance \in Int /\ TraderTotal \in Int
    BY <1>2, InputsFacts DEF TypeOK
<1>12. r <= PoolBalance /\ r > PoolBalance - n
    BY <1>9, <1>10, <1>11
<1>13. QED
    BY <1>8, <1>12

-----------------------------------------------------------------------------
(***************************************************************************)
(* The map of the trader balances                                          *)
(***************************************************************************)

\* One more row processed: the wallet's own cash is now its delegate's.
LEMMA RowProcessed ==
    ASSUME InputsOK, PlainDelegation, NEW P \in SUBSET rows, NEW row \in rows \ P
    PROVE  /\ row[1] # row[2]
           /\ row[1] \notin Traders => \A a : CashDue(a, P \cup {row}) = CashDue(a, P)
           /\ row[1] \in Traders =>
                 /\ CashDue(row[1], P) = cash[row[1]]
                 /\ CashDue(row[1], P \cup {row}) = 0
                 /\ CashDue(row[2], P \cup {row}) = cash[row[1]] + CashDue(row[2], P)
                 /\ \A a : a \notin {row[1], row[2]} => CashDue(a, P \cup {row}) = CashDue(a, P)
<1>1. PICK w, d, Q : w = row[1] /\ d = row[2] /\ Q = P \cup {row}
    OBVIOUS
<1>2. \A r \in Q : r \in rows /\ r[2] # w
    BY <1>1 DEF PlainDelegation
<1>3. \A r \in P : r[1] # w
    BY <1>1 DEF PlainDelegation
<1>4. w # d
    BY <1>1, <1>2
<1>5. Wallets(w, P) = {} /\ Wallets(w, Q) = {}
    BY <1>1, <1>2 DEF Wallets
<1>6. \A a : a # d => Wallets(a, Q) = Wallets(a, P)
    BY <1>1 DEF Wallets
<1>7. Wallets(d, Q) = Wallets(d, P) \cup ({w} \cap Traders)
    BY <1>1 DEF Wallets
<1>8. \A a : a # w => Own(a, Q) = Own(a, P)
    BY <1>1 DEF Own
<1>9. Own(w, Q) = {} /\ Own(w, P) = {w} \cap Traders
    BY <1>1, <1>3 DEF Own
<1>10. ASSUME w \notin Traders, NEW a
       PROVE  CashDue(a, Q) = CashDue(a, P)
  <2>1. Wallets(a, Q) = Wallets(a, P) /\ Own(a, Q) = Own(a, P)
      BY <1>6, <1>7, <1>8, <1>9, <1>10
  <2>2. QED
      BY <2>1, CashDueIsSum
<1>11. ASSUME NEW a, a \notin {w, d}
       PROVE  CashDue(a, Q) = CashDue(a, P)
  <2>1. Wallets(a, Q) = Wallets(a, P) /\ Own(a, Q) = Own(a, P)
      BY <1>6, <1>8, <1>11
  <2>2. QED
      BY <2>1, CashDueIsSum
<1>12. ASSUME w \in Traders
       PROVE  /\ CashDue(w, P) = cash[w]
              /\ CashDue(w, Q) = 0
              /\ CashDue(d, Q) = cash[w] + CashDue(d, P)
  <2>1. cash[w] \in Int
      BY <1>12, InputsFacts
  <2>2. CashDue(w, Q) = 0
    <3>1. Wallets(w, Q) \cup Own(w, Q) = {}
        BY <1>5, <1>9
    <3>2. QED
        BY <3>1, CashDueIsSum, SumOnEmpty
  <2>3. CashDue(w, P) = cash[w]
    <3>1. Wallets(w, P) \cup Own(w, P) = {w}
        BY <1>5, <1>9, <1>12
    <3>2. CashDue(w, P) = SumOn(cash, {w})
        BY <3>1, CashDueIsSum, Zenon
    <3>3. SumOn(cash, {} \cup {w}) = cash[w] + SumOn(cash, {})
        BY <2>1, SumOnAdd, FS_EmptySet
    <3>4. {} \cup {w} = {w} /\ SumOn(cash, {}) = 0
        BY SumOnEmpty
    <3>5. QED
        BY <2>1, <3>2, <3>3, <3>4
  <2>4. CashDue(d, Q) = cash[w] + CashDue(d, P)
    <3>1. PICK S : S = Wallets(d, P) \cup Own(d, P)
        OBVIOUS
    <3>2. Wallets(d, Q) \cup Own(d, Q) = S \cup {w}
        BY <1>4, <1>7, <1>8, <1>12, <3>1
    <3>3. w \notin S
        BY <1>3, <1>4, <3>1 DEF Wallets, Own
    <3>4. /\ IsFiniteSet(S) /\ S \subseteq Traders
          /\ CashDue(d, P) = SumOn(cash, S)
          /\ CashDue(d, Q) = SumOn(cash, S \cup {w})
      <4>1. S \subseteq Traders /\ IsFiniteSet(S) /\ CashDue(d, P) = SumOn(cash, S)
          BY <3>1, CashDueIsSum
      <4>2. CashDue(d, Q) = SumOn(cash, S \cup {w})
          BY <3>2, CashDueIsSum, Zenon
      <4>3. QED
          BY <4>1, <4>2
    <3>5. \A x \in S \cup {w} : cash[x] \in Int
        BY <1>12, <3>4, InputsFacts
    <3>6. QED
        BY <3>3, <3>4, <3>5, SumOnAdd
  <2>5. QED
      BY <2>2, <2>3, <2>4
<1>13. QED
    BY <1>1, <1>4, <1>10, <1>11, <1>12

LEMMA NextMapHoldsDue ==
    ASSUME TypeOK, StagesInOrder, MapHoldsDue, [Next]_vars
    PROVE  MapHoldsDue'
<1>1. /\ PlainDelegation' = PlainDelegation
      /\ \A a, R : CashDue(a, R)' = CashDue(a, R)
      /\ rows' = rows
    BY NextInputs, InputsSame DEF inputVars
<1>2. SUFFICES ASSUME PlainDelegation, NEW a \in Addr \ Combined'
               PROVE  BalOf(a)' = CashDue(a, rows \ rowsLeft')
    BY <1>1 DEF MapHoldsDue
<1>3. CASE Reassign
  <2>1. PICK row \in rowsLeft :
            /\ rowsLeft' = rowsLeft \ {row}
            /\ traderBal' = IF row[1] \in DOMAIN traderBal
                            THEN Moved(row[1], row[2]) ELSE traderBal
      BY <1>3 DEF Reassign
  <2>2. Combined = {} /\ row \in rows
      BY <1>3, CombinedStep DEF Reassign, TypeOK
  <2>3. PICK P \in SUBSET rows : P = rows \ rowsLeft
      OBVIOUS
  <2>4. rows \ rowsLeft' = P \cup {row} /\ row \in rows \ P
      BY <2>1, <2>2, <2>3
  <2>5. \A x \in Addr : BalOf(x) = CashDue(x, P)
      BY <1>2, <2>2, <2>3 DEF MapHoldsDue
  <2>6. row[1] \in Addr /\ row[2] \in Addr
      BY <2>2 DEF TypeOK, InputsOK
  <2>7. row[1] \in DOMAIN traderBal <=> row[1] \in Traders
    <3>1. \A r \in rows : r[2] # row[1]
        BY <1>2, <2>2 DEF PlainDelegation
    <3>2. row[1] \notin {r[2] : r \in rows}
        BY <3>1
    <3>3. QED
        BY <3>2 DEF TypeOK
  <2>8. InputsOK
      BY DEF TypeOK
  <2>9. CASE row[1] \in Traders
    <3>1. traderBal' = Moved(row[1], row[2]) /\ traderBal[row[1]] = BalOf(row[1])
        BY <2>1, <2>7, <2>9 DEF BalOf
    <3>2. row[1] # row[2]
        BY <1>2, <2>4, <2>8, RowProcessed
    <3>3. BalOf(a)' = IF a = row[1] THEN 0
                      ELSE IF a = row[2] THEN BalOf(row[2]) + BalOf(row[1]) ELSE BalOf(a)
        BY <2>7, <2>9, <3>1, <3>2 DEF BalOf, Moved
    <3>4. /\ CashDue(row[1], P) = cash[row[1]]
          /\ CashDue(row[1], P \cup {row}) = 0
          /\ CashDue(row[2], P \cup {row}) = cash[row[1]] + CashDue(row[2], P)
          /\ a \notin {row[1], row[2]} => CashDue(a, P \cup {row}) = CashDue(a, P)
        BY <1>2, <2>4, <2>8, <2>9, RowProcessed
    <3>5. BalOf(row[1]) \in Int /\ BalOf(row[2]) \in Int
        BY BalOfType
    <3>6. CASE a = row[1]
        BY <2>4, <3>3, <3>4, <3>6
    <3>7. CASE a = row[2]
      <4>1. BalOf(a)' = BalOf(row[2]) + BalOf(row[1])
          BY <3>2, <3>3, <3>7
      <4>2. BalOf(row[2]) + BalOf(row[1]) = BalOf(row[1]) + BalOf(row[2])
          BY <3>5
      <4>3. QED
          BY <2>4, <2>5, <2>6, <3>4, <3>7, <4>1, <4>2, Zenon
    <3>8. CASE a \notin {row[1], row[2]}
        BY <2>4, <2>5, <3>3, <3>4, <3>8
    <3>9. QED
        BY <3>6, <3>7, <3>8
  <2>10. CASE row[1] \notin Traders
    <3>1. BalOf(a)' = BalOf(a)
        BY <2>1, <2>7, <2>10 DEF BalOf
    <3>2. CashDue(a, P \cup {row}) = CashDue(a, P)
        BY <1>2, <2>4, <2>8, <2>10, RowProcessed
    <3>3. QED
        BY <2>4, <2>5, <3>1, <3>2
  <2>11. QED
      BY <2>9, <2>10
<1>4. CASE CombineAddr
  <2>1. Combined' = Combined \cup {addrs[k]} /\ rowsLeft' = rowsLeft
      BY <1>4, CombinedStep DEF CombineAddr
  <2>2. a # addrs[k] /\ a \in Addr \ Combined
      BY <2>1
  <2>3. BalOf(a)' = BalOf(a)
      BY <1>4, <2>2 DEF CombineAddr, Consumed, BalOf
  <2>4. QED
      BY <1>2, <2>1, <2>2, <2>3 DEF MapHoldsDue
<1>5. CASE UNCHANGED <<traderBal, rowsLeft>> /\ ~CombineAddr
  <2>1. Combined' = Combined /\ BalOf(a)' = BalOf(a)
      BY <1>5, CombinedStep DEF BalOf
  <2>2. QED
      BY <1>2, <1>5, <2>1 DEF MapHoldsDue
<1>6. QED
    BY <1>3, <1>4, <1>5 DEF Next, vars, ReadChunk, ChunkFails, AttributeLpBalances,
       AddrsCombined, ReportTrader, TradersReported

-----------------------------------------------------------------------------
(***************************************************************************)
(* The entries of the report                                               *)
(***************************************************************************)

\* Once the rows are processed, the map holds what is due; in a report on all
\* holders, that is all that is due to whoever is not among them.
LEMMA HeldIsDue ==
    ASSUME TypeOK, StagesInOrder, MapHoldsDue, PlainDelegation,
           pc \notin {"query", "reassign"}, NEW a \in Addr \ Combined
    PROVE  /\ BalOf(a) = CashDue(a, rows)
           /\ pc \in {"traders", "done"} /\ ~exact => Due(a) = BalOf(a)
<1>1. rows \ rowsLeft = rows
    BY DEF StagesInOrder
<1>2. BalOf(a) = CashDue(a, rows)
    BY <1>1 DEF MapHoldsDue
<1>3. ASSUME pc \in {"traders", "done"}, ~exact
      PROVE  Due(a) = BalOf(a)
  <2>1. a \notin {addrs[i] : i \in DOMAIN addrs}
    <3>1. k - 1 = Len(addrs) /\ DOMAIN addrs = 1..Len(addrs)
        BY <1>3 DEF StagesInOrder, TypeOK, InputsOK
    <3>2. QED
        BY <3>1 DEF Combined
  <2>2. ~(shares[a] > 0)
      BY <1>3, <2>1 DEF TypeOK, InputsOK
  <2>3. shares[a] = 0
      BY <2>2 DEF TypeOK, InputsOK
  <2>4. PICK t \in Int, rest \in Int : t = ShTknTotal /\ rest = PoolBalance - TraderTotal
      BY InputsFacts DEF TypeOK
  <2>5. t > 0
      BY <2>4 DEF TypeOK, InputsOK
  <2>6. 0 * rest = 0 /\ 0 \div t = 0
      BY <2>5
  <2>7. Attributed(shares[a]) = 0
      BY <2>3, <2>4, <2>6 DEF Attributed
  <2>8. CashDue(a, rows) \in Int
      BY CashDueIsSum DEF TypeOK
  <2>9. QED
      BY <1>2, <2>7, <2>8 DEF Due
<1>4. QED
    BY <1>2, <1>3

\* What one step adds to the report.
LEMMA ReportStep ==
    ASSUME TypeOK, StagesInOrder, SharesInOrder, [Next]_vars
    PROVE  /\ CombineAddr =>
                 \E bal \in Int :
                    /\ addrs[k] \in Addr
                    /\ bal = Attributed(shares[addrs[k]]) + BalOf(addrs[k])
                    /\ Listed(bal) => report' = Append(report, Entry(addrs[k], bal))
                    /\ ~Listed(bal) => report' = report
           /\ ReportTrader =>
                 /\ pc' = pc /\ traderBal' = traderBal
                 /\ \E a \in mapLeft :
                    /\ a \in Addr
                    /\ traderBal[a] \in Int
                    /\ mapLeft' = mapLeft \ {a}
                    /\ traderBal[a] # 0 => report' = Append(report, Entry(a, traderBal[a]))
                    /\ traderBal[a] = 0 => report' = report
           /\ ~CombineAddr /\ ~ReportTrader => report' = report
<1>1. ASSUME CombineAddr
      PROVE  \E bal \in Int :
                /\ addrs[k] \in Addr
                /\ bal = Attributed(shares[addrs[k]]) + BalOf(addrs[k])
                /\ Listed(bal) => report' = Append(report, Entry(addrs[k], bal))
                /\ ~Listed(bal) => report' = report
  <2>1. k \in 1..Len(addrs) /\ pc \notin {"query", "reassign"}
      BY <1>1, CombinedStep DEF CombineAddr
  <2>2. addrs[k] \in Addr
      BY <2>1 DEF TypeOK, InputsOK
  <2>3. lpBal[k] = Attributed(shares[addrs[k]]) /\ lpBal[k] \in Int
      BY <2>1, LpBalTyped
  <2>4. lpBal[k] + BalOf(addrs[k]) \in Int
      BY <2>3, BalOfType
  <2>5. PICK bal \in Int : bal = lpBal[k] + BalOf(addrs[k])
      BY <2>4
  <2>6. /\ Listed(bal) => report' = Append(report, Entry(addrs[k], bal))
        /\ ~Listed(bal) => report' = report
      BY <1>1, <2>5 DEF CombineAddr
  <2>7. QED
      BY <2>2, <2>3, <2>5, <2>6
<1>2. ASSUME ReportTrader
      PROVE  /\ pc' = pc /\ traderBal' = traderBal
             /\ \E a \in mapLeft :
                /\ a \in Addr
                /\ traderBal[a] \in Int
                /\ mapLeft' = mapLeft \ {a}
                /\ traderBal[a] # 0 => report' = Append(report, Entry(a, traderBal[a]))
                /\ traderBal[a] = 0 => report' = report
  <2>1. \A a \in mapLeft : a \in Addr /\ traderBal[a] \in Int
      BY SumsTyped DEF TypeOK
  <2>2. QED
      BY <1>2, <2>1 DEF ReportTrader
<1>3. ASSUME ~CombineAddr, ~ReportTrader
      PROVE  report' = report
    BY <1>3 DEF Next, vars, ReadChunk, ChunkFails, Reassign, AttributeLpBalances,
       AddrsCombined, TradersReported
<1>4. QED
    BY <1>1, <1>2, <1>3

\* An address that combineBalances comes to is new, unless a request named it twice.
LEMMA NextAddrIsNew ==
    ASSUME TypeOK, IsInjective(addrs), k \in 1..Len(addrs)
    PROVE  addrs[k] \notin Combined
BY DEF TypeOK, InputsOK, Combined, IsInjective

LEMMA NextEntriesDue ==
    ASSUME TypeOK, StagesInOrder, SharesInOrder, CombinedAreConsumed, MapHoldsDue,
           EntriesDue, [Next]_vars
    PROVE  EntriesDue'
<1>1. /\ PlainDelegation' = PlainDelegation
      /\ \A a : Due(a)' = Due(a)
      /\ addrs' = addrs
    BY NextInputs, InputsSame DEF inputVars
<1>2. SUFFICES ASSUME PlainDelegation, IsInjective(addrs), NEW i \in DOMAIN report'
               PROVE  report'[i].bal = Due(report'[i].addr)
    BY <1>1 DEF EntriesDue
<1>3. \A j \in DOMAIN report : report[j].bal = Due(report[j].addr)
    BY <1>2 DEF EntriesDue
<1>4. ASSUME NEW a \in Addr, NEW b \in Int, b = Due(a),
             report' = Append(report, Entry(a, b))
      PROVE  report'[i].bal = Due(report'[i].addr)
  <2>1. CASE i = Len(report) + 1
    <3>1. report'[i].addr = a /\ report'[i].bal = b
        BY <1>4, <2>1, EntryAppended
    <3>2. QED
        BY <1>4, <3>1
  <2>2. CASE i \in DOMAIN report
    <3>1. report'[i] = report[i]
        BY <1>4, <2>2, EntryAppended
    <3>2. QED
        BY <1>3, <2>2, <3>1
  <2>3. DOMAIN report' = DOMAIN report \cup {Len(report) + 1}
      BY <1>4, EntryAppended
  <2>4. QED
      BY <1>2, <2>1, <2>2, <2>3
<1>5. CASE report' = report
    BY <1>2, <1>3, <1>5
<1>6. CASE CombineAddr
  <2>1. PICK bal \in Int :
            /\ addrs[k] \in Addr
            /\ bal = Attributed(shares[addrs[k]]) + BalOf(addrs[k])
            /\ Listed(bal) => report' = Append(report, Entry(addrs[k], bal))
            /\ ~Listed(bal) => report' = report
      BY <1>6, ReportStep
  <2>2. addrs[k] \in Addr \ Combined
      BY <1>2, <1>6, <2>1, CombinedStep, NextAddrIsNew
  <2>3. BalOf(addrs[k]) = CashDue(addrs[k], rows)
      BY <1>2, <1>6, <2>2, HeldIsDue DEF CombineAddr
  <2>4. bal = Due(addrs[k])
      BY <2>1, <2>3 DEF Due
  <2>5. QED
      BY <1>4, <1>5, <2>1, <2>4
<1>7. CASE ReportTrader
  <2>1. PICK a \in mapLeft :
            /\ a \in Addr
            /\ traderBal[a] \in Int
            /\ mapLeft' = mapLeft \ {a}
            /\ traderBal[a] # 0 => report' = Append(report, Entry(a, traderBal[a]))
            /\ traderBal[a] = 0 => report' = report
      BY <1>7, ReportStep
  <2>2. CASE traderBal[a] = 0
      BY <1>5, <2>1, <2>2
  <2>3. CASE traderBal[a] # 0
    <3>1. a \in DOMAIN traderBal /\ BalOf(a) = traderBal[a]
        BY <2>1 DEF TypeOK, BalOf
    <3>2. a \in Addr \ Combined
        BY <2>1, <2>3, <3>1 DEF CombinedAreConsumed
    <3>3. pc = "traders" /\ ~exact
        BY <1>7 DEF ReportTrader, StagesInOrder
    <3>4. Due(a) = BalOf(a)
        BY <1>2, <3>2, <3>3, HeldIsDue
    <3>5. QED
        BY <1>4, <2>1, <2>3, <3>1, <3>4
  <2>4. QED
      BY <2>2, <2>3
<1>8. QED
    BY <1>5, <1>6, <1>7, ReportStep

LEMMA AppendedNames ==
    ASSUME TypeOK, NEW a \in Addr, NEW b \in Int, report' = Append(report, Entry(a, b))
    PROVE  /\ Named' = Named \cup {a}
           /\ IsInjective(Names) /\ a \notin Named => IsInjective(Names)'
<1> DEFINE n == Len(report) + 1
<1>1. DOMAIN report' = DOMAIN report \cup {n} /\ n \notin DOMAIN report
    BY EntryAppended
<1>2. report'[n].addr = a /\ \A i \in DOMAIN report : report'[i] = report[i]
  <2>1. /\ Append(report, Entry(a, b))[n].addr = a
        /\ \A i \in DOMAIN report : Append(report, Entry(a, b))[i] = report[i]
      BY EntryAppended
  <2>2. QED
      BY <2>1, Zenon
<1> HIDE DEF n
<1>3. Named' = Named \cup {a}
    BY <1>1, <1>2 DEF Named
<1>4. ASSUME IsInjective(Names), a \notin Named
      PROVE  IsInjective(Names)'
  <2>1. PICK m : m = Names'
      OBVIOUS
  <2>2. /\ DOMAIN m = DOMAIN report \cup {n}
        /\ m[n] = a
        /\ \A i \in DOMAIN report : m[i] = report[i].addr
      BY <1>1, <1>2, <2>1 DEF Names
  <2>3. \A i \in DOMAIN report : report[i].addr # a
      BY <1>4 DEF Named
  <2>4. \A i, j \in DOMAIN report : report[i].addr = report[j].addr => i = j
      BY <1>4 DEF IsInjective, Names
  <2>5. IsInjective(m)
      BY <2>2, <2>3, <2>4 DEF IsInjective
  <2>6. QED
      BY <2>1, <2>5 DEF IsInjective
<1>5. QED
    BY <1>3, <1>4

\* Only the second loop visits keys of the map, one at a time.
LEMMA VisitedStep ==
    ASSUME TypeOK, StagesInOrder, ~exact, [Next]_vars
    PROVE  /\ pc \notin {"traders", "done"} => Visited = {}
           /\ ~ReportTrader => Visited' = Visited
           /\ \A a \in mapLeft : ReportTrader /\ mapLeft' = mapLeft \ {a} =>
                 Visited' = Visited \cup {a} /\ a \notin Visited
<1>1. pc \notin {"traders", "done"} => Visited = {}
    BY DEF Visited
<1>2. ASSUME ~ReportTrader PROVE Visited' = Visited
  <2>1. CASE AddrsCombined
    <3>1. Visited = {} /\ traderBal' = traderBal
        BY <1>1, <2>1 DEF AddrsCombined
    <3>2. QED
        BY <2>1, <3>1 DEF AddrsCombined, Visited
  <2>2. CASE TradersReported
      BY <2>2 DEF TradersReported, Visited
  <2>3. CASE UNCHANGED vars
      BY <2>3 DEF vars, Visited
  <2>4. CASE ReadChunk \/ ChunkFails \/ Reassign \/ AttributeLpBalances \/ CombineAddr
    <3>1. pc \notin {"traders", "done"} /\ pc' \notin {"traders", "done"}
        BY <2>4 DEF ReadChunk, ChunkFails, Reassign, AttributeLpBalances, CombineAddr
    <3>2. QED
        BY <3>1 DEF Visited
  <2>5. QED
      BY <1>2, <2>1, <2>2, <2>3, <2>4 DEF Next
<1>3. ASSUME NEW a \in mapLeft, ReportTrader, mapLeft' = mapLeft \ {a}
      PROVE  Visited' = Visited \cup {a} /\ a \notin Visited
  <2>1. pc = "traders" /\ pc' = "traders" /\ traderBal' = traderBal /\ a \in DOMAIN traderBal
      BY <1>3 DEF ReportTrader, TypeOK
  <2>2. QED
      BY <1>3, <2>1 DEF Visited
<1>4. QED
    BY <1>1, <1>2, <1>3

LEMMA NextNamesInOrder ==
    ASSUME TypeOK, StagesInOrder, SharesInOrder, NamesInOrder, [Next]_vars
    PROVE  NamesInOrder'
<1>1. exact' = exact /\ addrs' = addrs
    BY NextInputs DEF inputVars
<1>2. SUFFICES ASSUME exact
               PROVE  Names' = [i \in 1..(k' - 1) |-> addrs[i]]
    BY <1>1 DEF NamesInOrder
<1>3. Names = [i \in 1..(k - 1) |-> addrs[i]]
    BY <1>2 DEF NamesInOrder
<1>4. CASE CombineAddr
  <2>1. PICK bal \in Int :
            addrs[k] \in Addr /\ report' = Append(report, Entry(addrs[k], bal))
      BY <1>2, <1>4, ReportStep DEF Listed
  <2>2. k \in 1..Len(addrs) /\ k' = k + 1 /\ Len(addrs) \in Nat
      BY <1>4, CombinedStep DEF CombineAddr, TypeOK, InputsOK
  <2>3. Len(report) = k - 1
    <3>1. DOMAIN report = DOMAIN Names
        BY DEF Names
    <3>2. 1..Len(report) = 1..(k - 1) /\ Len(report) \in Nat
        BY <1>3, <3>1 DEF TypeOK
    <3>3. QED
        BY <2>2, <3>2
  <2>4. DOMAIN report' = 1..(k' - 1)
      BY <2>1, <2>2, <2>3, EntryAppended
  <2>5. ASSUME NEW i \in 1..k PROVE report'[i].addr = addrs[i]
    <3>1. CASE i = k
      <4>1. Len(report) + 1 = k
          BY <2>2, <2>3
      <4>2. QED
          BY <2>1, <3>1, <4>1, EntryAppended
    <3>2. CASE i \in 1..(k - 1)
      <4>1. i \in DOMAIN report
          BY <2>3, <3>2 DEF TypeOK
      <4>2. report'[i] = report[i]
          BY <2>1, <4>1, EntryAppended
      <4>3. Names[i] = report[i].addr
          BY <4>1 DEF Names
      <4>4. QED
          BY <1>3, <3>2, <4>2, <4>3
    <3>3. QED
        BY <2>2, <3>1, <3>2
  <2>6. 1..(k' - 1) = 1..k
      BY <2>2
  <2>7. QED
      BY <2>4, <2>5, <2>6 DEF Names
<1>5. CASE ~CombineAddr
  <2>1. ~ReportTrader
      BY <1>2 DEF ReportTrader, StagesInOrder
  <2>2. report' = report /\ k' = k
      BY <1>5, <2>1, ReportStep, CombinedStep
  <2>3. QED
      BY <1>3, <2>2 DEF Names
<1>6. QED
    BY <1>4, <1>5

LEMMA NextNamesOnce ==
    ASSUME TypeOK, StagesInOrder, SharesInOrder, CombinedAreConsumed, NamesOnce, [Next]_vars
    PROVE  NamesOnce'
<1>1. exact' = exact
    BY NextInputs DEF inputVars
<1>2. SUFFICES ASSUME ~exact
               PROVE  IsInjective(Names)' /\ Named' \subseteq Combined' \cup Visited'
    BY <1>1 DEF NamesOnce
<1>3. IsInjective(Names) /\ Named \subseteq Combined \cup Visited
    BY <1>2 DEF NamesOnce
<1>4. ASSUME report' = report
      PROVE  IsInjective(Names)' /\ Named' = Named
    BY <1>3, <1>4 DEF Names, Named, IsInjective
<1>5. CASE CombineAddr
  <2>1. PICK bal \in Int :
            /\ addrs[k] \in Addr
            /\ Listed(bal) => report' = Append(report, Entry(addrs[k], bal))
            /\ ~Listed(bal) => report' = report
      BY <1>5, ReportStep
  <2>2. /\ Combined' = Combined \cup {addrs[k]}
        /\ k \in 1..Len(addrs)
        /\ Visited = {} /\ Visited' = Visited
      BY <1>2, <1>5, CombinedStep, VisitedStep DEF CombineAddr, ReportTrader
  <2>3. addrs[k] \notin Combined
      BY <1>2, <2>2, NextAddrIsNew DEF TypeOK, InputsOK
  <2>4. CASE report' = Append(report, Entry(addrs[k], bal))
      BY <1>3, <2>1, <2>2, <2>3, <2>4, AppendedNames
  <2>5. CASE report' = report
      BY <1>3, <1>4, <2>2, <2>5
  <2>6. QED
      BY <2>1, <2>4, <2>5
<1>6. CASE ReportTrader
  <2>1. PICK a \in mapLeft :
            /\ a \in Addr
            /\ traderBal[a] \in Int
            /\ mapLeft' = mapLeft \ {a}
            /\ traderBal[a] # 0 => report' = Append(report, Entry(a, traderBal[a]))
            /\ traderBal[a] = 0 => report' = report
      BY <1>6, ReportStep
  <2>2. ~CombineAddr
      BY <1>6 DEF ReportTrader, CombineAddr
  <2>3. Combined' = Combined /\ Visited' = Visited \cup {a} /\ a \notin Visited
      BY <1>2, <1>6, <2>1, <2>2, CombinedStep, VisitedStep
  <2>4. CASE traderBal[a] # 0
    <3>1. a \in DOMAIN traderBal
        BY DEF TypeOK
    <3>2. a \notin Combined
        BY <2>4, <3>1 DEF CombinedAreConsumed, BalOf
    <3>3. a \notin Named
        BY <1>3, <2>3, <3>2
    <3>4. QED
        BY <1>3, <2>1, <2>3, <2>4, <3>3, AppendedNames
  <2>5. CASE traderBal[a] = 0
      BY <1>3, <1>4, <2>1, <2>3, <2>5
  <2>6. QED
      BY <2>4, <2>5
<1>7. CASE ~CombineAddr /\ ~ReportTrader
  <2>1. report' = report /\ Combined' = Combined /\ Visited' = Visited
      BY <1>2, <1>7, ReportStep, CombinedStep, VisitedStep
  <2>2. QED
      BY <1>3, <1>4, <2>1
<1>8. QED
    BY <1>5, <1>6, <1>7

LEMMA NextNobodyLeftOut ==
    ASSUME TypeOK, StagesInOrder, SharesInOrder, MapHoldsDue, NobodyLeftOut, [Next]_vars
    PROVE  NobodyLeftOut'
<1>1. /\ exact' = exact
      /\ PlainDelegation' = PlainDelegation
      /\ \A a : Due(a)' = Due(a)
    BY NextInputs, InputsSame DEF inputVars
<1>2. SUFFICES ASSUME ~exact, PlainDelegation
               PROVE  /\ \A a \in Combined' : Due(a) # 0 => a \in Named'
                      /\ pc' \in {"traders", "done"} =>
                             \A a \in Visited' : traderBal'[a] # 0 => a \in Named'
    BY <1>1 DEF NobodyLeftOut
<1>3. /\ \A a \in Combined : Due(a) # 0 => a \in Named
      /\ pc \in {"traders", "done"} => \A a \in Visited : traderBal[a] # 0 => a \in Named
    BY <1>2 DEF NobodyLeftOut
<1>4. CASE CombineAddr
  <2>1. PICK bal \in Int :
            /\ addrs[k] \in Addr
            /\ bal = Attributed(shares[addrs[k]]) + BalOf(addrs[k])
            /\ Listed(bal) => report' = Append(report, Entry(addrs[k], bal))
            /\ ~Listed(bal) => report' = report
      BY <1>4, ReportStep
  <2>2. Combined' = Combined \cup {addrs[k]} /\ k \in 1..Len(addrs) /\ pc' = "combine"
      BY <1>4, CombinedStep DEF CombineAddr
  <2>3. addrs[k] \in Addr \ Combined
      BY <1>2, <2>1, <2>2, NextAddrIsNew DEF TypeOK, InputsOK
  <2>4. BalOf(addrs[k]) = CashDue(addrs[k], rows)
      BY <1>2, <1>4, <2>3, HeldIsDue DEF CombineAddr
  <2>5. bal = Due(addrs[k])
      BY <2>1, <2>4 DEF Due
  <2>6. CASE Listed(bal)
    <3>1. Named' = Named \cup {addrs[k]}
        BY <2>1, <2>6, AppendedNames
    <3>2. QED
        BY <1>3, <2>2, <3>1
  <2>7. CASE ~Listed(bal)
    <3>1. bal = 0 /\ Named' = Named
        BY <2>1, <2>7 DEF Listed, Named
    <3>2. QED
        BY <1>3, <2>2, <2>5, <3>1
  <2>8. QED
      BY <2>6, <2>7
<1>5. CASE ReportTrader
  <2>1. PICK a \in mapLeft :
            /\ a \in Addr
            /\ traderBal[a] \in Int
            /\ mapLeft' = mapLeft \ {a}
            /\ traderBal[a] # 0 => report' = Append(report, Entry(a, traderBal[a]))
            /\ traderBal[a] = 0 => report' = report
      BY <1>5, ReportStep
  <2>2. pc = "traders" /\ traderBal' = traderBal /\ ~CombineAddr
      BY <1>5 DEF ReportTrader, CombineAddr
  <2>3. Combined' = Combined /\ Visited' = Visited \cup {a}
      BY <1>2, <1>5, <2>1, <2>2, CombinedStep, VisitedStep
  <2>4. CASE traderBal[a] # 0
    <3>1. Named' = Named \cup {a}
        BY <2>1, <2>4, AppendedNames
    <3>2. QED
        BY <1>3, <2>2, <2>3, <3>1
  <2>5. CASE traderBal[a] = 0
    <3>1. Named' = Named
        BY <2>1, <2>5 DEF Named
    <3>2. QED
        BY <1>3, <2>2, <2>3, <2>5, <3>1
  <2>6. QED
      BY <2>4, <2>5
<1>6. CASE ~CombineAddr /\ ~ReportTrader
  <2>1. /\ Named' = Named /\ Combined' = Combined /\ Visited' = Visited
        /\ pc \notin {"traders", "done"} => Visited = {}
      BY <1>2, <1>6, ReportStep, CombinedStep, VisitedStep DEF Named
  <2>2. pc \in {"traders", "done"} => traderBal' = traderBal
      BY <1>6 DEF Next, vars, ReadChunk, ChunkFails, Reassign, AttributeLpBalances,
         AddrsCombined, TradersReported
  <2>3. QED
      BY <1>3, <2>1, <2>2
<1>7. QED
    BY <1>4, <1>5, <1>6

LEMMA NextIInv ==
    ASSUME IInv, [Next]_vars
    PROVE  IInv'
BY NextTypeOK, NextStagesInOrder, NextSharesInOrder, NextCombinedAreConsumed,
   NextCashConserved, NextMapHoldsDue, NextEntriesDue, NextNamesInOrder, NextNamesOnce,
   NextNobodyLeftOut DEF IInv

LEMMA ReportNames ==
    ASSUME IInv
    PROVE  ReportNamesAll
<1>1. TypeOK /\ StagesInOrder /\ MapHoldsDue /\ NamesInOrder /\ NamesOnce /\ NobodyLeftOut
    BY DEF IInv
<1>2. SUFFICES ASSUME Done
               PROVE  IF exact THEN Names = addrs
                      ELSE /\ IsInjective(Names)
                           /\ PlainDelegation => \A a \in Addr : Due(a) # 0 => a \in Named
    BY DEF ReportNamesAll, Names, Named
<1>3. CASE exact
  <2>1. k - 1 = Len(addrs) /\ addrs \in Seq(Addr)
      BY <1>1, <1>2 DEF StagesInOrder, Done, TypeOK, InputsOK
  <2>2. Names = [i \in 1..Len(addrs) |-> addrs[i]]
      BY <1>1, <1>3, <2>1 DEF NamesInOrder
  <2>3. QED
      BY <1>3, <2>1, <2>2
<1>4. CASE ~exact
  <2>1. ASSUME PlainDelegation, NEW a \in Addr, Due(a) # 0
        PROVE  a \in Named
    <3>1. CASE a \in Combined
        BY <1>1, <1>4, <2>1, <3>1 DEF NobodyLeftOut
    <3>2. CASE a \notin Combined
      <4>1. Due(a) = BalOf(a)
          BY <1>1, <1>2, <1>4, <2>1, <3>2, HeldIsDue DEF Done
      <4>2. a \in DOMAIN traderBal /\ traderBal[a] # 0
          BY <2>1, <4>1 DEF BalOf
      <4>3. a \in Visited
          BY <1>1, <1>2, <4>2 DEF Visited, Done, StagesInOrder
      <4>4. QED
          BY <1>1, <1>2, <1>4, <2>1, <4>2, <4>3 DEF NobodyLeftOut, Done
    <3>3. QED
        BY <3>1, <3>2
  <2>2. IsInjective(Names)
      BY <1>1, <1>4 DEF NamesOnce
  <2>3. QED
      BY <1>4, <2>1, <2>2
<1>5. QED
    BY <1>3, <1>4

-----------------------------------------------------------------------------
(***************************************************************************)
(* The theorems                                                            *)
(***************************************************************************)

THEOREM InductiveInvariant == Spec => []IInv
<1>1. Init => IInv
    BY InitIInv
<1>2. IInv /\ [Next]_vars => IInv'
    BY NextIInv
<1>3. QED
    BY <1>1, <1>2, PTL DEF Spec

\* Balances hands out the pool (attributeLpBalances, reassignTraderBalances and
\* combineBalances): whatever the balances, the rows and their order, a report
\* on all holders sums to the pool's balance, less than one unit short per
\* address, unless somebody delegates to itself.
THEOREM ReportSumsToThePool == Spec => []ReportSumsToPool
<1>1. IInv => ReportSumsToPool
    BY ReportSums
<1>2. QED
    BY <1>1, InductiveInvariant, PTL

\* Every entry is what its address is due, in whatever order the rows, and the
\* keys of the map, are read: when delegations are plain.
THEOREM ReportIsDue == Spec => []ReportedDue
<1>1. IInv => ReportedDue
    BY DEF IInv, EntriesDue, ReportedDue
<1>2. QED
    BY <1>1, InductiveInvariant, PTL

\* combineBalances leaves nobody out and names nobody twice; for a request that
\* names addresses it answers in their order.
THEOREM ReportNamesEverybody == Spec => []ReportNamesAll
<1>1. IInv => ReportNamesAll
    BY ReportNames
<1>2. QED
    BY <1>1, InductiveInvariant, PTL
=============================================================================
