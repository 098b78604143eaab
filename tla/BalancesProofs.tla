--------------------------- MODULE BalancesProofs ---------------------------
(***************************************************************************)
(* A balances request, for any number of perpetuals and addresses.         *)
(***************************************************************************)
EXTENDS Balances, TLAPS

USE PerpsAssumption, BoundsAssumption
USE DEF Goroutines, Processes

-----------------------------------------------------------------------------
(***************************************************************************)
(* The inductive invariant behind AnswerComplete: while results are being  *)
(* collected, a goroutine that had an error is still waiting to send it.   *)
(***************************************************************************)
Before == pc["main"] \in {"handler", "start"}
Collecting == pc["main"] = "collect"
Collected == pc["main"] \in {"attribute", "pool", "combine"}

NothingStarted == Before => failed = {} /\ received = {} /\ \A p \in Goroutines : pc[p] = "none"

\* What is known of goroutine p while the call collects.
Pending(p) ==
    /\ p \in failed <=> pc[p] \in {"queryErr", "reassignErr"}
    /\ pc[p] \in {"send", "reassign"} => result[p] # "missing"
    /\ pc[p] = "done" <=> p \in received
    /\ pc[p] = "done" => result[p] # "missing"

ErrorsPending == Collecting => "main" \notin failed /\ \A p \in Goroutines : Pending(p)

ResultsIn == Collected => AllDelivered

SharesKnown == result["lp"] = "empty" => chain.shares # "some"

NoReplyYet == pc["main"] # "done" => reply = "none"

IInv ==
    /\ TypeOK
    /\ NothingStarted
    /\ ErrorsPending
    /\ ResultsIn
    /\ SharesKnown
    /\ NoReplyYet
    /\ AnswerComplete

\* The steps of a query, by whichever process.
QueryStep(p) == TryFails(p) \/ QueryFails(p)

LEMMA InitTypeOK == Init => TypeOK
BY DEF Init, TypeOK, Places

\* A step to a place of p's keeps the types of pc and tries.
LEMMA GotoTypes ==
    ASSUME TypeOK, NEW p \in Processes, NEW at \in Places[p], Goto(p, at)
    PROVE  /\ pc' \in [Processes -> UNION {Places[q] : q \in Processes}]
           /\ \A q \in Processes : pc'[q] \in Places[q]
           /\ tries' \in [Processes -> 0..3]
BY DEF TypeOK, Goto

LEMMA QueryTypeOK ==
    ASSUME TypeOK, NEW p \in Processes, QueryStep(p)
    PROVE  TypeOK'
<1> USE DEF TypeOK, given, blocks, channels
<1>1. CASE TryFails(p)
  <2>1. tries[p] + 1 <= 3
      BY <1>1 DEF TryFails, TryLeft, Trials
  <2>2. QED
      BY <1>1, <2>1 DEF TryFails
<1>2. CASE QueryFails(p)
  <2>1. "queryErr" \in Places[p]
      BY <1>2 DEF QueryFails, Places
  <2>2. QED
      BY <1>2, <2>1, GotoTypes DEF QueryFails, Fails
<1>3. QED
    BY <1>1, <1>2 DEF QueryStep

LEMMA TraderTypeOK ==
    ASSUME TypeOK, TraderStep, ~QueryStep("trader")
    PROVE  TypeOK'
<1>1. {"cash", "active", "reassign", "reassignErr", "send"} \subseteq Places["trader"]
    BY DEF Places
<1>2. PICK at \in Places["trader"] : Goto("trader", at)
    BY <1>1 DEF TraderStep, QueryStep, ActiveRead, NoManager, NextPerp, LastPerp,
       Reassign, ReassignFails
<1>3. /\ UNCHANGED <<given, blocks, channels>>
      /\ perp' \in 1..Perps
      /\ result' \in [Goroutines -> {"missing", "empty", "full"}]
      /\ failed' \subseteq Processes
    BY DEF TraderStep, QueryStep, ActiveRead, NoManager, NextPerp, LastPerp,
       Reassign, ReassignFails, Fails, TypeOK
<1>4. QED
    BY <1>2, <1>3, GotoTypes DEF TypeOK, given, blocks, channels

LEMMA LpTypeOK ==
    ASSUME TypeOK, LpStep, ~QueryStep("lp")
    PROVE  TypeOK'
<1>1. {"multi", "send"} \subseteq Places["lp"]
    BY DEF Places
<1>2. PICK at \in Places["lp"] : Goto("lp", at)
    BY <1>1 DEF LpStep, QueryStep, SupplyRead, NoSupply, SharesRead
<1>3. /\ UNCHANGED <<given, blocks, channels, perp, failed>>
      /\ result' \in [Goroutines -> {"missing", "empty", "full"}]
    BY DEF LpStep, QueryStep, SupplyRead, NoSupply, SharesRead, TypeOK
<1>4. QED
    BY <1>2, <1>3, GotoTypes DEF TypeOK, given, blocks, channels

LEMMA MainTypeOK ==
    ASSUME TypeOK, MainStep, ~QueryStep("main")
    PROVE  TypeOK'
<1> USE DEF TypeOK, given, blocks, channels
<1>0. /\ {"start", "pool", "combine", "done"} \subseteq Places["main"]
      /\ "done" \in Places["trader"] /\ "done" \in Places["lp"]
      /\ {"collect", "attribute"} \subseteq Places["main"]
      /\ {"active", "reassign", "send"} \subseteq Places["trader"]
      /\ {"supply", "send"} \subseteq Places["lp"]
    BY DEF Places
<1>1. CASE GetAccepted \/ PostAccepted
  <2>1. latest' \in 0..MaxBlock /\ block' \in 0..MaxBlock
      BY <1>1 DEF GetAccepted, PostAccepted, GetBlock, Requests
  <2>2. QED
      BY <1>0, <1>1, <2>1, GotoTypes DEF GetAccepted, PostAccepted
<1>2. CASE Rejected \/ HoldersFail \/ PoolFails \/ Combine
    BY <1>0, <1>2, GotoTypes DEF Rejected, HoldersFail, PoolFails, Combine, Return, Fails
<1>3. CASE StartGoroutines
    BY <1>0, <1>3 DEF StartGoroutines
<1>4. CASE Attribute \/ PoolRead
    BY <1>0, <1>4, GotoTypes DEF Attribute, PoolRead
<1>5. ASSUME NEW p \in Goroutines, ReceiveResult(p)
      PROVE  TypeOK'
  <2>1. PICK at \in {"collect", "attribute"} :
            pc' = [pc EXCEPT ![p] = "done", !["main"] = at]
      BY <1>5 DEF ReceiveResult
  <2>2. \A q \in Processes : pc'[q] \in Places[q]
      BY <1>0, <2>1
  <2>3. pc' \in [Processes -> UNION {Places[q] : q \in Processes}]
      BY <1>0, <2>1
  <2>4. QED
      BY <1>5, <2>2, <2>3 DEF ReceiveResult
<1>6. ASSUME NEW p \in Goroutines, ReceiveError(p)
      PROVE  TypeOK'
    BY <1>0, <1>6 DEF ReceiveError
<1>7. QED
    BY <1>1, <1>2, <1>3, <1>4, <1>5, <1>6 DEF MainStep, QueryStep

LEMMA NextTypeOK == TypeOK /\ [Next]_vars => TypeOK'
<1> SUFFICES ASSUME TypeOK, [Next]_vars
             PROVE  TypeOK'
    OBVIOUS
<1>1. CASE \E p \in Processes : QueryStep(p)
    BY <1>1, QueryTypeOK
<1>2. CASE UNCHANGED vars
    BY <1>2 DEF vars, given, blocks, channels, TypeOK
<1>3. QED
    BY <1>1, <1>2, TraderTypeOK, LpTypeOK, MainTypeOK DEF Next

\* Each process is where its code can be, and no query is tried more often
\* than it may be.
THEOREM TypeCorrect == Spec => []TypeOK
BY InitTypeOK, NextTypeOK, PTL DEF Spec

-----------------------------------------------------------------------------
(***************************************************************************)
(* AnswerComplete                                                          *)
(***************************************************************************)

LEMMA InitIInv == Init => IInv
<1> SUFFICES ASSUME Init
             PROVE  IInv
    OBVIOUS
<1>1. TypeOK
    BY InitTypeOK
<1>2. NothingStarted /\ ErrorsPending /\ ResultsIn /\ SharesKnown /\ NoReplyYet
    BY DEF Init, NothingStarted, ErrorsPending, ResultsIn, SharesKnown, NoReplyYet,
       Before, Collecting, Collected
<1>3. AnswerComplete
    BY DEF Init, AnswerComplete
<1>4. QED
    BY <1>1, <1>2, <1>3 DEF IInv

\* A goroutine that moves has not delivered, so the call is still collecting
\* or has returned an error; what it leaves behind is an error still to be
\* sent, or a result that is there when it gets to send it.
LEMMA GoroutineKeepsIInv ==
    ASSUME IInv, TypeOK', NEW p \in Goroutines,
           UNCHANGED <<given, blocks, channels>>,
           pc[p] \notin {"none", "done", "queryErr", "reassignErr"},
           \A q \in Processes : q # p => pc'[q] = pc[q],
           \A q \in Goroutines : q # p => result'[q] = result[q],
           pc'[p] \notin {"none", "done"},
           \/ failed' = failed /\ pc'[p] \notin {"queryErr", "reassignErr"}
           \/ failed' = failed \cup {p} /\ pc'[p] \in {"queryErr", "reassignErr"},
           Collecting /\ pc'[p] \in {"send", "reassign"} => result'[p] # "missing",
           SharesKnown'
    PROVE  IInv'
<1> USE DEF IInv, given, blocks, channels
<1>1. pc'["main"] = pc["main"]
    OBVIOUS
<1>2. ~Before /\ ~Collected /\ reply # "balances"
    BY DEF NothingStarted, ResultsIn, AnswerComplete, AllDelivered
<1>3. NothingStarted' /\ ResultsIn' /\ NoReplyYet'
    BY <1>1, <1>2 DEF NothingStarted, ResultsIn, NoReplyYet, Before, Collected
<1>4. AnswerComplete'
    BY <1>2 DEF AnswerComplete
<1>5. ErrorsPending'
  <2> SUFFICES ASSUME Collecting
               PROVE  "main" \notin failed' /\ \A q \in Goroutines : Pending(q)'
      BY <1>1 DEF ErrorsPending, Collecting
  <2>1. "main" \notin failed /\ \A q \in Goroutines : Pending(q)
      BY DEF ErrorsPending
  <2>2. p \notin failed /\ p \notin received
      BY <2>1 DEF Pending
  <2>3. Pending(p)'
      BY <2>2 DEF Pending
  <2>4. ASSUME NEW q \in Goroutines, q # p
        PROVE  Pending(q)'
      BY <2>1, <2>4 DEF Pending
  <2>5. QED
      BY <2>1, <2>3, <2>4
<1>6. QED
    BY <1>3, <1>4, <1>5

\* The places after a step of p's alone.
LEMMA GotoPlaces ==
    ASSUME TypeOK, NEW p \in Processes, NEW at, Goto(p, at)
    PROVE  pc'[p] = at /\ \A q \in Processes : q # p => pc'[q] = pc[q]
BY DEF TypeOK, Goto

LEMMA GoroutineIInv ==
    ASSUME IInv, TypeOK', TraderStep \/ LpStep
    PROVE  IInv'
<1> USE DEF IInv
<1>1. ASSUME NEW p \in Goroutines, TryFails(p)
      PROVE  IInv'
    BY <1>1 DEF TryFails, NothingStarted, ErrorsPending, ResultsIn, SharesKnown,
       NoReplyYet, AnswerComplete, AllDelivered, Pending, Before, Collecting, Collected,
       given, blocks, channels
<1>2. ASSUME NEW p \in Goroutines, QueryFails(p)
      PROVE  IInv'
  <2>1. pc[p] \in {"active", "cash", "supply", "multi", "pool"}
      BY <1>2 DEF QueryFails, Trials
  <2>2. SharesKnown'
      BY <1>2 DEF QueryFails, SharesKnown, given
  <2>3. QED
      BY <1>2, <2>1, <2>2, GotoPlaces, GoroutineKeepsIInv DEF QueryFails, Fails
<1>3. ASSUME ActiveRead \/ NoManager \/ NextPerp \/ LastPerp
      PROVE  IInv'
  <2>1. pc["trader"] \in {"active", "cash"}
      BY <1>3 DEF ActiveRead, NoManager, NextPerp, LastPerp
  <2>2. PICK at \in {"active", "cash", "reassign"} : Goto("trader", at)
      BY <1>3 DEF ActiveRead, NoManager, NextPerp, LastPerp
  <2>3. /\ UNCHANGED <<given, blocks, channels, failed>>
        /\ result'["lp"] = result["lp"]
        /\ pc'["trader"] = "reassign" => result'["trader"] # "missing"
      BY <1>3, GotoPlaces DEF ActiveRead, NoManager, NextPerp, LastPerp, TypeOK
  <2>4. SharesKnown'
      BY <2>3 DEF SharesKnown, given
  <2>5. pc'["trader"] = at /\ \A q \in Processes : q # "trader" => pc'[q] = pc[q]
      BY <2>2, GotoPlaces
  <2>6. QED
      BY <2>1, <2>3, <2>4, <2>5, GoroutineKeepsIInv
<1>4. ASSUME Reassign
      PROVE  IInv'
  <2>1. Collecting => result["trader"] # "missing"
      BY <1>4 DEF Reassign, ErrorsPending, Pending
  <2>2. SharesKnown'
      BY <1>4 DEF Reassign, SharesKnown, given
  <2>3. QED
      BY <1>4, <2>1, <2>2, GotoPlaces, GoroutineKeepsIInv DEF Reassign
<1>5. ASSUME ReassignFails
      PROVE  IInv'
  <2>1. SharesKnown'
      BY <1>5 DEF ReassignFails, SharesKnown, given
  <2>2. QED
      BY <1>5, <2>1, GotoPlaces, GoroutineKeepsIInv DEF ReassignFails, Fails
<1>6. ASSUME SupplyRead \/ NoSupply \/ SharesRead
      PROVE  IInv'
  <2>1. pc["lp"] \in {"supply", "multi"}
      BY <1>6 DEF SupplyRead, NoSupply, SharesRead
  <2>2. PICK at \in {"multi", "send"} : Goto("lp", at)
      BY <1>6 DEF SupplyRead, NoSupply, SharesRead
  <2>3. /\ UNCHANGED <<given, blocks, channels, failed>>
        /\ result'["trader"] = result["trader"]
        /\ pc'["lp"] = "send" => result'["lp"] # "missing"
      BY <1>6, GotoPlaces DEF SupplyRead, NoSupply, SharesRead, TypeOK
  <2>4. SharesKnown'
      BY <1>6 DEF SupplyRead, NoSupply, SharesRead, SharesKnown, TypeOK, given
  <2>5. pc'["lp"] = at /\ \A q \in Processes : q # "lp" => pc'[q] = pc[q]
      BY <2>2, GotoPlaces
  <2>6. QED
      BY <2>1, <2>2, <2>3, <2>4, <2>5, GoroutineKeepsIInv
<1>7. QED
    BY <1>1, <1>2, <1>3, <1>4, <1>5, <1>6 DEF TraderStep, LpStep

LEMMA MainIInv ==
    ASSUME IInv, TypeOK', MainStep
    PROVE  IInv'
<1> USE DEF IInv
<1>1. ASSUME GetAccepted \/ PostAccepted
      PROVE  IInv'
  <2>1. pc["main"] = "handler" /\ Goto("main", "start")
      BY <1>1 DEF GetAccepted, PostAccepted
  <2>2. UNCHANGED <<given, result, failed, channels>>
      BY <1>1 DEF GetAccepted, PostAccepted
  <2>3. block' <= latest'
      BY <1>1 DEF GetAccepted, PostAccepted, GetBlock, Available
  <2>4. pc'["main"] = "start" /\ pc'["trader"] = pc["trader"] /\ pc'["lp"] = pc["lp"]
      BY <2>1, GotoPlaces
  <2>5. NothingStarted'
      BY <2>1, <2>2, <2>4 DEF NothingStarted, Before, channels
  <2>6. ErrorsPending' /\ ResultsIn' /\ SharesKnown' /\ NoReplyYet'
      BY <2>1, <2>2, <2>4 DEF ErrorsPending, ResultsIn, SharesKnown, NoReplyYet,
         Collecting, Collected, given, channels
  <2>7. AnswerComplete'
      BY <2>1, <2>2, <2>3 DEF AnswerComplete, NoReplyYet, channels
  <2>8. QED
      BY <2>5, <2>6, <2>7
<1>2. ASSUME NEW r \in {"rejected", "error", "balances", "panic"},
             Return(r),
             UNCHANGED <<given, blocks, perp, result, received>>,
             r = "error" => failed' = failed \cup {"main"},
             r # "error" => failed' = failed,
             r = "balances" => AllDelivered,
             r = "panic" => chain.shares # "some" /\ request.addrs > 0
      PROVE  IInv'
  <2>1. pc'["main"] = "done" /\ pc'["trader"] = pc["trader"] /\ pc'["lp"] = pc["lp"]
      BY <1>2, GotoPlaces DEF Return
  <2>2. NothingStarted' /\ ErrorsPending' /\ ResultsIn' /\ SharesKnown' /\ NoReplyYet'
      BY <1>2, <2>1 DEF NothingStarted, ErrorsPending, ResultsIn, SharesKnown, NoReplyYet,
         Before, Collecting, Collected, given
  <2>3. AnswerComplete'
      BY <1>2, <2>1 DEF Return, AnswerComplete, AllDelivered, given, blocks
  <2>4. QED
      BY <2>2, <2>3
<1>3. CASE Rejected
    BY <1>2, <1>3 DEF Rejected
<1>4. CASE HoldersFail \/ PoolFails
    BY <1>2, <1>4 DEF HoldersFail, PoolFails, Fails
<1>5. CASE Combine
  <2>1. AllDelivered
      BY <1>5 DEF Combine, ResultsIn, Collected
  <2>2. result["lp"] # "full" => chain.shares # "some"
      BY <2>1 DEF AllDelivered, SharesKnown, TypeOK
  <2>3. QED
      BY <1>2, <1>5, <2>1, <2>2 DEF Combine
<1>6. ASSUME StartGoroutines
      PROVE  IInv'
  <2>1. pc'["main"] = "collect" /\ pc'["trader"] = "active" /\ pc'["lp"] = "supply"
      BY <1>6 DEF StartGoroutines
  <2>2. failed' = {} /\ received' = {} /\ reply' = "none"
      BY <1>6 DEF StartGoroutines, NothingStarted, NoReplyYet, Before, channels
  <2>3. NothingStarted' /\ ErrorsPending' /\ ResultsIn' /\ NoReplyYet'
      BY <2>1, <2>2 DEF NothingStarted, ErrorsPending, Pending, ResultsIn, NoReplyYet,
         Before, Collecting, Collected
  <2>4. SharesKnown' /\ AnswerComplete'
      BY <1>6, <2>2 DEF StartGoroutines, SharesKnown, AnswerComplete, given, blocks
  <2>5. QED
      BY <2>3, <2>4
<1>7. ASSUME Attribute \/ PoolRead
      PROVE  IInv'
  <2>1. PICK at \in {"pool", "combine"} : Goto("main", at)
      BY <1>7 DEF Attribute, PoolRead
  <2>2. Collected /\ UNCHANGED <<given, blocks, perp, result, failed, channels>>
      BY <1>7 DEF Attribute, PoolRead, Collected
  <2>3. pc'["main"] = at /\ pc'["trader"] = pc["trader"] /\ pc'["lp"] = pc["lp"]
      BY <2>1, GotoPlaces
  <2>4. AllDelivered'
      BY <2>2, <2>3 DEF ResultsIn, AllDelivered
  <2>5. NothingStarted' /\ ErrorsPending' /\ ResultsIn' /\ SharesKnown' /\ NoReplyYet'
      BY <2>2, <2>3, <2>4 DEF NothingStarted, ErrorsPending, ResultsIn, SharesKnown,
         NoReplyYet, Before, Collecting, Collected, given, channels
  <2>6. AnswerComplete'
      BY <2>2, <2>4 DEF AnswerComplete, given, blocks, channels
  <2>7. QED
      BY <2>5, <2>6
<1>8. ASSUME TryFails("main")
      PROVE  IInv'
    BY <1>8 DEF TryFails, NothingStarted, ErrorsPending, ResultsIn, SharesKnown,
       NoReplyYet, AnswerComplete, AllDelivered, Pending, Before, Collecting, Collected,
       given, blocks, channels
<1>9. ASSUME NEW p \in Goroutines, ReceiveResult(p)
      PROVE  IInv'
  <2>1. /\ Collecting /\ pc[p] = "send" /\ received' = received \cup {p}
        /\ UNCHANGED <<given, blocks, result, failed, reply>>
      BY <1>9 DEF ReceiveResult, Collecting
  <2>2. PICK at \in {"collect", "attribute"} :
            /\ pc' = [pc EXCEPT ![p] = "done", !["main"] = at]
            /\ at = "attribute" => received' = Goroutines
      BY <1>9 DEF ReceiveResult, AllReceived
  <2>3. /\ pc'["main"] = at /\ pc'[p] = "done"
        /\ \A q \in Goroutines : q # p => pc'[q] = pc[q]
      BY <2>2 DEF TypeOK
  <2>4. "main" \notin failed /\ \A q \in Goroutines : Pending(q)
      BY <2>1 DEF ErrorsPending
  <2>5. \A q \in Goroutines : Pending(q)'
    <3>1. Pending(p)'
        BY <2>1, <2>3, <2>4 DEF Pending
    <3>2. ASSUME NEW q \in Goroutines, q # p
          PROVE  Pending(q)'
        BY <2>1, <2>3, <2>4, <3>2 DEF Pending
    <3>3. QED
        BY <3>1, <3>2
  <2>6. at = "attribute" => AllDelivered'
    <3> SUFFICES ASSUME at = "attribute"
                 PROVE  AllDelivered'
        OBVIOUS
    <3>1. \A q \in Goroutines : pc'[q] = "done" /\ result'[q] # "missing"
        BY <2>2, <2>5 DEF Pending
    <3>2. failed' = {}
        BY <2>1, <2>4, <2>5, <3>1 DEF Pending, TypeOK
    <3>3. QED
        BY <3>1, <3>2 DEF AllDelivered
  <2>7. NothingStarted' /\ ErrorsPending' /\ ResultsIn'
      BY <2>1, <2>3, <2>4, <2>5, <2>6 DEF NothingStarted, ErrorsPending, ResultsIn, Before,
         Collecting, Collected
  <2>8. SharesKnown' /\ NoReplyYet' /\ AnswerComplete'
      BY <2>1 DEF SharesKnown, NoReplyYet, AnswerComplete, Collecting, given, blocks
  <2>9. QED
      BY <2>7, <2>8
<1>10. ASSUME NEW p \in Goroutines, ReceiveError(p)
       PROVE  IInv'
  <2>1. /\ reply' = "error" /\ pc[p] \in {"queryErr", "reassignErr"}
        /\ UNCHANGED <<given, blocks, result, failed, received>>
      BY <1>10 DEF ReceiveError
  <2>2. pc'["main"] = "done"
      BY <1>10 DEF ReceiveError, TypeOK
  <2>3. failed' # {}
      BY <1>10, <2>1 DEF ReceiveError, ErrorsPending, Pending, Collecting
  <2>4. NothingStarted' /\ ErrorsPending' /\ ResultsIn' /\ NoReplyYet'
      BY <2>2 DEF NothingStarted, ErrorsPending, ResultsIn, NoReplyYet, Before,
         Collecting, Collected
  <2>5. SharesKnown' /\ AnswerComplete'
      BY <2>1, <2>3 DEF SharesKnown, AnswerComplete, given, blocks
  <2>6. QED
      BY <2>4, <2>5
<1>11. QED
    BY <1>1, <1>3, <1>4, <1>5, <1>6, <1>7, <1>8, <1>9, <1>10 DEF MainStep

LEMMA NextIInv == IInv /\ [Next]_vars => IInv'
<1> SUFFICES ASSUME IInv, [Next]_vars
             PROVE  IInv'
    OBVIOUS
<1>1. TypeOK'
    BY NextTypeOK DEF IInv
<1>2. CASE UNCHANGED vars
    BY <1>1, <1>2 DEF vars, IInv, NothingStarted, ErrorsPending, ResultsIn, SharesKnown,
       NoReplyYet, AnswerComplete, AllDelivered, Pending, Before, Collecting, Collected,
       given, blocks, channels
<1>3. QED
    BY <1>1, <1>2, GoroutineIInv, MainIInv DEF Next

\* Balances are answered from two complete results only, for a block that is
\* announced as collected, and nothing is left behind; errors and panics have
\* their reasons.
THEOREM AnswersAreComplete == Spec => []AnswerComplete
<1>1. IInv => AnswerComplete
    BY DEF IInv
<1>2. QED
    BY <1>1, InitIInv, NextIInv, PTL DEF Spec
=============================================================================
