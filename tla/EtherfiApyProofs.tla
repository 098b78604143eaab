-------------------------- MODULE EtherfiApyProofs --------------------------
(***************************************************************************)
(* The APY cache, for any number of racing requests and any lifetime.      *)
(***************************************************************************)
EXTENDS EtherfiApy, TLAPS

USE TTLAssumption

-----------------------------------------------------------------------------
(***************************************************************************)
(* The inductive invariant: the time set is not before the value's and not *)
(* before that of any running fetch.                                       *)
(***************************************************************************)
IInv ==
    /\ TypeOK
    /\ valueAge <= age \/ Fetching \/ failed
    /\ \A r \in Request : pc[r] = "fetch" => age <= claimAge[r]

LEMMA InitTypeOK == Init => TypeOK
<1> SUFFICES ASSUME Init
             PROVE  TypeOK
    OBVIOUS
<1>1. failed \in BOOLEAN
    BY Zenon DEF Init
<1>2. QED
    BY <1>1 DEF Init, TypeOK, Ages

LEMMA NextTypeOK == TypeOK /\ [Next]_vars => TypeOK'
<1> SUFFICES ASSUME TypeOK, [Next]_vars
             PROVE  TypeOK'
    OBVIOUS
<1> USE DEF TypeOK, Ages, Goto
<1>1. CASE Tick
    BY <1>1 DEF Tick, Older
<1>2. ASSUME NEW r \in Request, Handle(r)
      PROVE  TypeOK'
  <2>1. CASE AnswerCached(r) \/ SeesExpired(r) \/ Claim(r) \/ Done(r)
      BY <2>1 DEF AnswerCached, SeesExpired, Claim, Done
  <2>2. CASE FetchFails(r) \/ FetchSucceeds(r)
    <3>1. failed' \in BOOLEAN
        BY <2>2, Zenon DEF FetchFails, FetchSucceeds
    <3>2. QED
        BY <2>2, <3>1 DEF FetchFails, FetchSucceeds
  <2>3. QED
      BY <1>2, <2>1, <2>2 DEF Handle
<1>3. CASE UNCHANGED vars
    BY <1>3 DEF vars
<1>4. QED
    BY <1>1, <1>2, <1>3 DEF Next

\* The ages stay within their cap, whatever requests race.
THEOREM TypeCorrect == Spec => []TypeOK
BY InitTypeOK, NextTypeOK, PTL DEF Spec

LEMMA InitIInv == Init => IInv
<1> SUFFICES ASSUME Init
             PROVE  IInv
    OBVIOUS
<1>1. valueAge <= age
    BY DEF Init
<1>2. \A r \in Request : pc[r] = "fetch" => age <= claimAge[r]
    BY DEF Init
<1>3. QED
    BY <1>1, <1>2, InitTypeOK DEF IInv

LEMMA OlderMonotone ==
    ASSUME NEW a \in Ages, NEW b \in Ages, a <= b
    PROVE  Older(a) <= Older(b)
BY DEF Older, Ages

LEMMA NextIInv == IInv /\ [Next]_vars => IInv'
<1> SUFFICES ASSUME IInv, [Next]_vars
             PROVE  IInv'
    OBVIOUS
<1>0. TypeOK /\ TypeOK'
    BY NextTypeOK DEF IInv
<1> USE DEF Goto
<1>1. CASE Tick
  <2>1. valueAge <= age => valueAge' <= age'
      BY <1>0, <1>1, OlderMonotone DEF Tick, TypeOK
  <2>2. Fetching' <=> Fetching
      BY <1>1 DEF Tick, Fetching
  <2>3. ASSUME NEW r \in Request, pc'[r] = "fetch"
        PROVE  age' <= claimAge'[r]
    <3>1. pc[r] = "fetch" /\ age <= claimAge[r]
        BY <1>1, <2>3 DEF Tick, IInv
    <3>2. claimAge'[r] = Older(claimAge[r])
        BY <1>1, <3>1 DEF Tick
    <3>3. QED
        BY <1>0, <1>1, <3>1, <3>2, OlderMonotone DEF Tick, TypeOK
  <2>4. QED
      BY <1>0, <1>1, <2>1, <2>2, <2>3 DEF Tick, IInv
<1>2. ASSUME NEW r \in Request, AnswerCached(r) \/ SeesExpired(r) \/ Done(r)
      PROVE  IInv'
  <2>1. \A q \in Request : pc'[q] = "fetch" <=> pc[q] = "fetch"
      BY <1>0, <1>2 DEF AnswerCached, SeesExpired, Done, TypeOK
  <2>2. Fetching' <=> Fetching
      BY <2>1 DEF Fetching
  <2>3. UNCHANGED <<age, valueAge, claimAge, failed>>
      BY <1>2 DEF AnswerCached, SeesExpired, Done
  <2>4. QED
      BY <1>0, <2>1, <2>2, <2>3 DEF IInv
<1>3. ASSUME NEW r \in Request, Claim(r)
      PROVE  IInv'
  <2>1. Fetching'
      BY <1>0, <1>3 DEF Claim, Fetching, TypeOK
  <2>2. age' = 0 /\ claimAge' = claimAge
      BY <1>3 DEF Claim
  <2>3. \A q \in Request : 0 <= claimAge[q]
      BY <1>0 DEF TypeOK, Ages
  <2>4. QED
      BY <1>0, <2>1, <2>2, <2>3 DEF IInv
<1>4. ASSUME NEW r \in Request, FetchFails(r) \/ FetchSucceeds(r)
      PROVE  IInv'
  <2>1. failed' \/ valueAge' <= age'
      BY <1>0, <1>4 DEF FetchFails, FetchSucceeds, TypeOK, Ages
  <2>2. ASSUME NEW q \in Request, pc'[q] = "fetch"
        PROVE  age' <= claimAge'[q]
    <3>1. q # r
        BY <1>0, <1>4, <2>2 DEF FetchFails, FetchSucceeds, TypeOK
    <3>2. pc[q] = "fetch" /\ age' = age /\ claimAge'[q] = claimAge[q]
        BY <1>0, <1>4, <2>2, <3>1 DEF FetchFails, FetchSucceeds, TypeOK
    <3>3. QED
        BY <3>2 DEF IInv
  <2>3. QED
      BY <1>0, <2>1, <2>2 DEF IInv
<1>5. CASE UNCHANGED vars
  <2>1. Fetching' <=> Fetching
      BY <1>5 DEF vars, Fetching
  <2>2. QED
      BY <1>0, <1>5, <2>1 DEF vars, IInv
<1>6. QED
    BY <1>1, <1>2, <1>3, <1>4, <1>5 DEF Next, Handle

\* An answer from the cache is older than the twelve hours only while its
\* replacement is being fetched or because that fetch failed.
THEOREM CachedAnswersAreFresh == Spec => []AnswerFresh
<1>1. IInv => AnswerFresh
    BY DEF IInv, TypeOK, Ages, AnswerFresh, Expired
<1>2. QED
    BY <1>1, InitIInv, NextIInv, PTL DEF Spec

\* What is being fetched is not fetched again, except after TTL and by the
\* requests that checked before the time was set.
THEOREM NobodyFetchesTwice == Spec => []NoSecondFetch
<1>1. IInv => NoSecondFetch
    BY DEF IInv, TypeOK, Ages, NoSecondFetch, Expired
<1>2. QED
    BY <1>1, InitIInv, NextIInv, PTL DEF Spec
=============================================================================
