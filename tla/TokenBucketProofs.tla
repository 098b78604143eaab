-------------------------- MODULE TokenBucketProofs --------------------------
(***************************************************************************)
(* For every capacity, refill rate and number of callers: the types, and   *)
(* the bound on the requests let through in any window of time.            *)
(***************************************************************************)
EXTENDS TokenBucket, TLAPS

\* What integer division promises: refill() never adds more than has accrued.
LEMMA Truncation ==
    ASSUME NEW x \in Nat, NEW d \in Nat \ {0}
    PROVE  /\ x \div d \in Nat
           /\ (x \div d) * d <= x
           /\ x < (x \div d + 1) * d
OBVIOUS

LEMMA Products ==
    ASSUME NEW x \in Int, NEW y \in Int, NEW d \in Int
    PROVE  /\ x * d \in Int
           /\ (x + y) * d = x * d + y * d
OBVIOUS

LEMMA ProductsOrdered ==
    ASSUME NEW x \in Int, NEW y \in Int, NEW d \in Nat, x <= y
    PROVE  x * d <= y * d
OBVIOUS

LEMMA TokensAreNat == TypeOK => TokensToAdd \in Nat
<1> SUFFICES ASSUME TypeOK
             PROVE  TokensToAdd \in Nat
    OBVIOUS
<1>1. elapsed * RateNum \in Nat
    BY RateAssumption, BoundsAssumption DEF TypeOK
<1>2. QED
    BY <1>1, Truncation, RateAssumption DEF TokensToAdd

LEMMA RefillTypes == TypeOK => Refilled \in 0..Capacity /\ ElapsedAfterRefill \in 0..elapsed
BY TokensAreNat, RateAssumption, BoundsAssumption DEF TypeOK, Refilled, ElapsedAfterRefill

LEMMA NextTypeOK == TypeOK /\ [Next]_vars => TypeOK'
<1> SUFFICES ASSUME TypeOK, [Next]_vars
             PROVE  TypeOK'
    OBVIOUS
<1> USE RateAssumption, BoundsAssumption DEF TypeOK
<1>1. CASE Tick
    BY <1>1 DEF Tick
<1>2. CASE OpenWindow
    BY <1>2 DEF OpenWindow
<1>3. ASSUME NEW c \in Caller, WaitForToken(c)
      PROVE  TypeOK'
    BY <1>3 DEF WaitForToken
<1>4. ASSUME NEW c \in Caller, TakeSucceeds(c)
      PROVE  TypeOK'
    BY <1>4, RefillTypes DEF TakeSucceeds
<1>5. ASSUME NEW c \in Caller, TakeFails(c)
      PROVE  TypeOK'
    BY <1>5, RefillTypes DEF TakeFails
<1>6. CASE UNCHANGED vars
    BY <1>6 DEF vars
<1>7. QED
    BY <1>1, <1>2, <1>3, <1>4, <1>5, <1>6 DEF Next, Take

\* Every take leaves the bucket and the age of the refill in range.
THEOREM TypeCorrect == Spec => []TypeOK
<1>1. Init => TypeOK
    BY RateAssumption, BoundsAssumption DEF Init, TypeOK
<1>2. QED
    BY <1>1, NextTypeOK, PTL DEF Spec

\* A refill turns accrued time into tokens and never creates any: what is in
\* the bucket plus what has accrued does not grow.
LEMMA RefillConserves ==
    ASSUME TypeOK
    PROVE  Refilled * RateDen + ElapsedAfterRefill * RateNum
               <= tokens * RateDen + elapsed * RateNum
<1> USE RateAssumption, BoundsAssumption
<1> DEFINE k == TokensToAdd
<1>1. /\ k \in Nat
      /\ tokens \in Nat
      /\ elapsed \in Nat
      /\ elapsed * RateNum \in Nat
    BY TokensAreNat DEF TypeOK
<1>2. k * RateDen <= elapsed * RateNum
    BY <1>1, Truncation DEF TokensToAdd
<1>3. Refilled * RateDen <= tokens * RateDen + k * RateDen
  <2>1. Refilled \in Int /\ Refilled <= tokens + k
      BY <1>1, RefillTypes DEF Refilled
  <2>2. Refilled * RateDen <= (tokens + k) * RateDen
      BY <1>1, <2>1, ProductsOrdered
  <2>3. QED
      BY <1>1, <2>2, Products
<1>4. CASE k > 0
  <2>1. ElapsedAfterRefill * RateNum = 0
      BY <1>4 DEF ElapsedAfterRefill
  <2>2. Refilled * RateDen \in Int /\ tokens * RateDen \in Int /\ k * RateDen \in Int
      BY <1>1, RefillTypes, Products
  <2>3. QED
      BY <1>1, <1>2, <1>3, <2>1, <2>2
<1>5. CASE k = 0
  <2>1. Refilled = tokens /\ ElapsedAfterRefill = elapsed
      BY <1>1, <1>5 DEF Refilled, ElapsedAfterRefill, TypeOK
  <2>2. QED
      BY <1>1, <2>1, Products
<1>6. QED
    BY <1>1, <1>4, <1>5

\* Right after a refill less than one token has accrued.
LEMMA RefillFraction ==
    ASSUME TypeOK
    PROVE  ElapsedAfterRefill * RateNum < RateDen
<1> USE RateAssumption, BoundsAssumption
<1>1. elapsed \in Nat /\ elapsed * RateNum \in Nat
    BY DEF TypeOK
<1>2. CASE TokensToAdd > 0
    BY <1>2 DEF ElapsedAfterRefill
<1>3. CASE ~(TokensToAdd > 0)
  <2>1. TokensToAdd = 0
      BY <1>3, TokensAreNat
  <2>2. elapsed * RateNum < (0 + 1) * RateDen
      BY <1>1, <2>1, Truncation DEF TokensToAdd
  <2>3. QED
      BY <1>3, <2>2 DEF ElapsedAfterRefill
<1>4. QED
    BY <1>2, <1>3

LEMMA NextWindowBudget == TypeOK /\ WindowBudget /\ [Next]_vars => WindowBudget'
<1> SUFFICES ASSUME TypeOK, WindowBudget, [Next]_vars, wTaken' > 0
             PROVE  (tokens' + wTaken') * RateDen + elapsed' * RateNum
                        < (Capacity + 1) * RateDen + wElapsed' * RateNum
    BY DEF WindowBudget
<1> USE RateAssumption, BoundsAssumption
<1>1. /\ tokens \in Nat /\ elapsed \in Nat /\ wTaken \in Nat /\ wElapsed \in Nat
      /\ Refilled \in 0..Capacity /\ ElapsedAfterRefill \in Nat
    BY RefillTypes DEF TypeOK
<1>2. CASE Tick
  <2>1. /\ elapsed' \in {elapsed, elapsed + 1}
        /\ wElapsed' = wElapsed + 1
        /\ tokens' = tokens /\ wTaken' = wTaken
      BY <1>2 DEF Tick
  <2>2. elapsed' * RateNum <= elapsed * RateNum + RateNum
    <3>1. (elapsed + 1) * RateNum = elapsed * RateNum + 1 * RateNum
        BY <1>1, Products
    <3>2. elapsed * RateNum \in Int
        BY <1>1
    <3>3. QED
        BY <2>1, <3>1, <3>2
  <2>3. wElapsed' * RateNum = wElapsed * RateNum + RateNum
    <3>1. (wElapsed + 1) * RateNum = wElapsed * RateNum + 1 * RateNum
        BY <1>1, Products
    <3>2. QED
        BY <2>1, <3>1
  <2>4. /\ (tokens + wTaken) * RateDen \in Int /\ elapsed * RateNum \in Int
        /\ elapsed' * RateNum \in Int /\ wElapsed * RateNum \in Int
        /\ (Capacity + 1) * RateDen \in Int
      BY <1>1, <2>1, Products
  <2>5. QED
      BY <2>1, <2>2, <2>3, <2>4 DEF WindowBudget
<1>3. CASE OpenWindow
    BY <1>3 DEF OpenWindow
<1>4. ASSUME NEW c \in Caller, WaitForToken(c)
      PROVE  (tokens' + wTaken') * RateDen + elapsed' * RateNum
                 < (Capacity + 1) * RateDen + wElapsed' * RateNum
    BY <1>4 DEF WaitForToken, WindowBudget
<1>5. ASSUME NEW c \in Caller, Take(c)
      PROVE  (tokens' + wTaken') * RateDen + elapsed' * RateNum
                 < (Capacity + 1) * RateDen + wElapsed' * RateNum
  <2>1. /\ elapsed' = ElapsedAfterRefill
        /\ wElapsed' = wElapsed
        /\ tokens' \in Int
        /\ tokens' + wTaken' = Refilled + wTaken
        /\ wTaken' \in {wTaken, wTaken + 1}
      BY <1>1, <1>5 DEF Take, TakeSucceeds, TakeFails
  <2>2. (tokens' + wTaken') * RateDen = Refilled * RateDen + wTaken * RateDen
    <3>1. Refilled \in Int /\ wTaken \in Int
        BY <1>1
    <3>2. (Refilled + wTaken) * RateDen = Refilled * RateDen + wTaken * RateDen
        BY <3>1, Products
    <3>3. QED
        BY <2>1, <3>2
  <2>3. (tokens + wTaken) * RateDen = tokens * RateDen + wTaken * RateDen
      BY <1>1, Products
  <2>4. (Capacity + 1) * RateDen = Capacity * RateDen + RateDen
      BY Products
  <2>5. /\ Refilled * RateDen \in Int /\ ElapsedAfterRefill * RateNum \in Int
        /\ tokens * RateDen \in Int /\ elapsed * RateNum \in Int
        /\ wTaken * RateDen \in Int /\ wElapsed * RateNum \in Nat
        /\ Capacity * RateDen \in Int
      BY <1>1, Products
  <2>6. CASE wTaken > 0
      BY <2>1, <2>2, <2>3, <2>5, <2>6, RefillConserves DEF WindowBudget
  <2>7. CASE wTaken = 0
    <3>1. Refilled * RateDen <= Capacity * RateDen
        BY <1>1, ProductsOrdered
    <3>2. wTaken * RateDen = 0
        BY <2>7
    <3>3. QED
        BY <2>1, <2>2, <2>4, <2>5, <3>1, <3>2, RefillFraction
  <2>8. QED
      BY <1>1, <2>6, <2>7
<1>6. CASE UNCHANGED vars
    BY <1>6 DEF vars, WindowBudget
<1>7. QED
    BY <1>2, <1>3, <1>4, <1>5, <1>6 DEF Next

LEMMA BudgetImpliesBound == TypeOK /\ WindowBudget => WindowBound
<1> SUFFICES ASSUME TypeOK, WindowBudget
             PROVE  WindowBound
    OBVIOUS
<1> USE RateAssumption, BoundsAssumption
<1>1. /\ tokens \in Nat /\ elapsed \in Nat /\ wTaken \in Nat /\ wElapsed \in Nat
      /\ (Capacity + 1) * RateDen \in Nat \ {0}
    BY DEF TypeOK
<1>2. /\ tokens * RateDen \in Nat /\ elapsed * RateNum \in Nat
      /\ wTaken * RateDen \in Nat /\ wElapsed * RateNum \in Nat
    BY <1>1
<1>3. CASE wTaken > 0
  <2>1. (tokens + wTaken) * RateDen = tokens * RateDen + wTaken * RateDen
      BY <1>1, Products
  <2>2. QED
      BY <1>1, <1>2, <1>3, <2>1 DEF WindowBudget, WindowBound
<1>4. CASE wTaken = 0
  <2>1. wTaken * RateDen = 0
      BY <1>4
  <2>2. QED
      BY <1>1, <1>2, <2>1 DEF WindowBound
<1>5. QED
    BY <1>1, <1>3, <1>4

\* In every window of time fewer than Capacity + 1 + time * rate requests are
\* let through, whoever makes them and whenever the refills happen.
THEOREM RateIsBounded == Spec => []WindowBound
<1>1. Init => TypeOK /\ WindowBudget
    BY RateAssumption, BoundsAssumption DEF Init, TypeOK, WindowBudget
<1>2. QED
    BY <1>1, NextTypeOK, NextWindowBudget, BudgetImpliesBound, PTL DEF Spec
=============================================================================
