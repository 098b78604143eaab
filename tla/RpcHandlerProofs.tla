-------------------------- MODULE RpcHandlerProofs --------------------------
(***************************************************************************)
(* The rotation of clients, for any number of clients and queries.         *)
(***************************************************************************)
EXTENDS RpcHandler, TLAPS

USE ClientsAssumption

-----------------------------------------------------------------------------
(***************************************************************************)
(* The inductive invariant behind DefeatedOnlyByOthers: since q met the    *)
(* client that is down, the index has moved on by Ahead, and that were     *)
(* turns of others.                                                        *)
(***************************************************************************)
Ahead == IF lastIdx >= down THEN lastIdx - down ELSE lastIdx - down + clients

TurnsCounted(q) ==
    /\ pc[q] = "next" /\ tries[q] > 0 => others[q] >= Capped(Rounds(tries[q] - 1) + Ahead)
    /\ pc[q] = "call" /\ client[q] = down => others[q] >= Capped(Rounds(tries[q]) + Ahead)
    /\ pc[q] = "done" => others[q] >= Rounds(Trials[kind[q]] - 1)

IInv ==
    /\ TypeOK
    /\ handler = "app" =>
          \A q \in Query :
             /\ pc[q] = "start" => kind[q] = "holders"
             /\ kind[q] # "holders" => TurnsCounted(q)

-----------------------------------------------------------------------------
(***************************************************************************)
(* The inductive invariant behind ScansOnDistinctClients and               *)
(* ScanMissesBounded.  A stream that missed scans is at most two turns     *)
(* past the client that is down, counting the turns this run still takes;  *)
(* so it has at least one turn of the next run before it can be met again. *)
(***************************************************************************)
TurnOf(s) == IF pc[s] = "next" THEN 1 ELSE 0
TurnsLeft == TurnOf("delegates") + TurnOf("transfers")

\* The misses of s when the scan under way has ended.
MissesThen(s) ==
    IF pc[s] # "call" THEN misses[s] ELSE IF client[s] = down THEN misses[s] + 1 ELSE 0

MissesBehind(s) ==
    /\ misses[s] <= 2
    /\ pc[s] = "next" => misses[s] = 0 \/ misses[s] + Ahead + TurnsLeft <= 4
    /\ pc[s] # "next" => MissesThen(s) = 0 \/ MissesThen(s) + Ahead + TurnsLeft <= 2

\* Whoever takes the second turn of a run finds the index at the first.
FirstTurnKept ==
    \A s, t \in Streams : pc[s] = "call" /\ pc[t] = "next" => client[s] = lastIdx

ScanInv ==
    /\ TypeOK
    /\ ScansOnDistinctClients
    /\ handler = "app" => \A s \in Streams : misses[s] = 0
    /\ handler = "filterer" =>
          /\ FirstTurnKept
          /\ clients > 2 => \A s \in Streams : MissesBehind(s)

\* The index goes round.
LEMMA NextIdxIs ==
    ASSUME TypeOK
    PROVE  /\ NextIdx \in 0..(clients - 1)
           /\ NextIdx = (IF lastIdx + 1 = clients THEN 0 ELSE lastIdx + 1)
<1>1. PICK n \in Nat \ {0}, i \in Nat : i < n /\ n = clients /\ i = lastIdx
    BY DEF TypeOK
<1>2. (i + 1) % n = (IF i + 1 = n THEN 0 ELSE i + 1)
  <2>1. CASE i + 1 = n
    <3>1. n % n = 0
        OBVIOUS
    <3>2. QED
        BY <2>1, <3>1
  <2>2. CASE i + 1 < n
    <3>1. \A x \in Nat : x < n => x % n = x
        OBVIOUS
    <3>2. QED
        BY <2>2, <3>1
  <2>3. QED
      BY <1>1, <2>1, <2>2
<1>3. QED
    BY <1>1, <1>2 DEF NextIdx

LEMMA RoundsNat ==
    ASSUME TypeOK, NEW t \in 0..4
    PROVE  /\ Rounds(t) \in Nat
           /\ Rounds(0) = 0
           /\ t < 4 => Rounds(t) <= Rounds(3)
           /\ t > 0 => Rounds(t) = Rounds(t - 1) + clients - 1
<1>1. PICK m \in Nat : m = clients - 1
    BY DEF TypeOK
<1>2. t \in {0, 1, 2, 3, 4}
    OBVIOUS
<1>3. QED
    BY <1>1, <1>2 DEF Rounds

LEMMA InitTypeOK == Init => TypeOK
<1> SUFFICES ASSUME Init
             PROVE  TypeOK
    OBVIOUS
<1>1. Rounds(3) \in Nat
    BY DEF Init, Rounds
<1>2. "retry4" \in DOMAIN Trials
    BY DEF Trials
<1>3. handler = "app" => \A q \in Query : pc[q] = "idle"
    BY DEF Init, Users
<1>4. handler \in {"app", "filterer"} /\ lastIdx \in 0..(clients - 1)
    BY DEF Init
<1>5. /\ pc \in [Users -> {"idle", "start", "next", "call", "done"}]
      /\ client \in [Users -> 0..(clients - 1)]
    BY DEF Init
<1>6. /\ kind \in [Query -> DOMAIN Trials]
      /\ tries \in [Query -> 0..4]
      /\ others \in [Query -> 0..Rounds(3)]
      /\ misses \in [Streams -> 0..3]
    BY <1>1, <1>2 DEF Init
<1>7. QED
    BY <1>3, <1>4, <1>5, <1>6 DEF Init, TypeOK

LEMMA TakeTurnTypes ==
    ASSUME TypeOK, NEW u \in Users, TakeTurn(u), UNCHANGED given
    PROVE  /\ lastIdx' \in 0..(clients' - 1)
           /\ others' \in [Query -> 0..Rounds(3)']
<1>1. Rounds(3) \in Nat /\ Rounds(3)' = Rounds(3)
    BY RoundsNat DEF Rounds, given
<1>2. \A q \in Query : Capped(others[q] + 1) \in 0..Rounds(3)
    BY <1>1 DEF Capped, TypeOK
<1>3. QED
    BY <1>1, <1>2, NextIdxIs DEF TakeTurn, TypeOK, given

LEMMA NextTypeOK == TypeOK /\ [Next]_vars => TypeOK'
<1> SUFFICES ASSUME TypeOK, [Next]_vars
             PROVE  TypeOK'
    OBVIOUS
<1>0. /\ given' = given
      /\ Users' = Users /\ Rounds(3)' = Rounds(3) /\ Rounds(3) \in Nat
  <2>1. given' = given
      BY DEF Next, StartQuery, ChooseOnce, ChooseNext, Answered, TryFails, GiveUp,
         RunFilter, FilterEvents, ScanEnds, vars
  <2>2. QED
      BY <2>1, RoundsNat DEF given, Users, Rounds
<1> USE DEF TypeOK, given, Goto
<1>1. ASSUME NEW q \in Query, NEW k \in DOMAIN Trials, StartQuery(q, k)
      PROVE  TypeOK'
  <2>1. Trials[k] > 0
      BY DEF Trials
  <2>2. QED
      BY <1>0, <1>1, <2>1 DEF StartQuery, Users
<1>2. ASSUME NEW q \in Query, ChooseOnce(q) \/ ChooseNext(q)
      PROVE  TypeOK'
  <2>1. q \in Users /\ TakeTurn(q)
      BY <1>2 DEF ChooseOnce, ChooseNext, Users
  <2>2. lastIdx' \in 0..(clients' - 1) /\ others' \in [Query -> 0..Rounds(3)']
      BY <1>0, <2>1, TakeTurnTypes
  <2>3. client' \in [Users -> 0..(clients - 1)]
      BY <1>2, <2>1, NextIdxIs DEF ChooseOnce, ChooseNext, Target
  <2>4. pc' \in [Users -> {"idle", "start", "next", "call", "done"}]
      BY <1>2, <2>1 DEF ChooseOnce, ChooseNext
  <2>5. handler' = "app" =>
            \A p \in Query : pc'[p] \in {"start", "next", "call"} => tries'[p] < Trials[kind'[p]]
      BY <1>2, <2>1 DEF ChooseOnce, ChooseNext, Users
  <2>6. QED
      BY <1>0, <1>2, <2>2, <2>3, <2>4, <2>5 DEF ChooseOnce, ChooseNext
<1>3. ASSUME NEW q \in Query, Answered(q) \/ GiveUp(q)
      PROVE  TypeOK'
    BY <1>0, <1>3 DEF Answered, GiveUp, Users
<1>5. CASE RunFilter
    BY <1>0, <1>5 DEF RunFilter, Users
<1>6. ASSUME NEW s \in Streams, FilterEvents(s)
      PROVE  TypeOK'
  <2>1. s \in Users /\ TakeTurn(s)
      BY <1>6 DEF FilterEvents, Users
  <2>2. lastIdx' \in 0..(clients' - 1) /\ others' \in [Query -> 0..Rounds(3)']
      BY <1>0, <2>1, TakeTurnTypes
  <2>3. QED
      BY <1>0, <1>6, <2>1, <2>2, NextIdxIs DEF FilterEvents
<1>7. ASSUME NEW s \in Streams, ScanEnds(s)
      PROVE  TypeOK'
  <2>1. misses' \in [Streams -> 0..3]
      BY <1>7 DEF ScanEnds
  <2>2. QED
      BY <1>0, <1>7, <2>1 DEF ScanEnds, Users
<1>8. CASE UNCHANGED vars
    BY <1>0, <1>8 DEF vars
<1>9. ASSUME NEW q \in Query, TryFails(q)
      PROVE  TypeOK'
  <2>1. Trials[kind[q]] \in 0..4
      BY <1>9 DEF TryFails, Trials
  <2>2. QED
      BY <1>0, <1>9, <2>1 DEF TryFails, Users
<1>10. QED
    BY <1>1, <1>2, <1>3, <1>5, <1>6, <1>7, <1>8, <1>9 DEF Next

\* The index stays that of a client, and no query is tried more often than it
\* may be.
THEOREM TypeCorrect == Spec => []TypeOK
BY InitTypeOK, NextTypeOK, PTL DEF Spec

-----------------------------------------------------------------------------
(***************************************************************************)
(* DefeatedOnlyByOthers                                                    *)
(***************************************************************************)

\* A turn moves the index one client further from the one that is down, or
\* onto it.
LEMMA AheadMoves ==
    ASSUME TypeOK, lastIdx' = NextIdx, UNCHANGED given
    PROVE  /\ Ahead \in 0..(clients - 1) /\ Ahead' \in 0..(clients - 1)
           /\ Ahead' <= Ahead + 1
           /\ NextIdx = down => Ahead' = 0 /\ Ahead = clients - 1
<1>1. PICK n \in Nat \ {0} : n = clients
    BY DEF TypeOK
<1>2. PICK i \in 0..(n - 1), d \in 0..(n - 1) : i = lastIdx /\ d = down
    BY <1>1 DEF TypeOK
<1>3. PICK j \in 0..(n - 1) : j = lastIdx' /\ j = NextIdx /\ j = (IF i + 1 = n THEN 0 ELSE i + 1)
    BY <1>1, <1>2, NextIdxIs
<1>4. Ahead = (IF i >= d THEN i - d ELSE i - d + n)
    BY <1>1, <1>2 DEF Ahead
<1>5. Ahead' = (IF j >= d THEN j - d ELSE j - d + n)
    BY <1>1, <1>2, <1>3 DEF Ahead, given
<1>6. QED
    BY <1>1, <1>2, <1>3, <1>4, <1>5

LEMMA CappedFacts ==
    ASSUME TypeOK, NEW x \in Nat, NEW y \in Nat
    PROVE  /\ Capped(x) \in Nat /\ Capped(x) <= x
           /\ x <= y => Capped(x) <= Capped(y)
           /\ x <= Rounds(3) => Capped(x) = x
           /\ y >= Capped(x) => Capped(y + 1) >= Capped(x + 1)
<1>1. PICK r \in Nat : r = Rounds(3)
    BY RoundsNat
<1>2. QED
    BY <1>1 DEF Capped

LEMMA InitIInv == Init => IInv
<1> SUFFICES ASSUME Init
             PROVE  IInv
    OBVIOUS
<1>1. handler = "app" => \A q \in Query : pc[q] = "idle"
    BY DEF Init, Users
<1>2. QED
    BY <1>1, InitTypeOK DEF IInv, TurnsCounted

\* The turn of another user.
LEMMA OthersTurn ==
    ASSUME IInv, TypeOK', handler = "app", NEW q \in Query, NEW u, u # q,
           kind[q] # "holders", TakeTurn(u), UNCHANGED given,
           pc'[q] = pc[q], client'[q] = client[q], tries'[q] = tries[q], kind'[q] = kind[q]
    PROVE  TurnsCounted(q)'
<1> USE DEF IInv
<1>1. TurnsCounted(q)
    OBVIOUS
<1>2. /\ Ahead \in 0..(clients - 1) /\ Ahead' \in 0..(clients - 1)
      /\ Ahead' <= Ahead + 1
    BY AheadMoves DEF TakeTurn
<1>3. \A t : Rounds(t)' = Rounds(t)
    BY DEF Rounds, given
<1>4. \A x : Capped(x)' = Capped(x)
    BY <1>3 DEF Capped
<1>5. PICK o \in Nat, a \in Nat, b \in Nat :
          o = others[q] /\ a = Ahead /\ b = Ahead' /\ b <= a + 1
    BY <1>2, RoundsNat DEF TypeOK
<1>6. CASE pc[q] = "next" \/ pc[q] = "call"
  <2>1. others'[q] = Capped(o + 1)
      BY <1>5, <1>6 DEF TakeTurn
  <2>2. ASSUME NEW r \in Nat, o >= Capped(r + a)
        PROVE  others'[q] >= Capped(r + b)
    <3>1. Capped(o + 1) >= Capped(r + a + 1)
        BY <2>2, CappedFacts
    <3>2. Capped(r + a + 1) >= Capped(r + b)
        BY <1>5, CappedFacts
    <3>3. Capped(o + 1) \in Nat /\ Capped(r + a + 1) \in Nat /\ Capped(r + b) \in Nat
        BY CappedFacts
    <3>4. QED
        BY <2>1, <3>1, <3>2, <3>3
  <2>3. tries[q] \in 0..4 /\ Rounds(tries[q]) \in Nat
        /\ (tries[q] > 0 => Rounds(tries[q] - 1) \in Nat)
      BY RoundsNat DEF TypeOK
  <2>4. pc[q] = "next" /\ tries[q] > 0 =>
            others'[q] >= Capped(Rounds(tries[q] - 1) + b)
      BY <1>1, <1>5, <2>2, <2>3 DEF TurnsCounted
  <2>5. pc[q] = "call" /\ client[q] = down => others'[q] >= Capped(Rounds(tries[q]) + b)
      BY <1>1, <1>5, <2>2, <2>3 DEF TurnsCounted
  <2>6. QED
      BY <1>3, <1>4, <1>5, <1>6, <2>4, <2>5 DEF TurnsCounted, given
<1>7. CASE pc[q] = "done"
  <2>1. others'[q] = Capped(o + 1)
      BY <1>5, <1>7 DEF TakeTurn
  <2>2. Trials[kind[q]] \in 1..4
      BY DEF TypeOK, Trials
  <2>3. PICK r \in Nat : r = Rounds(Trials[kind[q]] - 1) /\ r <= Rounds(3)
      BY <2>2, RoundsNat
  <2>4. o >= r
      BY <1>1, <1>5, <1>7, <2>3 DEF TurnsCounted
  <2>5. Capped(o + 1) >= Capped(r) /\ Capped(r) = r
      BY <2>3, <2>4, CappedFacts
  <2>6. QED
      BY <1>3, <1>7, <2>1, <2>3, <2>5 DEF TurnsCounted
<1>8. CASE pc[q] \in {"idle", "start"}
    BY <1>8 DEF TurnsCounted
<1>9. QED
    BY <1>6, <1>7, <1>8 DEF TypeOK, Users

\* A step that leaves q and the index alone.
LEMMA OthersStep ==
    ASSUME NEW q \in Query, TurnsCounted(q), UNCHANGED <<given, lastIdx, others>>,
           pc'[q] = pc[q], client'[q] = client[q], tries'[q] = tries[q], kind'[q] = kind[q]
    PROVE  TurnsCounted(q)'
BY DEF TurnsCounted, Capped, Rounds, Ahead, given

\* q's own turn: it meets the client that is down again only when the index
\* has gone round.
LEMMA OwnTurn ==
    ASSUME IInv, TypeOK', handler = "app", NEW q \in Query, kind[q] # "holders", ChooseNext(q)
    PROVE  TurnsCounted(q)'
<1> USE DEF IInv
<1>1. pc[q] = "next" /\ pc'[q] = "call" /\ tries' = tries /\ UNCHANGED given
    BY DEF ChooseNext, Goto, TypeOK, Users
<1>2. client'[q] = NextIdx /\ others'[q] = others[q] /\ lastIdx' = NextIdx
    BY DEF ChooseNext, TakeTurn, Target, TypeOK, Users
<1>3. \A t : Rounds(t)' = Rounds(t)
    BY <1>1 DEF Rounds, given
<1>4. \A x : Capped(x)' = Capped(x)
    BY <1>3 DEF Capped
<1>5. SUFFICES ASSUME NextIdx = down
               PROVE  others[q] >= Capped(Rounds(tries[q]) + 0)
    BY <1>1, <1>2, <1>3, <1>4, AheadMoves DEF TurnsCounted, given
<1>6. Ahead = clients - 1 /\ clients - 1 \in Nat
    BY <1>1, <1>2, <1>5, AheadMoves DEF TypeOK
<1>7. tries[q] \in 0..4 /\ Rounds(tries[q]) \in Nat /\ others[q] \in Nat
    BY RoundsNat DEF TypeOK
<1>8. CASE tries[q] = 0
  <2>1. Rounds(0) = 0
      BY RoundsNat
  <2>2. Capped(0) <= 0 /\ Capped(0) \in Nat
      BY CappedFacts
  <2>3. QED
      BY <1>7, <1>8, <2>1, <2>2
<1>9. CASE tries[q] > 0
  <2>1. others[q] >= Capped(Rounds(tries[q] - 1) + Ahead)
      BY <1>1, <1>9 DEF TurnsCounted
  <2>2. Rounds(tries[q]) = Rounds(tries[q] - 1) + clients - 1 /\ Rounds(tries[q] - 1) \in Nat
      BY <1>7, <1>9, RoundsNat
  <2>3. Rounds(tries[q] - 1) + Ahead = Rounds(tries[q]) + 0
      BY <1>6, <1>7, <2>2
  <2>4. QED
      BY <2>1, <2>3
<1>10. QED
    BY <1>7, <1>8, <1>9

LEMMA OwnFailure ==
    ASSUME IInv, TypeOK', handler = "app", NEW q \in Query, kind[q] # "holders", TryFails(q)
    PROVE  TurnsCounted(q)'
<1> USE DEF IInv
<1>1. /\ pc[q] = "call" /\ client[q] = down
      /\ tries'[q] = tries[q] + 1
      /\ UNCHANGED <<given, lastIdx, kind, others>>
      /\ pc'[q] = IF tries'[q] < Trials[kind[q]] THEN "next" ELSE "done"
    BY DEF TryFails, Goto, TypeOK, Users
<1>2. others[q] >= Capped(Rounds(tries[q]) + Ahead)
    BY <1>1 DEF TurnsCounted
<1>3. /\ \A x : Rounds(x)' = Rounds(x) /\ Capped(x)' = Capped(x)
      /\ Ahead' = Ahead
    BY <1>1 DEF Capped, Rounds, Ahead, given
<1>4. PICK t \in 0..3 : t = tries[q] /\ t + 1 = tries'[q]
    BY <1>1 DEF TypeOK
<1>5. CASE pc'[q] = "next"
  <2>1. tries'[q] - 1 = tries[q] /\ others'[q] = others[q]
      BY <1>1, <1>4
  <2>2. others'[q] >= Capped(Rounds(tries'[q] - 1) + Ahead')
      BY <1>2, <1>3, <2>1
  <2>3. QED
      BY <1>3, <1>5, <2>2 DEF TurnsCounted
<1>6. CASE pc'[q] = "done"
  <2>1. Trials[kind[q]] \in 0..4
      BY DEF TypeOK, Trials
  <2>2. t = Trials[kind[q]] - 1
      BY <1>1, <1>4, <1>6, <2>1 DEF TypeOK
  <2>3. PICK r \in Nat, a \in Nat : r = Rounds(t) /\ a = Ahead /\ r <= Rounds(3)
    <3>1. t \in 0..4 /\ t < 4
        BY <1>4
    <3>2. Rounds(t) \in Nat /\ Rounds(t) <= Rounds(3)
        BY <3>1, RoundsNat
    <3>3. Ahead \in Nat
        BY DEF TypeOK, Ahead
    <3>4. QED
        BY <3>2, <3>3
  <2>4. Capped(r + a) >= Capped(r) /\ Capped(r) = r /\ Capped(r + a) \in Nat
      BY <2>3, CappedFacts
  <2>5. others[q] >= r
      BY <1>2, <1>4, <2>3, <2>4, RoundsNat DEF TypeOK
  <2>6. others'[q] >= Rounds(Trials[kind[q]] - 1)'
      BY <1>1, <2>2, <2>3, <2>5 DEF Rounds, given
  <2>7. QED
      BY <1>1, <1>6, <2>6 DEF TurnsCounted
<1>7. QED
    BY <1>1, <1>5, <1>6

LEMMA NextIInv == IInv /\ [Next]_vars => IInv'
<1> SUFFICES ASSUME IInv, [Next]_vars
             PROVE  IInv'
    OBVIOUS
<1>0. TypeOK /\ TypeOK'
    BY NextTypeOK DEF IInv
<1>1. UNCHANGED given
    BY DEF Next, StartQuery, ChooseOnce, ChooseNext, Answered, TryFails, GiveUp,
       RunFilter, FilterEvents, ScanEnds, vars
<1> SUFFICES ASSUME handler = "app", NEW q \in Query
             PROVE  /\ pc'[q] = "start" => kind'[q] = "holders"
                    /\ kind'[q] # "holders" => TurnsCounted(q)'
    BY <1>0, <1>1 DEF IInv, given
<1>2. /\ pc[q] = "start" => kind[q] = "holders"
      /\ kind[q] # "holders" => TurnsCounted(q)
    BY DEF IInv
<1>3. ASSUME NEW p \in Query, p # q,
             \/ \E k \in DOMAIN Trials : StartQuery(p, k)
             \/ Answered(p) \/ TryFails(p) \/ GiveUp(p)
      PROVE  /\ pc'[q] = "start" => kind'[q] = "holders"
             /\ kind'[q] # "holders" => TurnsCounted(q)'
  <2>1. /\ pc'[q] = pc[q] /\ client'[q] = client[q] /\ tries'[q] = tries[q]
        /\ kind'[q] = kind[q] /\ others'[q] = others[q] /\ lastIdx' = lastIdx
      BY <1>0, <1>3 DEF StartQuery, Answered, TryFails, GiveUp, Goto, TypeOK, Users
  <2>2. QED
      BY <1>1, <1>2, <2>1 DEF TurnsCounted, Capped, Rounds, Ahead, given
<1>4. ASSUME NEW p \in Query, p # q, ChooseOnce(p) \/ ChooseNext(p)
      PROVE  /\ pc'[q] = "start" => kind'[q] = "holders"
             /\ kind'[q] # "holders" => TurnsCounted(q)'
  <2>1. /\ pc'[q] = pc[q] /\ client'[q] = client[q] /\ tries'[q] = tries[q]
        /\ kind'[q] = kind[q] /\ TakeTurn(p)
      BY <1>0, <1>4 DEF ChooseOnce, ChooseNext, Goto, TypeOK, Users
  <2>2. QED
      BY <1>0, <1>1, <1>2, <1>4, <2>1, OthersTurn
<1>5. ASSUME NEW k \in DOMAIN Trials, StartQuery(q, k)
      PROVE  /\ pc'[q] = "start" => kind'[q] = "holders"
             /\ kind'[q] # "holders" => TurnsCounted(q)'
    BY <1>0, <1>5 DEF StartQuery, Goto, TypeOK, Users, TurnsCounted
<1>6. CASE ChooseOnce(q) \/ ChooseNext(q)
  <2>1. kind' = kind /\ pc'[q] # "start"
      BY <1>0, <1>6 DEF ChooseOnce, ChooseNext, Goto, TypeOK, Users
  <2>2. ChooseOnce(q) => kind[q] = "holders"
      BY <1>2 DEF ChooseOnce
  <2>3. QED
      BY <1>0, <1>6, <2>1, <2>2, OwnTurn
<1>7. CASE Answered(q) \/ GiveUp(q)
    BY <1>0, <1>7 DEF Answered, GiveUp, Goto, TypeOK, Users, TurnsCounted
<1>8. CASE TryFails(q)
  <2>1. kind' = kind /\ pc'[q] # "start"
      BY <1>0, <1>8 DEF TryFails, Goto, TypeOK, Users
  <2>2. QED
      BY <1>0, <1>8, <2>1, OwnFailure
<1>9. CASE UNCHANGED vars
    BY <1>2, <1>9, OthersStep DEF vars, given
<1>10. QED
    BY <1>3, <1>4, <1>5, <1>6, <1>7, <1>8, <1>9
       DEF Next, RunFilter, FilterEvents, ScanEnds

\* Retrying fails over, for any number of clients and concurrent queries: a
\* query gives up on one broken client only if others took all the turns in
\* between.
THEOREM RetryingFailsOver == Spec => []DefeatedOnlyByOthers
<1>1. IInv => DefeatedOnlyByOthers
    BY DEF IInv, DefeatedOnlyByOthers, TurnsCounted
<1>2. QED
    BY <1>1, InitIInv, NextIInv, PTL DEF Spec

-----------------------------------------------------------------------------
(***************************************************************************)
(* The scans of the two streams                                            *)
(***************************************************************************)

\* The distance from the client that is down goes round like the index.
LEMMA AheadGoesRound ==
    ASSUME TypeOK, lastIdx' = NextIdx, UNCHANGED given
    PROVE  /\ Ahead \in 0..(clients - 1)
           /\ Ahead' = (IF Ahead + 1 = clients THEN 0 ELSE Ahead + 1)
           /\ NextIdx = down <=> Ahead' = 0
<1>1. PICK n \in Nat \ {0} : n = clients
    BY DEF TypeOK
<1>2. PICK i \in 0..(n - 1), d \in 0..(n - 1) : i = lastIdx /\ d = down
    BY <1>1 DEF TypeOK
<1>3. PICK j \in 0..(n - 1) : j = lastIdx' /\ j = NextIdx /\ j = (IF i + 1 = n THEN 0 ELSE i + 1)
    BY <1>1, <1>2, NextIdxIs
<1>4. Ahead = (IF i >= d THEN i - d ELSE i - d + n)
    BY <1>1, <1>2 DEF Ahead
<1>5. Ahead' = (IF j >= d THEN j - d ELSE j - d + n)
    BY <1>1, <1>2, <1>3 DEF Ahead, given
<1>6. QED
    BY <1>1, <1>2, <1>3, <1>4, <1>5

LEMMA TurnsLeftOf ==
    ASSUME NEW s \in Streams, NEW t \in Streams, s # t
    PROVE  TurnsLeft = TurnOf(s) + TurnOf(t)
BY DEF TurnsLeft, TurnOf, Streams

\* The scans of a run start: nobody is at a client.
LEMMA RunScanInv ==
    ASSUME ScanInv, TypeOK', RunFilter
    PROVE  ScanInv'
<1> USE DEF ScanInv, RunFilter
<1>1. UNCHANGED given /\ clients' = clients /\ handler' = handler
    BY DEF given
<1>2. \A s \in Streams : pc[s] = "idle" /\ pc'[s] = "next"
    OBVIOUS
<1>3. Ahead' = Ahead
    BY <1>1 DEF Ahead, given
<1>4. TurnsLeft = 0 /\ TurnsLeft' = 2
    BY <1>2 DEF TurnsLeft, TurnOf, Streams
<1>5. ASSUME clients > 2, NEW s \in Streams
      PROVE  MissesBehind(s)'
  <2>1. MissesBehind(s) /\ misses' = misses
      BY <1>5
  <2>2. PICK m \in 0..3 : m = misses[s]
      BY DEF TypeOK
  <2>3. Ahead \in Int
      BY DEF Ahead, TypeOK
  <2>4. QED
      BY <1>2, <1>3, <1>4, <2>1, <2>2, <2>3 DEF MissesBehind, MissesThen
<1>6. FirstTurnKept' /\ ScansOnDistinctClients'
    BY <1>2 DEF FirstTurnKept, ScansOnDistinctClients, Streams
<1>7. QED
    BY <1>1, <1>5, <1>6

\* A stream takes its turn.
LEMMA TurnScanInv ==
    ASSUME ScanInv, TypeOK', NEW s \in Streams, FilterEvents(s)
    PROVE  ScanInv'
<1> USE DEF ScanInv
<1>1. /\ UNCHANGED given /\ clients' = clients /\ handler' = handler /\ down' = down
      /\ handler = "filterer" /\ misses' = misses
    BY DEF FilterEvents, given
<1>2. /\ pc[s] = "next" /\ pc'[s] = "call" /\ client'[s] = NextIdx /\ lastIdx' = NextIdx
      /\ \A t \in Streams : t # s => pc'[t] = pc[t] /\ client'[t] = client[t]
    BY <1>1 DEF FilterEvents, TakeTurn, Goto, TypeOK, Users
<1>3. PICK t \in Streams : t # s /\ Streams = {s, t}
    BY DEF Streams
<1>4. PICK n \in Nat \ {0}, a \in Nat :
          n = clients /\ a = Ahead /\ a < n /\ Ahead' = (IF a + 1 = n THEN 0 ELSE a + 1)
    BY <1>1, <1>2, AheadGoesRound DEF TypeOK
<1>5. NextIdx = down <=> Ahead' = 0
    BY <1>1, <1>2, AheadGoesRound
<1>6. TurnOf(s) = 1 /\ TurnOf(s)' = 0 /\ TurnOf(t)' = TurnOf(t) /\ TurnOf(t) \in {0, 1}
    BY <1>2, <1>3 DEF TurnOf
<1>7. PICK w \in {0, 1} : w = TurnOf(t) /\ TurnsLeft = w + 1 /\ TurnsLeft' = w
  <2>1. TurnsLeft = TurnOf(s) + TurnOf(t)
      BY <1>3, TurnsLeftOf
  <2>2. TurnsLeft' = TurnOf(s)' + TurnOf(t)'
      BY <1>3 DEF TurnsLeft, TurnOf, Streams
  <2>3. QED
      BY <1>6, <2>1, <2>2
<1>8. ASSUME n > 2
      PROVE  MissesBehind(s)'
  <2>1. MissesBehind(s)
      BY <1>1, <1>4, <1>8
  <2>2. PICK m \in 0..3 : m = misses[s]
      BY DEF TypeOK
  <2>3. m <= 2 /\ (m = 0 \/ m + a + w + 1 <= 4)
      BY <1>2, <1>4, <1>7, <2>1, <2>2 DEF MissesBehind
  <2>4. MissesThen(s)' = IF Ahead' = 0 THEN m + 1 ELSE 0
      BY <1>1, <1>2, <1>5, <2>2 DEF MissesThen
  <2>5. MissesThen(s)' = 0 \/ MissesThen(s)' + Ahead' + w <= 2
      BY <1>4, <1>7, <1>8, <2>2, <2>3, <2>4
  <2>6. QED
      BY <1>1, <1>2, <1>7, <2>2, <2>3, <2>5 DEF MissesBehind
<1>9. ASSUME n > 2
      PROVE  MissesBehind(t)'
  <2>1. MissesBehind(t)
      BY <1>1, <1>4, <1>9
  <2>2. PICK m \in 0..3 : m = misses[t] /\ m = misses'[t]
      BY <1>1 DEF TypeOK
  <2>3. CASE pc[t] = "next"
    <3>1. m <= 2 /\ (m = 0 \/ m + a + 2 <= 4) /\ w = 1
        BY <1>4, <1>7, <2>1, <2>2, <2>3 DEF MissesBehind, TurnOf
    <3>2. m = 0 \/ m + Ahead' + 1 <= 4
        BY <1>4, <1>9, <2>2, <3>1
    <3>3. QED
        BY <1>2, <1>3, <1>7, <2>2, <2>3, <3>1, <3>2 DEF MissesBehind
  <2>4. CASE pc[t] # "next"
    <3>1. MissesThen(t)' = MissesThen(t)
        BY <1>1, <1>2, <1>3 DEF MissesThen
    <3>2. PICK k \in 0..4 : k = MissesThen(t)
        BY <2>2 DEF MissesThen
    <3>3. w = 0 /\ m <= 2 /\ (k = 0 \/ k + a + 1 <= 2)
        BY <1>4, <1>7, <2>1, <2>2, <2>4, <3>2 DEF MissesBehind, TurnOf
    <3>4. k = 0 \/ k + Ahead' + w <= 2
        BY <1>4, <1>9, <3>2, <3>3
    <3>5. QED
        BY <1>2, <1>3, <1>7, <2>2, <2>4, <3>1, <3>2, <3>3, <3>4 DEF MissesBehind
  <2>5. QED
      BY <2>3, <2>4
<1>10. FirstTurnKept'
    BY <1>2, <1>3 DEF FirstTurnKept
<1>11. ScansOnDistinctClients'
  <2>1. clients > 1 => NextIdx # lastIdx
      BY NextIdxIs DEF TypeOK
  <2>2. pc[t] = "call" => client[t] = lastIdx
      BY <1>1, <1>2 DEF FirstTurnKept
  <2>3. clients > 1 /\ pc'[t] = "call" => client'[s] # client'[t]
      BY <1>2, <1>3, <2>1, <2>2
  <2>4. QED
      BY <1>1, <1>3, <2>3 DEF ScansOnDistinctClients, Streams
<1>12. QED
    BY <1>1, <1>3, <1>4, <1>8, <1>9, <1>10, <1>11

\* A scan ends; if it was at the client that is down it is lost.
LEMMA EndScanInv ==
    ASSUME ScanInv, TypeOK', NEW s \in Streams, ScanEnds(s)
    PROVE  ScanInv'
<1> USE DEF ScanInv
<1>1. /\ UNCHANGED <<given, lastIdx, client>> /\ clients' = clients /\ handler' = handler
      /\ handler = "filterer"
    BY DEF ScanEnds, given
<1>2. /\ pc[s] = "call" /\ pc'[s] = "idle"
      /\ \A t \in Streams : t # s => pc'[t] = pc[t] /\ misses'[t] = misses[t]
    BY <1>1 DEF ScanEnds, Goto, TypeOK, Users
<1>3. Ahead' = Ahead /\ Ahead \in Nat
    BY <1>1 DEF Ahead, given, TypeOK
<1>4. TurnsLeft' = TurnsLeft /\ TurnsLeft \in Nat
    BY <1>2 DEF TurnsLeft, TurnOf, Streams
<1>5. ASSUME clients > 2
      PROVE  MissesBehind(s)'
  <2>1. PICK m \in 0..3 : m = misses[s] /\ m <= 2
      BY <1>1, <1>5 DEF TypeOK, MissesBehind
  <2>2. misses'[s] = MissesThen(s)
      BY <1>2, <2>1 DEF ScanEnds, MissesThen, TypeOK
  <2>3. PICK k \in 0..3 : k = misses'[s]
      BY DEF TypeOK
  <2>4. k = 0 \/ k + Ahead + TurnsLeft <= 2
      BY <1>1, <1>2, <1>5, <2>2, <2>3 DEF MissesBehind
  <2>5. MissesThen(s)' = k
      BY <1>2, <2>3 DEF MissesThen
  <2>6. QED
      BY <1>2, <1>3, <1>4, <2>3, <2>4, <2>5 DEF MissesBehind
<1>6. ASSUME clients > 2, NEW t \in Streams, t # s
      PROVE  MissesBehind(t)'
    BY <1>1, <1>2, <1>3, <1>4, <1>6 DEF MissesBehind, MissesThen, given
<1>7. FirstTurnKept'
    BY <1>1, <1>2 DEF FirstTurnKept
<1>8. ScansOnDistinctClients'
    BY <1>1, <1>2 DEF ScansOnDistinctClients, Streams
<1>9. QED
    BY <1>1, <1>5, <1>6, <1>7, <1>8

LEMMA InitScanInv == Init => ScanInv
<1> SUFFICES ASSUME Init
             PROVE  ScanInv
    OBVIOUS
<1>1. \A s \in Streams : misses[s] = 0
    BY DEF Init
<1>2. handler = "filterer" => \A s \in Streams : pc[s] = "idle"
    BY DEF Init, Users
<1>3. handler = "filterer" => FirstTurnKept /\ ScansOnDistinctClients
    BY <1>2 DEF FirstTurnKept, ScansOnDistinctClients, Streams
<1>4. handler = "filterer" => \A s \in Streams : MissesBehind(s)
    BY <1>1, <1>2 DEF MissesBehind, MissesThen
<1>5. handler # "filterer" => ScansOnDistinctClients
    BY DEF ScansOnDistinctClients
<1>6. QED
    BY <1>1, <1>3, <1>4, <1>5, InitTypeOK DEF ScanInv

LEMMA NextScanInv == ScanInv /\ [Next]_vars => ScanInv'
<1> SUFFICES ASSUME ScanInv, [Next]_vars
             PROVE  ScanInv'
    OBVIOUS
<1>1. TypeOK /\ TypeOK'
    BY NextTypeOK DEF ScanInv
<1>2. ASSUME handler = "app", handler' = handler, misses' = misses
      PROVE  ScanInv'
    BY <1>1, <1>2 DEF ScanInv, ScansOnDistinctClients
<1>3. CASE \E q \in Query : \/ \E k \in DOMAIN Trials : StartQuery(q, k)
                            \/ ChooseOnce(q) \/ ChooseNext(q)
                            \/ Answered(q) \/ TryFails(q) \/ GiveUp(q)
  <2>1. handler = "app" /\ handler' = handler /\ misses' = misses
      BY <1>3 DEF StartQuery, ChooseOnce, ChooseNext, Answered, TryFails, GiveUp, given
  <2>2. QED
      BY <1>2, <2>1
<1>4. CASE UNCHANGED vars
    BY <1>1, <1>4 DEF vars, given, ScanInv, ScansOnDistinctClients, FirstTurnKept,
       MissesBehind, MissesThen, TurnsLeft, TurnOf, Ahead
<1>5. QED
    BY <1>1, <1>3, <1>4, RunScanInv, TurnScanInv, EndScanInv DEF Next

\* The two scans of a run never use the same client, if there are two: the
\* turns of one run follow each other, whoever comes first.
THEOREM ScansUseDistinctClients == Spec => []ScansOnDistinctClients
<1>1. ScanInv => ScansOnDistinctClients
    BY DEF ScanInv
<1>2. QED
    BY <1>1, InitScanInv, NextScanInv, PTL DEF Spec

\* With any number of clients above two, the one that is down costs neither
\* stream more than two scans in a row.
THEOREM ScansAreNotStarved == Spec => []ScanMissesBounded
<1>1. ScanInv => ScanMissesBounded
    BY DEF ScanInv, TypeOK, MissesBehind, ScanMissesBounded, Streams
<1>2. QED
    BY <1>1, InitScanInv, NextScanInv, PTL DEF Spec
=============================================================================
