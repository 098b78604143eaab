------------------------------ MODULE FiniteSums ------------------------------
(***************************************************************************)
(* Facts about the sum of a function's values over a finite set, as the    *)
(* community modules' folds define it.  A fold is a recursive function,    *)
(* hence a choice: that one satisfies its equation, and everything else    *)
(* here, is proved from the smallest set that would refute it.             *)
(***************************************************************************)
EXTENDS Integers, FiniteSets, Functions, FiniteSetTheorems, TLAPS

SumOn(f, S) == FoldFunctionOnSet(LAMBDA x, y : x + y, 0, f, S)

\* The element the fold takes first.
First(T) == CHOOSE x \in T : TRUE

\* g satisfies the equation of the fold's recursive function.
Sums(g, f, S) ==
    g = [T \in SUBSET S |-> IF T = {} THEN 0 ELSE f[First(T)] + g[T \ {First(T)}]]

SumsOf(f, S) == CHOOSE g : Sums(g, f, S)

LEMMA FoldIsSumOn ==
    ASSUME NEW f
    PROVE  FoldFunction(LAMBDA x, y : x + y, 0, f) = SumOn(f, DOMAIN f)
BY DEF SumOn, FoldFunction

LEMMA SumOnIsChosen ==
    ASSUME NEW f, NEW S
    PROVE  SumOn(f, S) = SumsOf(f, S)[S]
BY DEF SumOn, FoldFunctionOnSet, MapThenFoldSet, SumsOf, Sums, First

\* A set of subsets of a finite set has a smallest one.
LEMMA SmallestSubset ==
    ASSUME NEW S, IsFiniteSet(S), NEW D \in SUBSET (SUBSET S), D # {}
    PROVE  \E T \in D : \A U \in D : U \subseteq T => U = T
<1>1. IsWellFoundedOn(StrictSubsetOrdering(S), FiniteSubsetsOf(S))
    BY FS_StrictSubsetOrderingWellFounded
<1>2. D \subseteq FiniteSubsetsOf(S)
  <2>1. FiniteSubsetsOf(S) = SUBSET S
      BY FS_FiniteSubsetsOfFinite
  <2>2. QED
      BY <2>1
<1>3. PICK T \in D : \A U \in D : ~(<<U, T>> \in StrictSubsetOrdering(S))
    BY <1>1, <1>2, WFMin, Zenon
<1>4. ASSUME NEW U \in D, U \subseteq T, U # T
      PROVE  <<U, T>> \in StrictSubsetOrdering(S)
    BY <1>4 DEF StrictSubsetOrdering
<1>5. \A U \in D : U \subseteq T => U = T
    BY <1>3, <1>4
<1>6. QED
    BY <1>5

LEMMA FirstIn ==
    ASSUME NEW T, T # {}
    PROVE  First(T) \in T
BY DEF First

-----------------------------------------------------------------------------
(***************************************************************************)
(* The recursive function                                                  *)
(***************************************************************************)

LEMMA SumsUnique ==
    ASSUME NEW f, NEW S, NEW T, IsFiniteSet(S), NEW g, NEW h, Sums(g, f, S), Sums(h, f, T),
           NEW U \in SUBSET S, U \subseteq T
    PROVE  g[U] = h[U]
<1> DEFINE D == {V \in SUBSET S : V \subseteq T /\ g[V] # h[V]}
<1>1. SUFFICES ASSUME D # {}
               PROVE  FALSE
    OBVIOUS
<1>2. PICK V \in D : \A W \in D : W \subseteq V => W = V
  <2>1. D \in SUBSET (SUBSET S)
      OBVIOUS
  <2> HIDE DEF D
  <2>2. QED
      BY <1>1, <2>1, SmallestSubset
<1>3. /\ g[V] = IF V = {} THEN 0 ELSE f[First(V)] + g[V \ {First(V)}]
      /\ h[V] = IF V = {} THEN 0 ELSE f[First(V)] + h[V \ {First(V)}]
    BY DEF Sums
<1>4. V # {}
    BY <1>2, <1>3
<1>5. First(V) \in V
    BY <1>4, FirstIn
<1>6. V \ {First(V)} \notin D
    BY <1>2, <1>5
<1>7. g[V \ {First(V)}] = h[V \ {First(V)}]
    BY <1>6
<1>8. QED
    BY <1>2, <1>3, <1>7

LEMMA SumsExist ==
    ASSUME NEW f, NEW S, IsFiniteSet(S)
    PROVE  Sums(SumsOf(f, S), f, S)
<1> DEFINE D == {T \in SUBSET S : ~Sums(SumsOf(f, T), f, T)}
<1>1. SUFFICES ASSUME D # {}
               PROVE  FALSE
    OBVIOUS
<1>2. PICK T \in D : \A U \in D : U \subseteq T => U = T
  <2>1. D \in SUBSET (SUBSET S)
      OBVIOUS
  <2> HIDE DEF D
  <2>2. QED
      BY <1>1, <2>1, SmallestSubset
<1>3. \A U \in SUBSET T : U # T => Sums(SumsOf(f, U), f, U)
    BY <1>2
<1> DEFINE g == [U \in SUBSET T |->
                    IF U = {} THEN 0
                    ELSE f[First(U)] + SumsOf(f, U \ {First(U)})[U \ {First(U)}]]
<1>4. ASSUME NEW V \in SUBSET T, V # T
      PROVE  g[V] = SumsOf(f, V)[V]
  <2>1. SumsOf(f, V)[V] = IF V = {} THEN 0
                          ELSE f[First(V)] + SumsOf(f, V)[V \ {First(V)}]
      BY <1>3, <1>4 DEF Sums
  <2>2. CASE V = {}
      BY <2>1, <2>2
  <2>3. CASE V # {}
    <3> DEFINE W == V \ {First(V)}
    <3>1. First(V) \in V
        BY <2>3, FirstIn
    <3>2. W \in SUBSET T /\ W # T /\ W \in SUBSET V
        BY <3>1
    <3>3. Sums(SumsOf(f, W), f, W) /\ Sums(SumsOf(f, V), f, V)
        BY <1>3, <1>4, <3>2
    <3>4. IsFiniteSet(W)
        BY <1>2, <3>2, FS_Subset
    <3>5. SumsOf(f, W)[W] = SumsOf(f, V)[W]
      <4> HIDE DEF W
      <4>1. QED
          BY <3>2, <3>3, <3>4, SumsUnique
    <3>6. g[V] = f[First(V)] + SumsOf(f, W)[W]
        BY <2>3
    <3>7. QED
        BY <2>1, <2>3, <3>5, <3>6
  <2>4. QED
      BY <2>2, <2>3
<1>5. Sums(g, f, T)
  <2>1. ASSUME NEW U \in SUBSET T
        PROVE  g[U] = IF U = {} THEN 0 ELSE f[First(U)] + g[U \ {First(U)}]
    <3>1. CASE U = {}
        BY <3>1
    <3>2. CASE U # {}
      <4>1. U \ {First(U)} \in SUBSET T /\ U \ {First(U)} # T
          BY <3>2, FirstIn
      <4>2. g[U \ {First(U)}] = SumsOf(f, U \ {First(U)})[U \ {First(U)}]
          BY <1>4, <4>1
      <4>3. QED
          BY <3>2, <4>2
    <3>3. QED
        BY <3>1, <3>2
  <2> HIDE DEF g
  <2>2. QED
    <3>1. g = [U \in SUBSET T |-> g[U]]
        BY DEF g
    <3>2. [U \in SUBSET T |-> g[U]] =
          [U \in SUBSET T |-> IF U = {} THEN 0 ELSE f[First(U)] + g[U \ {First(U)}]]
        BY <2>1
    <3>3. QED
        BY <3>1, <3>2 DEF Sums
<1>6. Sums(SumsOf(f, T), f, T)
  <2> HIDE DEF g
  <2>1. \E x : Sums(x, f, T)
      BY <1>5
  <2>2. QED
      BY <2>1 DEF SumsOf
<1>7. QED
    BY <1>2, <1>6

LEMMA SumOnEmpty ==
    ASSUME NEW f
    PROVE  SumOn(f, {}) = 0
<1>1. Sums(SumsOf(f, {}), f, {})
    BY SumsExist, FS_EmptySet
<1>2. QED
    BY <1>1, SumOnIsChosen DEF Sums

LEMMA SumOnFirst ==
    ASSUME NEW f, NEW S, IsFiniteSet(S), S # {}
    PROVE  SumOn(f, S) = f[First(S)] + SumOn(f, S \ {First(S)})
<1> DEFINE R == S \ {First(S)}
<1>1. IsFiniteSet(R)
    BY FS_RemoveElement
<1>2. Sums(SumsOf(f, S), f, S) /\ Sums(SumsOf(f, R), f, R)
    BY <1>1, SumsExist
<1>3. SumsOf(f, S)[S] = f[First(S)] + SumsOf(f, S)[R]
    BY <1>2 DEF Sums
<1>4. R \in SUBSET R /\ R \subseteq S
    OBVIOUS
<1> HIDE DEF R
<1>5. SumsOf(f, R)[R] = SumsOf(f, S)[R]
    BY <1>1, <1>2, <1>4, SumsUnique
<1>6. QED
    BY <1>3, <1>5, SumOnIsChosen DEF R

-----------------------------------------------------------------------------
(***************************************************************************)
(* Sums of integers                                                        *)
(***************************************************************************)

LEMMA SumOnType ==
    ASSUME NEW f, NEW S, IsFiniteSet(S), \A x \in S : f[x] \in Int
    PROVE  SumOn(f, S) \in Int
<1> DEFINE D == {T \in SUBSET S : SumOn(f, T) \notin Int}
<1>1. SUFFICES ASSUME D # {}
               PROVE  FALSE
    OBVIOUS
<1>2. PICK T \in D : \A U \in D : U \subseteq T => U = T
  <2>1. D \in SUBSET (SUBSET S)
      OBVIOUS
  <2> HIDE DEF D
  <2>2. QED
      BY <1>1, <2>1, SmallestSubset
<1>3. T # {}
    BY <1>2, SumOnEmpty
<1>4. First(T) \in T
    BY <1>3, FirstIn
<1>5. T \ {First(T)} \notin D
    BY <1>2, <1>4
<1>6. IsFiniteSet(T)
    BY FS_Subset
<1>7. SumOn(f, T) = f[First(T)] + SumOn(f, T \ {First(T)})
    BY <1>3, <1>6, SumOnFirst
<1>8. QED
    BY <1>2, <1>4, <1>5, <1>7

\* The order of the fold does not matter: any element may be taken first.
LEMMA SumOnRemove ==
    ASSUME NEW f, NEW S, IsFiniteSet(S), \A x \in S : f[x] \in Int, NEW b \in S
    PROVE  SumOn(f, S) = f[b] + SumOn(f, S \ {b})
<1> DEFINE D == {T \in SUBSET S : \E a \in T : SumOn(f, T) # f[a] + SumOn(f, T \ {a})}
<1>1. SUFFICES ASSUME D # {}
               PROVE  FALSE
    OBVIOUS
<1>2. PICK T \in D : \A U \in D : U \subseteq T => U = T
  <2>1. D \in SUBSET (SUBSET S)
      OBVIOUS
  <2> HIDE DEF D
  <2>2. QED
      BY <1>1, <2>1, SmallestSubset
<1>3. PICK a \in T : SumOn(f, T) # f[a] + SumOn(f, T \ {a})
    BY <1>2
<1>4. PICK p \in T : p = First(T)
    BY FirstIn
<1>5. IsFiniteSet(T) /\ IsFiniteSet(T \ {a}) /\ IsFiniteSet((T \ {a}) \ {p})
    BY FS_Subset
<1>6. SumOn(f, T) = f[p] + SumOn(f, T \ {p})
    BY <1>4, <1>5, SumOnFirst
<1>7. p # a
    BY <1>3, <1>6
<1>8. SumOn(f, T \ {p}) = f[a] + SumOn(f, (T \ {p}) \ {a})
  <2>1. T \ {p} \notin D
      BY <1>2
  <2>2. T \ {p} \in SUBSET S /\ a \in T \ {p}
      BY <1>7
  <2>3. QED
      BY <2>1, <2>2
<1>9. SumOn(f, T \ {a}) = f[p] + SumOn(f, (T \ {a}) \ {p})
  <2>1. T \ {a} \notin D
      BY <1>2
  <2>2. T \ {a} \in SUBSET S /\ p \in T \ {a}
      BY <1>7
  <2>3. QED
      BY <2>1, <2>2
<1>10. (T \ {a}) \ {p} = (T \ {p}) \ {a}
    OBVIOUS
<1>11. PICK s \in Int : s = SumOn(f, (T \ {a}) \ {p})
    BY <1>5, SumOnType
<1>12. PICK u \in Int, v \in Int : u = f[a] /\ v = f[p]
    BY <1>2
<1>13. SumOn(f, T) = v + (u + s)
    BY <1>6, <1>8, <1>10, <1>11, <1>12
<1>14. SumOn(f, T \ {a}) = v + s
    BY <1>9, <1>11, <1>12
<1>15. v + (u + s) = u + (v + s)
    OBVIOUS
<1>16. QED
    BY <1>3, <1>12, <1>13, <1>14, <1>15, Zenon

LEMMA SumOnAdd ==
    ASSUME NEW f, NEW S, IsFiniteSet(S), NEW a, a \notin S,
           \A x \in S \cup {a} : f[x] \in Int
    PROVE  SumOn(f, S \cup {a}) = f[a] + SumOn(f, S)
<1>1. IsFiniteSet(S \cup {a}) /\ (S \cup {a}) \ {a} = S
    BY FS_AddElement
<1>2. QED
    BY <1>1, SumOnRemove

LEMMA SumOnSame ==
    ASSUME NEW f, NEW g, NEW S, IsFiniteSet(S), \A x \in S : f[x] = g[x]
    PROVE  SumOn(f, S) = SumOn(g, S)
<1> DEFINE D == {T \in SUBSET S : SumOn(f, T) # SumOn(g, T)}
<1>1. SUFFICES ASSUME D # {}
               PROVE  FALSE
    OBVIOUS
<1>2. PICK T \in D : \A U \in D : U \subseteq T => U = T
  <2>1. D \in SUBSET (SUBSET S)
      OBVIOUS
  <2> HIDE DEF D
  <2>2. QED
      BY <1>1, <2>1, SmallestSubset
<1>3. T # {}
    BY <1>2, SumOnEmpty
<1>4. PICK p \in T : p = First(T)
    BY <1>3, FirstIn
<1>5. T \ {p} \notin D /\ T \ {p} \in SUBSET S
    BY <1>2
<1>6. IsFiniteSet(T)
    BY FS_Subset
<1>7. /\ SumOn(f, T) = f[p] + SumOn(f, T \ {p})
      /\ SumOn(g, T) = g[p] + SumOn(g, T \ {p})
    BY <1>3, <1>4, <1>6, SumOnFirst
<1>8. SumOn(f, T \ {p}) = SumOn(g, T \ {p})
    BY <1>5
<1>9. QED
    BY <1>2, <1>4, <1>7, <1>8

\* Zeros do not count.
LEMMA SumOnSupport ==
    ASSUME NEW f, NEW S, IsFiniteSet(S), \A x \in S : f[x] \in Int,
           NEW R \in SUBSET S, \A x \in S \ R : f[x] = 0
    PROVE  SumOn(f, S) = SumOn(f, R)
<1> DEFINE D == {T \in SUBSET S : SumOn(f, T) # SumOn(f, T \cap R)}
<1>1. SUFFICES ASSUME D # {}
               PROVE  FALSE
  <2>1. S \notin D /\ S \in SUBSET S
      BY <1>1
  <2>2. S \cap R = R
      OBVIOUS
  <2>3. QED
      BY <2>1, <2>2
<1>2. PICK T \in D : \A U \in D : U \subseteq T => U = T
  <2>1. D \in SUBSET (SUBSET S)
      OBVIOUS
  <2> HIDE DEF D
  <2>2. QED
      BY <1>1, <2>1, SmallestSubset
<1>3. T # {}
  <2>1. {} \cap R = {}
      OBVIOUS
  <2>2. QED
      BY <1>2, <2>1
<1>4. PICK p \in T : TRUE
    BY <1>3
<1>5. T \ {p} \notin D /\ T \ {p} \in SUBSET S
    BY <1>2
<1>6. IsFiniteSet(T) /\ IsFiniteSet(T \cap R) /\ IsFiniteSet(T \ {p})
    BY FS_Subset
<1>7. SumOn(f, T) = f[p] + SumOn(f, T \ {p}) /\ SumOn(f, T \ {p}) \in Int
    BY <1>6, SumOnRemove, SumOnType
<1>8. SumOn(f, T \ {p}) = SumOn(f, (T \ {p}) \cap R)
    BY <1>5
<1>9. CASE p \in R
  <2>1. SumOn(f, T \cap R) = f[p] + SumOn(f, (T \cap R) \ {p})
      BY <1>6, <1>9, SumOnRemove
  <2>2. (T \cap R) \ {p} = (T \ {p}) \cap R
      OBVIOUS
  <2>3. QED
      BY <1>2, <1>7, <1>8, <2>1, <2>2
<1>10. CASE p \notin R
  <2>1. T \cap R = (T \ {p}) \cap R
      BY <1>10
  <2>2. f[p] = 0
      BY <1>10
  <2>3. QED
      BY <1>2, <1>7, <1>8, <2>1, <2>2
<1>11. QED
    BY <1>9, <1>10

\* A bound of each value, with an error of at most c.
LEMMA SumOnBound ==
    ASSUME NEW f, NEW g, NEW S, IsFiniteSet(S), NEW c \in Int,
           \A x \in S : f[x] \in Int /\ g[x] \in Int /\ f[x] <= g[x] + c
    PROVE  SumOn(f, S) <= SumOn(g, S) + c * Cardinality(S)
<1> DEFINE D == {T \in SUBSET S : ~(SumOn(f, T) <= SumOn(g, T) + c * Cardinality(T))}
<1>1. SUFFICES ASSUME D # {}
               PROVE  FALSE
    OBVIOUS
<1>2. PICK T \in D : \A U \in D : U \subseteq T => U = T
  <2>1. D \in SUBSET (SUBSET S)
      OBVIOUS
  <2> HIDE DEF D
  <2>2. QED
      BY <1>1, <2>1, SmallestSubset
<1>3. T # {}
  <2>1. SumOn(f, {}) = 0 /\ SumOn(g, {}) = 0 /\ Cardinality({}) = 0
      BY SumOnEmpty, FS_EmptySet
  <2>2. SumOn(f, {}) <= SumOn(g, {}) + c * Cardinality({})
      BY <2>1
  <2>3. QED
      BY <1>2, <2>2, Zenon
<1>4. PICK p \in T : TRUE
    BY <1>3
<1>5. T \ {p} \notin D /\ T \ {p} \in SUBSET S
    BY <1>2
<1>6. IsFiniteSet(T) /\ IsFiniteSet(T \ {p})
    BY FS_Subset
<1>7. /\ SumOn(f, T) = f[p] + SumOn(f, T \ {p}) /\ SumOn(f, T \ {p}) \in Int
      /\ SumOn(g, T) = g[p] + SumOn(g, T \ {p}) /\ SumOn(g, T \ {p}) \in Int
    BY <1>6, SumOnRemove, SumOnType
<1>8. SumOn(f, T \ {p}) <= SumOn(g, T \ {p}) + c * Cardinality(T \ {p})
    BY <1>5
<1>9. Cardinality(T \ {p}) \in Nat /\ Cardinality(T) = Cardinality(T \ {p}) + 1
    BY <1>6, FS_RemoveElement, FS_CardinalityType
<1>10. ~(SumOn(f, T) <= SumOn(g, T) + c * Cardinality(T))
    BY <1>2
<1>11. f[p] \in Int /\ g[p] \in Int /\ f[p] <= g[p] + c
    OBVIOUS
<1>12. c * Cardinality(T) = c * Cardinality(T \ {p}) + c /\ c * Cardinality(T \ {p}) \in Int
    BY <1>9
<1> HIDE DEF D
<1>13. QED
    BY <1>7, <1>8, <1>10, <1>11, <1>12

LEMMA SumOnScaled ==
    ASSUME NEW f, NEW g, NEW S, IsFiniteSet(S), NEW c \in Int,
           \A x \in S : f[x] \in Int /\ g[x] = c * f[x]
    PROVE  SumOn(g, S) = c * SumOn(f, S)
<1> DEFINE D == {T \in SUBSET S : SumOn(g, T) # c * SumOn(f, T)}
<1>1. SUFFICES ASSUME D # {}
               PROVE  FALSE
    OBVIOUS
<1>2. PICK T \in D : \A U \in D : U \subseteq T => U = T
  <2>1. D \in SUBSET (SUBSET S)
      OBVIOUS
  <2> HIDE DEF D
  <2>2. QED
      BY <1>1, <2>1, SmallestSubset
<1>3. T # {}
  <2>1. SumOn(f, {}) = 0 /\ SumOn(g, {}) = 0 /\ c * 0 = 0
      BY SumOnEmpty
  <2>2. QED
      BY <1>2, <2>1
<1>4. PICK p \in T : TRUE
    BY <1>3
<1>5. T \ {p} \notin D /\ T \ {p} \in SUBSET S
    BY <1>2
<1>6. IsFiniteSet(T) /\ IsFiniteSet(T \ {p})
    BY FS_Subset
<1>7. /\ SumOn(f, T) = f[p] + SumOn(f, T \ {p}) /\ SumOn(f, T \ {p}) \in Int
      /\ SumOn(g, T) = g[p] + SumOn(g, T \ {p})
  <2>1. \A x \in T : f[x] \in Int /\ g[x] \in Int
      OBVIOUS
  <2>2. QED
      BY <1>6, <2>1, SumOnRemove, SumOnType
<1>8. SumOn(g, T \ {p}) = c * SumOn(f, T \ {p})
    BY <1>5
<1>9. PICK u \in Int, v \in Int : u = f[p] /\ v = SumOn(f, T \ {p})
    BY <1>7
<1>10. c * (u + v) = c * u + c * v
    OBVIOUS
<1>11. g[p] = c * u
    BY <1>9
<1>12. SumOn(g, T) # c * SumOn(f, T)
    BY <1>2
<1> HIDE DEF D
<1>13. QED
    BY <1>7, <1>8, <1>9, <1>10, <1>11, <1>12

\* A sum may be taken over the images of an injection.
LEMMA SumOnImage ==
    ASSUME NEW f, NEW g, NEW e, NEW S, IsFiniteSet(S),
           \A x \in S : g[x] \in Int /\ f[e[x]] = g[x],
           \A x, y \in S : e[x] = e[y] => x = y
    PROVE  SumOn(g, S) = SumOn(f, {e[x] : x \in S})
<1> DEFINE Img(T) == {e[x] : x \in T}
<1> DEFINE D == {T \in SUBSET S : SumOn(g, T) # SumOn(f, Img(T)) \/ ~IsFiniteSet(Img(T))}
<1>1. SUFFICES ASSUME D # {}
               PROVE  FALSE
    OBVIOUS
<1>2. PICK T \in D : \A U \in D : U \subseteq T => U = T
  <2>1. D \in SUBSET (SUBSET S)
      OBVIOUS
  <2> HIDE DEF D
  <2>2. QED
      BY <1>1, <2>1, SmallestSubset
<1>3. T # {}
  <2>1. Img({}) = {}
      OBVIOUS
  <2>2. SumOn(g, {}) = 0 /\ SumOn(f, {}) = 0 /\ IsFiniteSet({})
      BY SumOnEmpty, FS_EmptySet
  <2>3. QED
      BY <1>2, <2>1, <2>2
<1>4. PICK p \in T : TRUE
    BY <1>3
<1>5. T \ {p} \notin D /\ T \ {p} \in SUBSET S
    BY <1>2
<1>6. IsFiniteSet(T) /\ IsFiniteSet(T \ {p})
    BY FS_Subset
<1>7. SumOn(g, T) = g[p] + SumOn(g, T \ {p})
    BY <1>6, SumOnRemove
<1>8. SumOn(g, T \ {p}) = SumOn(f, Img(T \ {p})) /\ IsFiniteSet(Img(T \ {p}))
    BY <1>5
<1>9. e[p] \notin Img(T \ {p}) /\ Img(T) = Img(T \ {p}) \cup {e[p]}
    OBVIOUS
<1>10. \A y \in Img(T \ {p}) \cup {e[p]} : f[y] \in Int
    OBVIOUS
<1>11. f[e[p]] = g[p] /\ (SumOn(g, T) # SumOn(f, Img(T)) \/ ~IsFiniteSet(Img(T)))
    BY <1>2
<1> HIDE DEF D, Img
<1>12. PICK I, y : I = Img(T \ {p}) /\ y = e[p]
    OBVIOUS
<1>13. SumOn(f, I \cup {y}) = f[y] + SumOn(f, I)
    BY <1>8, <1>9, <1>10, <1>12, SumOnAdd
<1>14. IsFiniteSet(I \cup {y})
    BY <1>8, <1>12, FS_AddElement
<1>15. g[p] = f[y]
    BY <1>11, <1>12
<1>16. QED
    BY <1>7, <1>8, <1>9, <1>11, <1>12, <1>13, <1>14, <1>15, Zenon
=============================================================================
