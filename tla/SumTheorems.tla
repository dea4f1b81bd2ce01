----------------------------- MODULE SumTheorems -----------------------------
(***************************************************************************)
(* Sums over finite sets, as Functions!SumFunctionOnSet computes them:     *)
(* element by element, in an order that CHOOSE picks.  The result does not *)
(* depend on that order, so that one element may be taken out of a sum, or *)
(* changed in it.                                                          *)
(***************************************************************************)
EXTENDS Functions, FiniteSetTheorems, TLAPS

\* The element of a set that is added first.
Chosen(T) == CHOOSE x \in T : TRUE

\* The sum over T, given the sums over smaller sets.
Step(g, w, T) == IF T = {} THEN 0 ELSE w[Chosen(T)] + g[T \ {Chosen(T)}]

\* g has the sums over all subsets of S.
Tallies(g, w, S) == g = [T \in SUBSET S |-> Step(g, w, T)]

-------------------------------------------------------------------------------
\* A set of natural numbers that is not empty has a smallest element.
LEMMA Smallest ==
    ASSUME NEW N, N \subseteq Nat, N # {}
    PROVE  \E n \in N : \A m \in N : n <= m
  <1>1. PICK n \in N : \A m \in N : ~(<<m, n>> \in OpToRel(<, Nat))
    BY WFMin, NatLessThanWellFounded
  <1>2. ASSUME NEW m \in N PROVE n <= m
    <2>1. m \in Nat /\ n \in Nat
      OBVIOUS
    <2>2. ~(m < n)
      BY <1>1, <2>1 DEF OpToRel
    <2>3. QED BY <2>1, <2>2
  <1>3. QED BY <1>2

\* Taking the first element out of a set leaves a smaller one.
LEMMA Smaller ==
    ASSUME NEW T, IsFiniteSet(T), NEW x \in T
    PROVE  /\ IsFiniteSet(T \ {x})
           /\ Cardinality(T) \in Nat /\ Cardinality(T \ {x}) \in Nat
           /\ Cardinality(T \ {x}) < Cardinality(T)
  <1>1. /\ IsFiniteSet(T \ {x}) /\ Cardinality(T \ {x}) = Cardinality(T) - 1
    BY FS_RemoveElement
  <1>2. Cardinality(T) \in Nat /\ Cardinality(T \ {x}) \in Nat
    BY <1>1, FS_CardinalityType
  <1>3. QED BY <1>1, <1>2

\* The first element of a set is one of its elements.
LEMMA ChosenIsThere == ASSUME NEW T, T # {} PROVE Chosen(T) \in T
  BY DEF Chosen

-------------------------------------------------------------------------------
\* There are such sums: those over sets of at most n elements exist for every n.
LEMMA TalliesExist ==
    ASSUME NEW D, NEW w \in [D -> Int], NEW S \in SUBSET D, IsFiniteSet(S)
    PROVE  \E g \in [SUBSET S -> Int] : Tallies(g, w, S)
  <1> DEFINE UpTo(g, n) == \A T \in SUBSET S : Cardinality(T) <= n => g[T] = Step(g, w, T)
             Bad == {n \in Nat : ~ \E g \in [SUBSET S -> Int] : UpTo(g, n)}
             Next(g) == [T \in SUBSET S |-> Step(g, w, T)]
  <1>1. \A T \in SUBSET S : IsFiniteSet(T) /\ Cardinality(T) \in Nat
                            /\ Cardinality(T) <= Cardinality(S)
    BY FS_Subset, FS_CardinalityType
  <1>2. ASSUME NEW g \in [SUBSET S -> Int] PROVE Next(g) \in [SUBSET S -> Int]
    <2>1. ASSUME NEW T \in SUBSET S PROVE Step(g, w, T) \in Int
      <3>1. CASE T = {}
        BY <3>1 DEF Step
      <3>2. CASE T # {}
        <4>1. Chosen(T) \in D /\ T \ {Chosen(T)} \in SUBSET S
          BY <3>2, ChosenIsThere
        <4>2. w[Chosen(T)] \in Int /\ g[T \ {Chosen(T)}] \in Int
          BY <4>1
        <4>3. QED BY <3>2, <4>2 DEF Step
      <3>3. QED BY <3>1, <3>2
    <2>2. QED BY <2>1
  <1>3. ASSUME NEW n \in Nat, NEW g \in [SUBSET S -> Int],
               \A T \in SUBSET S : Cardinality(T) < n => g[T] = Step(g, w, T)
        PROVE  UpTo(Next(g), n)
    <2>1. ASSUME NEW T \in SUBSET S, Cardinality(T) <= n PROVE Step(Next(g), w, T) = Step(g, w, T)
      <3>1. CASE T = {}
        BY <3>1 DEF Step
      <3>2. CASE T # {}
        <4>1. PICK U : U = T \ {Chosen(T)}
          OBVIOUS
        <4>2. U \in SUBSET S /\ Cardinality(U) < Cardinality(T)
          BY <1>1, <3>2, <4>1, ChosenIsThere, Smaller
        <4>3. Cardinality(U) < n
          BY <1>1, <2>1, <4>2
        <4>4. Next(g)[U] = g[U]
          BY <1>3, <4>2, <4>3
        <4>5. QED BY <3>2, <4>1, <4>4 DEF Step
      <3>3. QED BY <3>1, <3>2
    <2>2. QED BY <2>1
  <1> HIDE DEF Next
  <1>4. Bad = {}
    <2>1. SUFFICES ASSUME Bad # {} PROVE FALSE
      OBVIOUS
    <2>2. PICK n \in Bad : \A m \in Bad : n <= m
      <3>1. Bad \subseteq Nat
        OBVIOUS
      <3>2. QED BY <2>1, <3>1, Smallest
    <2>3. PICK g \in [SUBSET S -> Int] :
             \A T \in SUBSET S : Cardinality(T) < n => g[T] = Step(g, w, T)
      <3>1. CASE n = 0
        <4>1. [T \in SUBSET S |-> 0] \in [SUBSET S -> Int]
          OBVIOUS
        <4>2. \A T \in SUBSET S : ~(Cardinality(T) < n)
          BY <1>1, <3>1
        <4>3. QED BY <4>1, <4>2
      <3>2. CASE n # 0
        <4>1. n \in Nat /\ n - 1 \in Nat /\ ~(n <= n - 1)
          BY <3>2
        <4>2. n - 1 \notin Bad
          BY <2>2, <4>1
        <4>3. PICK g \in [SUBSET S -> Int] : UpTo(g, n - 1)
          BY <4>1, <4>2
        <4>4. \A T \in SUBSET S : Cardinality(T) < n => Cardinality(T) <= n - 1
          BY <1>1, <4>1
        <4>5. QED BY <4>3, <4>4
      <3>3. QED BY <3>1, <3>2
    <2>4. UpTo(Next(g), n) /\ Next(g) \in [SUBSET S -> Int]
      BY <1>2, <1>3, <2>3
    <2>5. QED BY <2>2, <2>4
  <1>5. Cardinality(S) \in Nat
    BY FS_CardinalityType
  <1>6. PICK g \in [SUBSET S -> Int] : UpTo(g, Cardinality(S))
    BY <1>4, <1>5
  <1>7. g = [T \in SUBSET S |-> Step(g, w, T)]
    BY <1>1, <1>6
  <1>8. QED BY <1>7 DEF Tallies

\* There is only one sum over a set, whatever larger set it was computed for and
\* whatever else is not in the set.
LEMMA TalliesAgree ==
    ASSUME NEW g, NEW v, NEW S, Tallies(g, v, S), NEW h, NEW w, NEW R, Tallies(h, w, R),
           NEW T, T \subseteq S, T \subseteq R, IsFiniteSet(T), \A x \in T : v[x] = w[x]
    PROVE  g[T] = h[T]
  <1> DEFINE Bad == {n \in Nat : \E U \in SUBSET T : Cardinality(U) = n /\ g[U] # h[U]}
  <1>1. ASSUME Bad # {} PROVE FALSE
    <2>1. PICK n \in Bad : \A m \in Bad : n <= m
      <3>1. Bad \subseteq Nat
        OBVIOUS
      <3>2. QED BY <1>1, <3>1, Smallest
    <2>2. PICK U \in SUBSET T : Cardinality(U) = n /\ g[U] # h[U]
      OBVIOUS
    <2>3. IsFiniteSet(U) /\ U \in SUBSET S /\ U \in SUBSET R
      BY FS_Subset
    <2>4. g[U] = Step(g, v, U) /\ h[U] = Step(h, w, U)
      BY <2>3 DEF Tallies
    <2>5. U # {}
      BY <2>2, <2>4 DEF Step
    <2>6. PICK x : x = Chosen(U)
      OBVIOUS
    <2>7. x \in U /\ v[x] = w[x]
      BY <2>5, <2>6, ChosenIsThere
    <2>8. Cardinality(U \ {x}) \in Nat /\ Cardinality(U \ {x}) < n
      BY <2>2, <2>3, <2>7, Smaller
    <2>9. Cardinality(U \ {x}) \notin Bad
      <3>1. n \in Nat /\ ~(n <= Cardinality(U \ {x}))
        BY <2>8
      <3>2. QED BY <2>1, <3>1
    <2>10. g[U \ {x}] = h[U \ {x}]
      BY <2>8, <2>9
    <2>11. QED BY <2>2, <2>4, <2>5, <2>6, <2>7, <2>10 DEF Step
  <1>2. Cardinality(T) \in Nat
    BY FS_CardinalityType
  <1>3. QED BY <1>1, <1>2

\* The sums are the numbers that the operator of the library gives.
LEMMA SumIsTally ==
    ASSUME NEW D, NEW w \in [D -> Int], NEW S \in SUBSET D, IsFiniteSet(S),
           NEW g, Tallies(g, w, S)
    PROVE  SumFunctionOnSet(w, S) = g[S]
  <1> DEFINE h == CHOOSE f : f = [T \in SUBSET S |->
                       IF T = {} THEN 0
                       ELSE w[CHOOSE x \in T : TRUE] + f[T \ {CHOOSE x \in T : TRUE}]]
  <1>1. SumFunctionOnSet(w, S) = h[S]
    BY DEF SumFunctionOnSet, FoldFunctionOnSet, MapThenFoldSet
  <1>2. g = [T \in SUBSET S |->
                IF T = {} THEN 0
                ELSE w[CHOOSE x \in T : TRUE] + g[T \ {CHOOSE x \in T : TRUE}]]
    BY DEF Tallies, Step, Chosen
  <1>3. h = [T \in SUBSET S |->
                IF T = {} THEN 0
                ELSE w[CHOOSE x \in T : TRUE] + h[T \ {CHOOSE x \in T : TRUE}]]
    BY <1>2
  <1>4. PICK f : f = h
    OBVIOUS
  <1>5. Tallies(f, w, S)
    BY <1>3, <1>4 DEF Tallies, Step, Chosen
  <1>6. f[S] = g[S]
    BY <1>5, TalliesAgree
  <1>7. QED BY <1>1, <1>4, <1>6

-------------------------------------------------------------------------------
\* The sum over the empty set is 0.
LEMMA SumOfNothing ==
    ASSUME NEW D, NEW w \in [D -> Int]
    PROVE  SumFunctionOnSet(w, {}) = 0
  <1>1. {} \in SUBSET D /\ IsFiniteSet({})
    BY FS_EmptySet
  <1>2. PICK g \in [SUBSET {} -> Int] : Tallies(g, w, {})
    BY <1>1, TalliesExist
  <1>3. g[{}] = 0
    BY <1>2 DEF Tallies, Step
  <1>4. QED BY <1>1, <1>2, <1>3, SumIsTally

\* One element may be taken out of a sum, whichever it is.
LEMMA SumOfOneAndRest ==
    ASSUME NEW D, NEW w \in [D -> Int], NEW S \in SUBSET D, IsFiniteSet(S), NEW x \in S
    PROVE  /\ SumFunctionOnSet(w, S) \in Int /\ SumFunctionOnSet(w, S \ {x}) \in Int
           /\ SumFunctionOnSet(w, S) = w[x] + SumFunctionOnSet(w, S \ {x})
  <1>1. PICK g \in [SUBSET S -> Int] : Tallies(g, w, S)
    BY TalliesExist
  <1> DEFINE Bad == {n \in Nat : \E T \in SUBSET S : /\ Cardinality(T) = n
                                                  /\ \E y \in T : g[T] # w[y] + g[T \ {y}]}
  <1>2. ASSUME Bad # {} PROVE FALSE
    <2>1. PICK n \in Bad : \A m \in Bad : n <= m
      <3>1. Bad \subseteq Nat
        OBVIOUS
      <3>2. QED BY <1>2, <3>1, Smallest
    <2>2. PICK T \in SUBSET S : Cardinality(T) = n /\ \E y \in T : g[T] # w[y] + g[T \ {y}]
      OBVIOUS
    <2>3. PICK y \in T : g[T] # w[y] + g[T \ {y}]
      BY <2>2
    <2>4. IsFiniteSet(T)
      BY FS_Subset
    <2>5. PICK a : a = Chosen(T)
      OBVIOUS
    <2>6. a \in T /\ g[T] = w[a] + g[T \ {a}]
      BY <1>1, <2>3, <2>5, ChosenIsThere DEF Tallies, Step
    <2>7. a # y
      BY <2>3, <2>6
    <2>8. ASSUME NEW b \in T, NEW c \in T \ {b}
          PROVE  g[T \ {b}] = w[c] + g[(T \ {b}) \ {c}]
      <3>1. Cardinality(T \ {b}) \in Nat /\ n \in Nat /\ ~(n <= Cardinality(T \ {b}))
        <4>1. Cardinality(T \ {b}) < Cardinality(T) /\ Cardinality(T \ {b}) \in Nat
          BY <2>4, Smaller
        <4>2. Cardinality(T) = n /\ n \in Nat
          BY <2>2
        <4>3. QED BY <4>1, <4>2
      <3>2. Cardinality(T \ {b}) \notin Bad
        BY <2>1, <3>1
      <3>3. QED BY <3>1, <3>2
    <2>9. g[T \ {a}] = w[y] + g[(T \ {a}) \ {y}] /\ g[T \ {y}] = w[a] + g[(T \ {y}) \ {a}]
      BY <2>6, <2>7, <2>8
    <2>10. (T \ {a}) \ {y} = (T \ {y}) \ {a}
      OBVIOUS
    <2>11. PICK U \in SUBSET S : U = (T \ {a}) \ {y}
      OBVIOUS
    <2>12. w[a] \in Int /\ w[y] \in Int /\ g[U] \in Int
      BY <2>6
    <2>13. g[T] = w[a] + (w[y] + g[U]) /\ g[T \ {y}] = w[a] + g[U]
      BY <2>6, <2>9, <2>10, <2>11
    <2>14. QED BY <2>3, <2>12, <2>13
  <1>3. g[S] = w[x] + g[S \ {x}]
    <2>1. Cardinality(S) \in Nat /\ Cardinality(S) \notin Bad
      BY <1>2, FS_CardinalityType
    <2>2. QED BY <2>1
  <1>4. SumFunctionOnSet(w, S) = g[S]
    BY <1>1, SumIsTally
  <1>5. SumFunctionOnSet(w, S \ {x}) = g[S \ {x}]
    <2>1. PICK R : R = S \ {x}
      OBVIOUS
    <2>2. R \in SUBSET D /\ IsFiniteSet(R) /\ R \subseteq S
      BY <2>1, Smaller
    <2>3. PICK h \in [SUBSET R -> Int] : Tallies(h, w, R)
      BY <2>2, TalliesExist
    <2>4. h[R] = g[R]
      BY <1>1, <2>2, <2>3, TalliesAgree
    <2>5. QED BY <2>1, <2>2, <2>3, <2>4, SumIsTally
  <1>6. g[S] \in Int /\ g[S \ {x}] \in Int
    OBVIOUS
  <1>7. QED BY <1>3, <1>4, <1>5, <1>6

\* A sum is a number.
LEMMA SumType ==
    ASSUME NEW D, NEW w \in [D -> Int], NEW S \in SUBSET D, IsFiniteSet(S)
    PROVE  SumFunctionOnSet(w, S) \in Int
  <1>1. PICK g \in [SUBSET S -> Int] : Tallies(g, w, S)
    BY TalliesExist
  <1>2. QED BY <1>1, SumIsTally

\* A sum depends on what is added only.
LEMMA SumOfSame ==
    ASSUME NEW D, NEW w \in [D -> Int], NEW E, NEW v \in [E -> Int],
           NEW S, S \in SUBSET D, S \in SUBSET E, IsFiniteSet(S), \A x \in S : v[x] = w[x]
    PROVE  SumFunctionOnSet(v, S) = SumFunctionOnSet(w, S)
  <1>1. PICK g \in [SUBSET S -> Int] : Tallies(g, v, S)
    BY TalliesExist
  <1>2. PICK h \in [SUBSET S -> Int] : Tallies(h, w, S)
    BY TalliesExist
  <1>3. g[S] = h[S]
    BY <1>1, <1>2, TalliesAgree
  <1>4. QED BY <1>1, <1>2, <1>3, SumIsTally

\* When one summand changes, the sum changes as much.
LEMMA SumOfOneChanged ==
    ASSUME NEW D, NEW w \in [D -> Int], NEW v \in [D -> Int], NEW S \in SUBSET D, IsFiniteSet(S),
           NEW x \in S, \A y \in S \ {x} : v[y] = w[y]
    PROVE  SumFunctionOnSet(v, S) - SumFunctionOnSet(w, S) = v[x] - w[x]
  <1>1. S \ {x} \in SUBSET D /\ IsFiniteSet(S \ {x})
    BY Smaller
  <1>2. SumFunctionOnSet(v, S \ {x}) = SumFunctionOnSet(w, S \ {x})
    BY <1>1, SumOfSame
  <1>3. /\ SumFunctionOnSet(v, S) = v[x] + SumFunctionOnSet(v, S \ {x})
        /\ SumFunctionOnSet(w, S) = w[x] + SumFunctionOnSet(w, S \ {x})
        /\ SumFunctionOnSet(w, S \ {x}) \in Int /\ v[x] \in Int /\ w[x] \in Int
    BY SumOfOneAndRest
  <1>4. QED BY <1>2, <1>3

\* A sum of zeros is 0.
LEMMA SumOfZeros ==
    ASSUME NEW D, NEW w \in [D -> Int], NEW S \in SUBSET D, IsFiniteSet(S),
           \A x \in S : w[x] = 0
    PROVE  SumFunctionOnSet(w, S) = 0
  <1> DEFINE Bad == {n \in Nat : \E T \in SUBSET S : /\ Cardinality(T) = n
                                                     /\ SumFunctionOnSet(w, T) # 0}
  <1>1. ASSUME Bad # {} PROVE FALSE
    <2>1. PICK n \in Bad : \A m \in Bad : n <= m
      <3>1. Bad \subseteq Nat
        OBVIOUS
      <3>2. QED BY <1>1, <3>1, Smallest
    <2>2. PICK T \in SUBSET S : Cardinality(T) = n /\ SumFunctionOnSet(w, T) # 0
      OBVIOUS
    <2>3. IsFiniteSet(T) /\ T \in SUBSET D
      BY FS_Subset
    <2>4. PICK x \in T : TRUE
      BY <2>2, SumOfNothing
    <2>5. SumFunctionOnSet(w, T \ {x}) = 0
      <3>1. Cardinality(T \ {x}) \in Nat /\ n \in Nat /\ ~(n <= Cardinality(T \ {x}))
        BY <2>2, <2>3, Smaller
      <3>2. Cardinality(T \ {x}) \notin Bad
        BY <2>1, <3>1
      <3>3. QED BY <3>1, <3>2
    <2>6. SumFunctionOnSet(w, T) = w[x] + SumFunctionOnSet(w, T \ {x}) /\ w[x] = 0
      BY <2>3, SumOfOneAndRest
    <2>7. QED BY <2>2, <2>5, <2>6
  <1>2. Cardinality(S) \in Nat /\ Cardinality(S) \notin Bad
    BY <1>1, FS_CardinalityType
  <1>3. QED BY <1>2

\* Summands that do not decrease make a sum that does not decrease.
LEMMA SumGrows ==
    ASSUME NEW D, NEW w \in [D -> Int], NEW v \in [D -> Int], NEW S \in SUBSET D, IsFiniteSet(S),
           \A x \in S : w[x] <= v[x]
    PROVE  SumFunctionOnSet(w, S) <= SumFunctionOnSet(v, S)
  <1> DEFINE Fine(T) == SumFunctionOnSet(w, T) <= SumFunctionOnSet(v, T)
             Bad == {n \in Nat : \E T \in SUBSET S : Cardinality(T) = n /\ ~Fine(T)}
  <1>1. ASSUME Bad # {} PROVE FALSE
    <2>1. PICK n \in Bad : \A m \in Bad : n <= m
      <3>1. Bad \subseteq Nat
        OBVIOUS
      <3>2. QED BY <1>1, <3>1, Smallest
    <2>2. PICK T \in SUBSET S : Cardinality(T) = n /\ ~Fine(T)
      OBVIOUS
    <2>3. IsFiniteSet(T) /\ T \in SUBSET D
      BY FS_Subset
    <2>4. T # {}
      BY <2>2, SumOfNothing
    <2>5. PICK x \in T : TRUE
      BY <2>4
    <2>6. Fine(T \ {x})
      <3>1. Cardinality(T \ {x}) \in Nat /\ n \in Nat /\ ~(n <= Cardinality(T \ {x}))
        BY <2>2, <2>3, Smaller
      <3>2. Cardinality(T \ {x}) \notin Bad
        BY <2>1, <3>1
      <3>3. QED BY <3>1, <3>2
    <2>7. /\ SumFunctionOnSet(v, T) = v[x] + SumFunctionOnSet(v, T \ {x})
          /\ SumFunctionOnSet(w, T) = w[x] + SumFunctionOnSet(w, T \ {x})
          /\ SumFunctionOnSet(w, T \ {x}) \in Int /\ SumFunctionOnSet(v, T \ {x}) \in Int
          /\ v[x] \in Int /\ w[x] \in Int
      BY <2>3, SumOfOneAndRest
    <2>8. w[x] <= v[x]
      OBVIOUS
    <2>9. QED BY <2>2, <2>6, <2>7, <2>8
  <1>2. Cardinality(S) \in Nat /\ Cardinality(S) \notin Bad
    BY <1>1, FS_CardinalityType
  <1>3. QED BY <1>2
==============================================================================
