----------------------------- MODULE FoldLemmas -----------------------------
(***************************************************************************)
(* Facts about the folds of the community modules: finite recursion exists *)
(* and is unique, and what a sum over a finite set is.  Each induction is  *)
(* on a set Q of subsets or of numbers, through the minimal element that   *)
(* would lie outside it.  Then where sequences have their elements, and    *)
(* how a concatenation is taken apart.                                     *)
(***************************************************************************)
EXTENDS FiniteSetsExt, SequencesExt, FiniteSetTheorems, WellFoundedInduction, TLAPS

\* A nonempty set of subsets of a finite set has a minimal one.
LEMMA MinimalSubset ==
  ASSUME NEW S, IsFiniteSet(S), NEW T \in SUBSET SUBSET S, T # {}
  PROVE  \E m \in T : \A t \in T : ~(t \subseteq m /\ t # m)
<1>1. IsWellFoundedOn(StrictSubsetOrdering(S), SUBSET S)
  BY FS_StrictSubsetOrderingWellFounded, FS_FiniteSubsetsOfFinite
<1>2. \E m \in T : \A t \in T : <<t, m>> \notin StrictSubsetOrdering(S)
  BY <1>1, WFMin
<1> QED BY <1>2 DEF StrictSubsetOrdering

\* A nonempty set of naturals has a least one.
LEMMA LeastNat ==
  ASSUME NEW T \in SUBSET Nat, T # {}
  PROVE  \E m \in T : \A t \in T : m <= t
<1>1. PICK n \in T : TRUE
  OBVIOUS
<1> DEFINE U == {0..t : t \in {u \in T : u <= n}}
<1>2. U \in SUBSET SUBSET (0..n) /\ U # {}
  BY <1>1
<1>3. IsFiniteSet(0..n)
  BY FS_Interval
<1>4. PICK m \in U : \A t \in U : ~(t \subseteq m /\ t # m)
  <2> DEFINE D == 0..n
  <2>1. IsFiniteSet(D) /\ U \in SUBSET SUBSET D /\ U # {}
    BY <1>2, <1>3
  <2> HIDE DEF U, D
  <2> QED BY <2>1, MinimalSubset
<1>5. PICK k \in T : k <= n /\ m = 0..k
  BY <1>4
<1>6. ASSUME NEW t \in T, t < k PROVE FALSE
  <2>1. 0..t \in U BY <1>5, <1>6
  <2>2. 0..t \subseteq 0..k /\ 0..t # 0..k BY <1>6
  <2> QED BY <1>4, <1>5, <2>1, <2>2
<1> QED BY <1>5, <1>6

\* Induction over the subsets of a finite set: Q holds of every subset when it
\* holds of the empty one and of each set all of whose one-smaller subsets it holds of.
LEMMA SubsetInduction ==
  ASSUME NEW S, IsFiniteSet(S), NEW Q, {} \in Q,
         \A T \in SUBSET S : (T # {} /\ \A x \in T : T \ {x} \in Q) => T \in Q
  PROVE  \A T \in SUBSET S : T \in Q
<1> DEFINE Bad == (SUBSET S) \ Q
<1> SUFFICES ASSUME Bad # {} PROVE FALSE
  OBVIOUS
<1>1. PICK m \in Bad : \A t \in Bad : ~(t \subseteq m /\ t # m)
  <2> HIDE DEF Bad
  <2>1. Bad \in SUBSET SUBSET S BY DEF Bad
  <2> QED BY <2>1, MinimalSubset
<1>2. m # {}
  BY <1>1
<1>3. ASSUME NEW x \in m PROVE m \ {x} \in Q
  <2>1. m \ {x} \subseteq m /\ m \ {x} # m /\ m \ {x} \in SUBSET S
    BY <1>1
  <2> QED BY ONLY <2>1, <1>1
<1> QED BY <1>1, <1>2, <1>3

\* Induction over the naturals, with the set of those it holds of.
LEMMA NaturalInduction ==
  ASSUME NEW Q, 0 \in Q, \A n \in Nat : n \in Q => n + 1 \in Q
  PROVE  Nat \subseteq Q
<1> SUFFICES ASSUME Nat \ Q # {} PROVE FALSE
  OBVIOUS
<1>1. PICK m \in Nat \ Q : \A t \in Nat \ Q : m <= t
  BY LeastNat
<1>2. m - 1 \in Nat /\ ~(m <= m - 1)
  BY <1>1
<1>3. m - 1 \in Q
  BY <1>1, <1>2
<1> QED BY <1>1, <1>2, <1>3

\* A nonempty set of the positions of a sequence has its greatest element.
LEMMA MaxIsMember ==
    ASSUME NEW n \in Nat, NEW X \in SUBSET (1..n), X # {}
    PROVE  Max(X) \in X
<1> DEFINE T == {n - x : x \in X}
<1>1. T \in SUBSET Nat /\ T # {}
    <2>1. \A x \in X : n - x \in Nat
        OBVIOUS
    <2>2. PICK x : x \in X
        OBVIOUS
    <2>3. n - x \in T
        BY <2>2
    <2> QED
        BY <2>1, <2>3
<1>2. PICK k \in T : \A t \in T : k <= t
    <2> HIDE DEF T
    <2> QED
        BY <1>1, LeastNat
<1>3. PICK x \in X : k = n - x
    BY <1>2
<1>4. \A y \in X : x >= y
    <2>1. ASSUME NEW y \in X PROVE x >= y
        <3>1. n - x <= n - y
            BY <1>2, <1>3
        <3> QED
            BY <3>1
    <2> QED
        BY <2>1
<1> QED
    BY <1>3, <1>4 DEF Max

-----------------------------------------------------------------------------
(* Folds *)

\* g is the fold over the subsets of S that takes out the element pick says.
Folds(g, S, base, step, pick) ==
  g = [s \in SUBSET S |->
         IF s = {} THEN base ELSE step[pick[s]][g[s \ {pick[s]}]]]

\* A fold over a finite set exists, whatever element is picked first.
LEMMA FoldExists ==
  ASSUME NEW S, IsFiniteSet(S), NEW base, NEW step, NEW pick,
         \A s \in SUBSET S : s # {} => pick[s] \in s
  PROVE  \E g : Folds(g, S, base, step, pick)
<1> DEFINE Small(n) == {s \in SUBSET S : Cardinality(s) <= n}
           Value(g, s) == IF s = {} THEN base ELSE step[pick[s]][g[s \ {pick[s]}]]
           Q == {n \in Nat : \E g : g = [s \in Small(n) |-> Value(g, s)]}
<1>0. \A s \in SUBSET S : IsFiniteSet(s) /\ Cardinality(s) \in Nat
  BY FS_Subset, FS_CardinalityType
<1>1. 0 \in Q
  <2>1. \A s \in Small(0) : s = {}
    BY <1>0, FS_EmptySet
  <2> DEFINE g == [s \in Small(0) |-> base]
  <2>2. g = [s \in Small(0) |-> Value(g, s)]
    BY <2>1
  <2> QED BY <2>2
<1>2. ASSUME NEW n \in Q PROVE n + 1 \in Q
  <2>1. PICK g : g = [s \in Small(n) |-> Value(g, s)]
    OBVIOUS
  <2> DEFINE h == [s \in Small(n + 1) |-> Value(g, s)]
  <2>2. \A s \in Small(n) : s \in Small(n + 1) /\ h[s] = g[s]
    <3>1. \A s \in Small(n) : s \in Small(n + 1)
      BY <1>0
    <3>2. \A s \in Small(n) : g[s] = Value(g, s)
      <4> HIDE DEF Value, Small
      <4> QED BY <2>1
    <3>3. \A s \in Small(n + 1) : h[s] = Value(g, s)
      <4> HIDE DEF Value, Small
      <4> QED OBVIOUS
    <3> HIDE DEF h, Value, Small
    <3> QED BY <3>1, <3>2, <3>3
  <2>3. ASSUME NEW s \in Small(n + 1), s # {}
        PROVE  s \ {pick[s]} \in Small(n)
    <3>1. s \in SUBSET S /\ pick[s] \in s /\ IsFiniteSet(s) /\ n \in Nat
      BY <2>3, <1>0
    <3> HIDE DEF Q
    <3>2. /\ IsFiniteSet(s \ {pick[s]})
          /\ Cardinality(s \ {pick[s]}) = Cardinality(s) - 1
      BY ONLY <3>1, FS_RemoveElement
    <3>3. Cardinality(s) \in Nat /\ Cardinality(s) <= n + 1
      BY ONLY <3>1, <2>3, FS_CardinalityType
    <3>4. Cardinality(s) - 1 <= n
      BY ONLY <3>1, <3>3
    <3> QED
      BY ONLY <3>1, <3>2, <3>4
  <2>4. ASSUME NEW s \in Small(n + 1) PROVE h[s] = Value(h, s)
    <3>1. h[s] = Value(g, s)
      OBVIOUS
    <3>2. CASE s = {}
      BY <3>1, <3>2
    <3>3. CASE s # {}
      <4>1. h[s \ {pick[s]}] = g[s \ {pick[s]}]
        BY <2>2, <2>3, <3>3
      <4> HIDE DEF h
      <4> QED BY <3>1, <3>3, <4>1
    <3> QED BY <3>2, <3>3
  <2>5. h = [s \in Small(n + 1) |-> Value(h, s)]
    <3>1. h = [s \in Small(n + 1) |-> h[s]]
      OBVIOUS
    <3> HIDE DEF h, Value, Small
    <3> QED BY <2>4, <3>1
  <2>6. n + 1 \in Nat
    OBVIOUS
  <2> HIDE DEF h, Small, Value
  <2> QED BY <2>5, <2>6
<1>3. Cardinality(S) \in Q
  <2> HIDE DEF Q
  <2> QED BY <1>1, <1>2, NaturalInduction, FS_CardinalityType
<1>4. Small(Cardinality(S)) = SUBSET S
  BY <1>0, FS_Subset
<1> QED BY <1>3, <1>4 DEF Folds

\* A fold stays in the set its base and its steps are in.
LEMMA FoldTyped ==
  ASSUME NEW S, IsFiniteSet(S), NEW V, NEW base \in V,
         NEW step, \A x \in S : step[x] \in [V -> V],
         NEW pick, \A s \in SUBSET S : s # {} => pick[s] \in s,
         NEW g, Folds(g, S, base, step, pick)
  PROVE  g \in [SUBSET S -> V]
<1> DEFINE Q == {s \in SUBSET S : g[s] \in V}
<1>1. /\ g = [s \in SUBSET S |-> g[s]]
      /\ g[{}] = base
      /\ \A s \in SUBSET S : s # {} => g[s] = step[pick[s]][g[s \ {pick[s]}]]
  BY DEF Folds
<1>2. {} \in Q
  BY <1>1
<1>3. ASSUME NEW T \in SUBSET S, T # {}, \A x \in T : T \ {x} \in Q
      PROVE  T \in Q
  <2>1. pick[T] \in S /\ g[T \ {pick[T]}] \in V
    BY <1>3
  <2>2. step[pick[T]] \in [V -> V]
    BY <2>1
  <2> QED BY <1>1, <1>3, <2>1, <2>2
<1>4. \A T \in SUBSET S : T \in Q
  <2> HIDE DEF Q
  <2> QED BY ONLY <1>2, <1>3, SubsetInduction, IsFiniteSet(S)
<1> QED BY <1>1, <1>4

\* Folds over a set and over a subset of it agree where both are defined.
LEMMA FoldUnique ==
  ASSUME NEW S, IsFiniteSet(S), NEW base, NEW step, NEW pick,
         \A s \in SUBSET S : s # {} => pick[s] \in s,
         NEW T \in SUBSET S,
         NEW g, Folds(g, S, base, step, pick),
         NEW h, Folds(h, T, base, step, pick)
  PROVE  \A s \in SUBSET T : h[s] = g[s]
<1> DEFINE Q == {s \in SUBSET T : h[s] = g[s]}
<1>1. /\ g[{}] = base /\ h[{}] = base
      /\ \A s \in SUBSET T : s # {} => g[s] = step[pick[s]][g[s \ {pick[s]}]]
      /\ \A s \in SUBSET T : s # {} => h[s] = step[pick[s]][h[s \ {pick[s]}]]
  BY DEF Folds
<1>2. {} \in Q
  BY <1>1
<1>3. ASSUME NEW U \in SUBSET T, U # {}, \A x \in U : U \ {x} \in Q
      PROVE  U \in Q
  <2>1. pick[U] \in U
    BY <1>3
  <2>2. h[U \ {pick[U]}] = g[U \ {pick[U]}]
    BY <2>1, <1>3
  <2>3. h[U] = g[U]
    <3>1. U \in SUBSET T /\ U # {}
      BY <1>3
    <3> QED BY ONLY <1>1, <2>2, <3>1
  <2> QED BY <2>3
<1>4. IsFiniteSet(T)
  BY FS_Subset
<1>5. \A U \in SUBSET T : U \in Q
  <2> HIDE DEF Q
  <2> QED BY ONLY <1>2, <1>3, <1>4, SubsetInduction
<1> QED BY <1>5

-----------------------------------------------------------------------------
(* Sums *)

Some(s) == CHOOSE x \in s : TRUE

\* The equations of a sum over a finite set, one element taken out at a time.
THEOREM SumEquations ==
  ASSUME NEW S, IsFiniteSet(S), NEW f \in [S -> Int]
  PROVE  /\ SumFunctionOnSet(f, {}) = 0
         /\ \A T \in SUBSET S : SumFunctionOnSet(f, T) \in Int
         /\ \A T \in SUBSET S : T # {} =>
              SumFunctionOnSet(f, T) = f[Some(T)] + SumFunctionOnSet(f, T \ {Some(T)})
<1> DEFINE step == [x \in S |-> [v \in Int |-> f[x] + v]]
           pick == [s \in SUBSET S |-> Some(s)]
           Body(g, T) == [s \in SUBSET T |->
                           IF s = {} THEN 0 ELSE f[Some(s)] + g[s \ {Some(s)}]]
<1>1. /\ \A x \in S : step[x] \in [Int -> Int]
      /\ \A s \in SUBSET S : s # {} => pick[s] \in s
      /\ \A s \in SUBSET S : s # {} => Some(s) \in s
      /\ \A s \in SUBSET S : pick[s] = Some(s)
      /\ \A x \in S, v \in Int : step[x][v] = f[x] + v
  BY DEF Some
<1> HIDE DEF step, pick
<1>2. ASSUME NEW T \in SUBSET S, NEW g, Folds(g, T, 0, step, pick)
      PROVE  g \in [SUBSET T -> Int] /\ g = Body(g, T)
  <2>1. IsFiniteSet(T)
    BY FS_Subset
  <2>2. /\ \A x \in T : step[x] \in [Int -> Int]
        /\ \A s \in SUBSET T : s # {} => pick[s] \in s
    BY <1>1
  <2>3. g \in [SUBSET T -> Int]
    BY ONLY <1>2, <2>1, <2>2, 0 \in Int, FoldTyped
  <2>4. g = [s \in SUBSET T |-> g[s]]
    BY <2>3
  <2>5. ASSUME NEW s \in SUBSET T, s # {}
        PROVE  g[s] = f[Some(s)] + g[s \ {Some(s)}]
    <3>1. g[s] = step[pick[s]][g[s \ {pick[s]}]]
      BY <1>2, <2>5 DEF Folds
    <3>2. pick[s] = Some(s) /\ Some(s) \in S /\ g[s \ {Some(s)}] \in Int
      BY <1>1, <2>3, <2>5
    <3> QED BY ONLY <1>1, <3>1, <3>2
  <2>6. g[{}] = 0
    BY <1>2 DEF Folds
  <2> QED BY ONLY <2>3, <2>4, <2>5, <2>6
<1>3. ASSUME NEW T \in SUBSET S, NEW g, g = Body(g, T)
      PROVE  Folds(g, T, 0, step, pick)
  <2> DEFINE Q == {s \in SUBSET T : g[s] \in Int}
  <2>1. {} \in Q
    BY <1>3
  <2>2. ASSUME NEW s \in SUBSET T, s # {}
        PROVE  g[s] = f[Some(s)] + g[s \ {Some(s)}]
    BY <1>3, <2>2
  <2>3. ASSUME NEW U \in SUBSET T, U # {}, \A x \in U : U \ {x} \in Q
        PROVE  U \in Q
    <3>1. Some(U) \in U /\ U \ {Some(U)} \in Q
      BY <1>1, <2>3
    <3> QED BY <2>2, <2>3, <3>1
  <2>4. \A U \in SUBSET T : U \in Q
    <3>1. IsFiniteSet(T)
      BY FS_Subset
    <3> HIDE DEF Q
    <3> QED BY ONLY <2>1, <2>3, <3>1, SubsetInduction
  <2>5. ASSUME NEW s \in SUBSET T, s # {}
        PROVE  g[s] = step[pick[s]][g[s \ {pick[s]}]]
    <3>1. Some(s) \in S /\ pick[s] = Some(s) /\ g[s \ {Some(s)}] \in Int
      BY <1>1, <2>4, <2>5
    <3> QED BY ONLY <1>1, <2>2, <2>5, <3>1
  <2>6. g = [s \in SUBSET T |-> g[s]] /\ g[{}] = 0
    BY <1>3
  <2> QED BY ONLY <2>5, <2>6 DEF Folds
<1>4. PICK g : Folds(g, S, 0, step, pick)
  BY ONLY <1>1, IsFiniteSet(S), FoldExists
<1>5. g \in [SUBSET S -> Int] /\ g = Body(g, S)
  BY ONLY <1>2, <1>4, S \in SUBSET S
<1>6. ASSUME NEW T \in SUBSET S PROVE SumFunctionOnSet(f, T) = g[T]
  <2> DEFINE h == CHOOSE h : h = Body(h, T)
  <2>1. \A s \in SUBSET T : s # {} => pick[s] \in s
    BY <1>1
  <2>2. \E k : Folds(k, T, 0, step, pick)
    BY ONLY <2>1, FoldExists, FS_Subset, IsFiniteSet(S), T \in SUBSET S
  <2>3. \E k : k = Body(k, T)
    <3> HIDE DEF Body
    <3> QED BY <1>2, <2>2
  <2>4. h = Body(h, T)
    BY ONLY <2>3
  <2>5. Folds(h, T, 0, step, pick)
    <3> HIDE DEF h, Body
    <3> QED BY <1>3, <2>4
  <2>6. \A s \in SUBSET T : h[s] = g[s]
    <3>1. \A s \in SUBSET S : s # {} => pick[s] \in s
      BY <1>1
    <3> HIDE DEF h, Body
    <3> QED BY ONLY <3>1, <1>4, <2>5, FoldUnique, IsFiniteSet(S), T \in SUBSET S
  <2>7. SumFunctionOnSet(f, T) = h[T]
    BY DEF SumFunctionOnSet, FoldFunctionOnSet, MapThenFoldSet, Some
  <2> QED BY ONLY <2>6, <2>7, T \in SUBSET T
<1> QED
  <2>1. g[{}] = 0
    BY <1>5
  <2>2. \A s \in SUBSET S : s # {} => g[s] = f[Some(s)] + g[s \ {Some(s)}]
    BY <1>5
  <2>3. \A T \in SUBSET S : T \ {Some(T)} \in SUBSET S
    OBVIOUS
  <2> QED BY ONLY <1>5, <1>6, <2>1, <2>2, <2>3

\* The element a sum takes out is one of the set's.
LEMMA SomeIsMember ==
  ASSUME NEW T, T # {}
  PROVE  Some(T) \in T
BY DEF Some

\* The sum of two functions added up is the sum of their sums.
LEMMA SumAdd ==
  ASSUME NEW S, IsFiniteSet(S), NEW f \in [S -> Int], NEW g \in [S -> Int]
  PROVE  SumFunction([x \in S |-> f[x] + g[x]]) = SumFunction(f) + SumFunction(g)
<1> DEFINE h == [x \in S |-> f[x] + g[x]]
           Q == {T \in SUBSET S : SumFunctionOnSet(h, T)
                                    = SumFunctionOnSet(f, T) + SumFunctionOnSet(g, T)}
<1>1. h \in [S -> Int] /\ \A x \in S : h[x] = f[x] + g[x]
  OBVIOUS
<1> HIDE DEF h
<1>2. {} \in Q
  BY <1>1, SumEquations
<1>3. ASSUME NEW T \in SUBSET S, T # {}, \A x \in T : T \ {x} \in Q
      PROVE  T \in Q
  <2> DEFINE U == T \ {Some(T)}
  <2>1. Some(T) \in S /\ U \in Q /\ U \in SUBSET S
    BY <1>3, SomeIsMember
  <2>2. /\ SumFunctionOnSet(h, T) = h[Some(T)] + SumFunctionOnSet(h, U)
        /\ SumFunctionOnSet(f, T) = f[Some(T)] + SumFunctionOnSet(f, U)
        /\ SumFunctionOnSet(g, T) = g[Some(T)] + SumFunctionOnSet(g, U)
    BY <1>1, <1>3, SumEquations
  <2>3. /\ SumFunctionOnSet(f, U) \in Int /\ SumFunctionOnSet(g, U) \in Int
        /\ f[Some(T)] \in Int /\ g[Some(T)] \in Int
    BY <2>1, SumEquations
  <2> HIDE DEF U
  <2> QED BY <1>1, <2>1, <2>2, <2>3
<1>4. S \in Q
  <2> HIDE DEF Q
  <2> QED BY ONLY <1>2, <1>3, SubsetInduction, IsFiniteSet(S), S \in SUBSET S
<1> QED BY <1>1, <1>4 DEF SumFunction

\* The sum of the multiples of a function is the multiple of its sum.
LEMMA SumScale ==
  ASSUME NEW S, IsFiniteSet(S), NEW f \in [S -> Int], NEW k \in Int
  PROVE  SumFunction([x \in S |-> f[x] * k]) = SumFunction(f) * k
<1> DEFINE h == [x \in S |-> f[x] * k]
           Q == {T \in SUBSET S : SumFunctionOnSet(h, T) = SumFunctionOnSet(f, T) * k}
<1>1. h \in [S -> Int] /\ \A x \in S : h[x] = f[x] * k
  OBVIOUS
<1> HIDE DEF h
<1>2. {} \in Q
  BY <1>1, SumEquations
<1>3. ASSUME NEW T \in SUBSET S, T # {}, \A x \in T : T \ {x} \in Q
      PROVE  T \in Q
  <2> DEFINE U == T \ {Some(T)}
  <2>1. Some(T) \in S /\ U \in Q /\ U \in SUBSET S
    BY <1>3, SomeIsMember
  <2>2. /\ SumFunctionOnSet(h, T) = h[Some(T)] + SumFunctionOnSet(h, U)
        /\ SumFunctionOnSet(f, T) = f[Some(T)] + SumFunctionOnSet(f, U)
    BY <1>1, <1>3, SumEquations
  <2>3. SumFunctionOnSet(f, U) \in Int /\ f[Some(T)] \in Int
    BY <2>1, SumEquations
  <2>4. \A a, b \in Int : (a + b) * k = a * k + b * k
    OBVIOUS
  <2> HIDE DEF U
  <2>5. SumFunctionOnSet(h, T) = SumFunctionOnSet(f, T) * k
    BY ONLY <1>1, <2>1, <2>2, <2>3, <2>4
  <2> QED BY <2>5
<1>4. S \in Q
  <2> HIDE DEF Q
  <2> QED BY ONLY <1>2, <1>3, SubsetInduction, IsFiniteSet(S), S \in SUBSET S
<1> QED BY <1>1, <1>4 DEF SumFunction

\* A larger function has a larger sum.
LEMMA SumMonotone ==
  ASSUME NEW S, IsFiniteSet(S), NEW f \in [S -> Int], NEW g \in [S -> Int],
         \A x \in S : f[x] <= g[x]
  PROVE  SumFunction(f) <= SumFunction(g)
<1> DEFINE Q == {T \in SUBSET S : SumFunctionOnSet(f, T) <= SumFunctionOnSet(g, T)}
<1>2. {} \in Q
  BY SumEquations
<1>3. ASSUME NEW T \in SUBSET S, T # {}, \A x \in T : T \ {x} \in Q
      PROVE  T \in Q
  <2> DEFINE U == T \ {Some(T)}
  <2>1. Some(T) \in S /\ U \in Q /\ U \in SUBSET S
    BY <1>3, SomeIsMember
  <2>2. /\ SumFunctionOnSet(f, T) = f[Some(T)] + SumFunctionOnSet(f, U)
        /\ SumFunctionOnSet(g, T) = g[Some(T)] + SumFunctionOnSet(g, U)
    BY <1>3, SumEquations
  <2>3. /\ SumFunctionOnSet(f, U) \in Int /\ SumFunctionOnSet(g, U) \in Int
        /\ f[Some(T)] \in Int /\ g[Some(T)] \in Int
    BY <2>1, SumEquations
  <2>4. f[Some(T)] <= g[Some(T)]
    BY <2>1
  <2> HIDE DEF U
  <2> QED BY <2>1, <2>2, <2>3, <2>4
<1>4. S \in Q
  <2> HIDE DEF Q
  <2> QED BY ONLY <1>2, <1>3, SubsetInduction, IsFiniteSet(S), S \in SUBSET S
<1> QED BY <1>4 DEF SumFunction

\* A sum of integers is one.
LEMMA SumType ==
  ASSUME NEW S, IsFiniteSet(S), NEW f \in [S -> Int]
  PROVE  SumFunction(f) \in Int
BY SumEquations DEF SumFunction

\* Whatever element is taken out of the set, it is its value that leaves the sum.
LEMMA SumRemove ==
  ASSUME NEW S, IsFiniteSet(S), NEW f \in [S -> Int]
  PROVE  \A T \in SUBSET S : \A x \in T :
           SumFunctionOnSet(f, T) = f[x] + SumFunctionOnSet(f, T \ {x})
<1> DEFINE Sum(T) == SumFunctionOnSet(f, T)
           Q == {T \in SUBSET S : \A x \in T : Sum(T) = f[x] + Sum(T \ {x})}
<1>1. /\ \A T \in SUBSET S : Sum(T) \in Int
      /\ \A T \in SUBSET S : T # {} => Sum(T) = f[Some(T)] + Sum(T \ {Some(T)})
  BY SumEquations
<1> HIDE DEF Sum
<1>2. {} \in Q
  OBVIOUS
<1>3. ASSUME NEW T \in SUBSET S, T # {}, \A x \in T : T \ {x} \in Q
      PROVE  T \in Q
  <2> DEFINE s == Some(T)
  <2>1. s \in T /\ Sum(T) = f[s] + Sum(T \ {s})
    BY <1>1, <1>3, SomeIsMember
  <2> HIDE DEF s
  <2>2. ASSUME NEW x \in T, x # s
        PROVE  Sum(T) = f[x] + Sum(T \ {x})
    <3>1. T \ {s} \in Q /\ T \ {x} \in Q
      BY <1>3, <2>1
    <3>2. x \in T \ {s} /\ s \in T \ {x} /\ (T \ {s}) \ {x} = (T \ {x}) \ {s}
      BY <2>1, <2>2
    <3>3. /\ Sum(T \ {s}) = f[x] + Sum((T \ {s}) \ {x})
          /\ Sum(T \ {x}) = f[s] + Sum((T \ {s}) \ {x})
      BY <3>1, <3>2
    <3>4. f[x] \in Int /\ f[s] \in Int /\ Sum((T \ {s}) \ {x}) \in Int
      BY <1>1, <2>1, <2>2
    <3> QED
      BY ONLY <2>1, <3>3, <3>4
  <2> QED
    BY <2>1, <2>2
<1>4. \A T \in SUBSET S : T \in Q
  <2> HIDE DEF Q
  <2> QED BY ONLY <1>2, <1>3, SubsetInduction, IsFiniteSet(S)
<1> QED BY <1>4 DEF Sum

\* A sum over a set looks only at the values there.
LEMMA SumAgree ==
  ASSUME NEW S, IsFiniteSet(S), NEW f \in [S -> Int],
         NEW R, IsFiniteSet(R), NEW g \in [R -> Int],
         NEW T \in SUBSET (S \cap R), \A x \in T : f[x] = g[x]
  PROVE  SumFunctionOnSet(f, T) = SumFunctionOnSet(g, T)
<1> DEFINE Q == {U \in SUBSET T : SumFunctionOnSet(f, U) = SumFunctionOnSet(g, U)}
<1>1. IsFiniteSet(T)
  BY FS_Subset
<1>2. {} \in Q
  BY SumEquations
<1>3. ASSUME NEW U \in SUBSET T, U # {}, \A x \in U : U \ {x} \in Q
      PROVE  U \in Q
  <2> DEFINE V == U \ {Some(U)}
  <2>1. Some(U) \in T /\ V \in Q
    BY <1>3, SomeIsMember
  <2>2. /\ SumFunctionOnSet(f, U) = f[Some(U)] + SumFunctionOnSet(f, V)
        /\ SumFunctionOnSet(g, U) = g[Some(U)] + SumFunctionOnSet(g, V)
    <3>1. U \in SUBSET S /\ U \in SUBSET R
      BY <1>3
    <3> QED BY <1>3, <3>1, SumEquations
  <2> HIDE DEF V
  <2> QED BY <2>1, <2>2
<1>4. T \in Q
  <2> HIDE DEF Q
  <2> QED BY ONLY <1>1, <1>2, <1>3, SubsetInduction, T \in SUBSET T
<1> QED BY <1>4

\* The sum of a function on part of its domain.
LEMMA SumRestricted ==
  ASSUME NEW S, IsFiniteSet(S), NEW f \in [S -> Int], NEW T \in SUBSET S,
         NEW g \in [T -> Int], \A x \in T : g[x] = f[x]
  PROVE  SumFunction(g) = SumFunctionOnSet(f, T)
<1>1. IsFiniteSet(T) /\ DOMAIN g = T /\ T \in SUBSET (T \cap S)
  BY FS_Subset
<1>2. SumFunctionOnSet(g, T) = SumFunctionOnSet(f, T)
  BY ONLY <1>1, SumAgree, IsFiniteSet(S), f \in [S -> Int], g \in [T -> Int],
          \A x \in T : g[x] = f[x]
<1> QED BY <1>1, <1>2 DEF SumFunction

\* The sum over two sets with nothing in common is that of both.
LEMMA SumUnion ==
  ASSUME NEW S, IsFiniteSet(S), NEW f \in [S -> Int],
         NEW A \in SUBSET S, NEW B \in SUBSET S, A \cap B = {}
  PROVE  SumFunctionOnSet(f, A \cup B) = SumFunctionOnSet(f, A) + SumFunctionOnSet(f, B)
<1> DEFINE Sum(T) == SumFunctionOnSet(f, T)
           Q == {T \in SUBSET A : Sum(T \cup B) = Sum(T) + Sum(B)}
<1>1. /\ Sum({}) = 0
      /\ \A T \in SUBSET S : Sum(T) \in Int
      /\ \A T \in SUBSET S : \A x \in T : Sum(T) = f[x] + Sum(T \ {x})
  BY SumEquations, SumRemove
<1>2. IsFiniteSet(A)
  BY FS_Subset
<1> HIDE DEF Sum
<1>3. {} \in Q
  <2>1. {} \cup B = B
    OBVIOUS
  <2> QED BY <1>1, <2>1
<1>4. ASSUME NEW T \in SUBSET A, T # {}, \A x \in T : T \ {x} \in Q
      PROVE  T \in Q
  <2>1. PICK x \in T : TRUE
    BY <1>4
  <2>2. (T \cup B) \ {x} = (T \ {x}) \cup B
    BY <2>1
  <2>3. /\ Sum(T \cup B) = f[x] + Sum((T \ {x}) \cup B)
        /\ Sum(T) = f[x] + Sum(T \ {x})
    <3>1. T \cup B \in SUBSET S /\ T \in SUBSET S /\ x \in T \cup B
      OBVIOUS
    <3> QED BY <1>1, <2>2, <3>1
  <2>4. Sum((T \ {x}) \cup B) = Sum(T \ {x}) + Sum(B)
    BY <1>4
  <2>5. f[x] \in Int /\ Sum(T \ {x}) \in Int /\ Sum(B) \in Int
    BY <1>1
  <2>6. Sum(T \cup B) = Sum(T) + Sum(B)
    BY ONLY <2>3, <2>4, <2>5
  <2> QED BY <2>6
<1>5. A \in Q
  <2> HIDE DEF Q
  <2> QED BY ONLY <1>2, <1>3, <1>4, SubsetInduction, A \in SUBSET A
<1> QED BY <1>5 DEF Sum

\* A sum does not depend on the names of the places.
LEMMA SumRenamed ==
  ASSUME NEW S, IsFiniteSet(S), NEW f \in [S -> Int],
         NEW R, IsFiniteSet(R), NEW g \in [R -> Int],
         NEW h \in [S -> R], \A x, y \in S : h[x] = h[y] => x = y,
         R = {h[x] : x \in S}, \A x \in S : f[x] = g[h[x]]
  PROVE  SumFunction(f) = SumFunction(g)
<1> DEFINE Image(T) == {h[x] : x \in T}
           Q == {T \in SUBSET S : SumFunctionOnSet(f, T) = SumFunctionOnSet(g, Image(T))}
<1>1. {} \in Q
  <2>1. Image({}) = {}
    OBVIOUS
  <2> QED BY <2>1, SumEquations
<1>2. ASSUME NEW T \in SUBSET S, T # {}, \A x \in T : T \ {x} \in Q
      PROVE  T \in Q
  <2>1. PICK x \in T : TRUE
    BY <1>2
  <2>2. Image(T \ {x}) = Image(T) \ {h[x]} /\ Image(T) \in SUBSET R /\ h[x] \in Image(T)
    OBVIOUS
  <2> HIDE DEF Image
  <2>3. SumFunctionOnSet(f, T) = f[x] + SumFunctionOnSet(f, T \ {x})
    BY SumRemove
  <2>4. SumFunctionOnSet(g, Image(T))
          = g[h[x]] + SumFunctionOnSet(g, Image(T) \ {h[x]})
    BY <2>2, SumRemove
  <2>5. SumFunctionOnSet(f, T \ {x}) = SumFunctionOnSet(g, Image(T \ {x}))
    BY <1>2
  <2>6. SumFunctionOnSet(f, T) = SumFunctionOnSet(g, Image(T))
    BY <2>2, <2>3, <2>4, <2>5
  <2> QED BY <2>6
<1>3. S \in Q
  <2> HIDE DEF Q
  <2> QED BY ONLY <1>1, <1>2, SubsetInduction, IsFiniteSet(S), S \in SUBSET S
<1>4. Image(S) = R
  OBVIOUS
<1> QED BY <1>3, <1>4 DEF SumFunction

\* The sums of the parts that a key cuts a set into make up the whole sum.
LEMMA SumPartition ==
  ASSUME NEW S, IsFiniteSet(S), NEW f \in [S -> Int], NEW key,
         NEW K, IsFiniteSet(K), K = {key[x] : x \in S},
         NEW g \in [K -> Int],
         \A k \in K : g[k] = SumFunctionOnSet(f, {x \in S : key[x] = k})
  PROVE  SumFunction(g) = SumFunction(f)
<1> DEFINE With(L) == {x \in S : key[x] \in L}
           Q == {L \in SUBSET K : SumFunctionOnSet(g, L) = SumFunctionOnSet(f, With(L))}
<1>1. {} \in Q
  <2>1. With({}) = {}
    OBVIOUS
  <2> QED BY <2>1, SumEquations
<1>2. ASSUME NEW L \in SUBSET K, L # {}, \A k \in L : L \ {k} \in Q
      PROVE  L \in Q
  <2>1. PICK k \in L : TRUE
    BY <1>2
  <2> DEFINE Of == {x \in S : key[x] = k}
  <2>2. /\ With(L) = Of \cup With(L \ {k}) /\ Of \cap With(L \ {k}) = {}
        /\ Of \in SUBSET S /\ With(L \ {k}) \in SUBSET S
    OBVIOUS
  <2>3. g[k] = SumFunctionOnSet(f, Of)
    OBVIOUS
  <2> HIDE DEF With, Of
  <2>4. SumFunctionOnSet(g, L) = g[k] + SumFunctionOnSet(g, L \ {k})
    BY SumRemove
  <2>5. SumFunctionOnSet(f, With(L))
          = SumFunctionOnSet(f, Of) + SumFunctionOnSet(f, With(L \ {k}))
    <3> DEFINE rest == With(L \ {k})
    <3>1. Of \in SUBSET S /\ rest \in SUBSET S /\ Of \cap rest = {} /\ With(L) = Of \cup rest
      BY ONLY <2>2
    <3> HIDE DEF rest
    <3>2. SumFunctionOnSet(f, Of \cup rest)
            = SumFunctionOnSet(f, Of) + SumFunctionOnSet(f, rest)
      BY <3>1, SumUnion
    <3> QED BY <3>1, <3>2 DEF rest
  <2>6. SumFunctionOnSet(g, L \ {k}) = SumFunctionOnSet(f, With(L \ {k}))
    BY <1>2
  <2>7. SumFunctionOnSet(g, L) = SumFunctionOnSet(f, With(L))
    BY ONLY <2>3, <2>4, <2>5, <2>6
  <2> QED BY <2>7
<1>3. K \in Q
  <2> HIDE DEF Q
  <2> QED BY ONLY <1>1, <1>2, SubsetInduction, IsFiniteSet(K), K \in SUBSET K
<1>4. With(K) = S
  OBVIOUS
<1> QED BY <1>3, <1>4 DEF SumFunction

-----------------------------------------------------------------------------
(* Sequences *)

\* Where concatenating two sequences puts their elements.
LEMMA ConcatPlaces ==
    ASSUME NEW S, NEW s \in Seq(S), NEW t \in Seq(S), NEW w, w = s \o t
    PROVE  /\ w \in Seq(S) /\ Len(w) = Len(s) + Len(t)
           /\ \A i \in 1..Len(s) : w[i] = s[i]
           /\ \A i \in 1..Len(t) : w[i + Len(s)] = t[i]
OBVIOUS

\* Where reversing a sequence puts its elements.
LEMMA ReversePlaces ==
    ASSUME NEW S, NEW s \in Seq(S), NEW r, r = Reverse(s)
    PROVE  /\ r \in Seq(S) /\ Len(r) = Len(s)
           /\ \A i \in 1..Len(s) : r[i] = s[(Len(s) - i) + 1]
<1> DEFINE n == Len(s)
<1>1. n \in Nat /\ \A i \in 1..n : s[i] \in S
    OBVIOUS
<1>2. \A i \in 1..n : (n - i) + 1 \in 1..n
    BY <1>1
<1>3. r = [i \in 1..n |-> s[(n - i) + 1]]
    BY DEF Reverse
<1> HIDE DEF n
<1>4. r \in Seq(S) /\ Len(r) = n /\ \A i \in 1..n : r[i] = s[(n - i) + 1]
    BY ONLY <1>1, <1>2, <1>3
<1> QED
    BY <1>4 DEF n

\* Where a slice of a sequence has its elements.
LEMMA CutPlaces ==
    ASSUME NEW S, NEW s \in Seq(S), NEW a \in 1..Len(s), NEW b \in a..Len(s),
           NEW w, w = SubSeq(s, a, b)
    PROVE  /\ w \in Seq(S) /\ Len(w) = (b - a) + 1
           /\ \A i \in 1..((b - a) + 1) : w[i] = s[(a + i) - 1]
OBVIOUS

\* A sequence, of whatever elements.
Sequence(s) == s \in Seq({s[i] : i \in DOMAIN s})

\* A sequence over any set is one, and one is over every set that has its elements.
LEMMA SequenceOver ==
    ASSUME NEW S, NEW s
    PROVE  /\ s \in Seq(S) => Sequence(s)
           /\ Sequence(s) => /\ Len(s) \in Nat /\ DOMAIN s = 1..Len(s)
                             /\ (\A i \in 1..Len(s) : s[i] \in S) => s \in Seq(S)
<1>1. ASSUME s \in Seq(S) PROVE Sequence(s)
    BY <1>1 DEF Sequence
<1>2. ASSUME Sequence(s) PROVE Len(s) \in Nat /\ DOMAIN s = 1..Len(s)
    BY <1>2 DEF Sequence
<1>3. ASSUME Sequence(s), \A i \in 1..Len(s) : s[i] \in S PROVE s \in Seq(S)
    BY <1>2, <1>3 DEF Sequence
<1> QED
    BY <1>1, <1>2, <1>3

\* A concatenation is a sequence of both parts' elements.
LEMMA JoinPlaces ==
    ASSUME NEW s, NEW t, Sequence(s), Sequence(t), NEW w, w = s \o t
    PROVE  /\ Sequence(w) /\ Len(w) = Len(s) + Len(t) /\ Len(s) \in Nat /\ Len(t) \in Nat
           /\ \A i \in 1..Len(s) : w[i] = s[i]
           /\ \A i \in 1..Len(t) : w[i + Len(s)] = t[i]
<1> DEFINE A == {s[i] : i \in DOMAIN s}
           B == {t[i] : i \in DOMAIN t}
           S == A \cup B
<1>1. /\ Len(s) \in Nat /\ DOMAIN s = 1..Len(s)
      /\ Len(t) \in Nat /\ DOMAIN t = 1..Len(t)
    BY SequenceOver
<1>2. (\A i \in 1..Len(s) : s[i] \in S) /\ \A i \in 1..Len(t) : t[i] \in S
    BY <1>1
<1> HIDE DEF S
<1>3. s \in Seq(S) /\ t \in Seq(S)
    BY <1>2, SequenceOver
<1>4. /\ w \in Seq(S) /\ Len(w) = Len(s) + Len(t)
      /\ \A i \in 1..Len(s) : w[i] = s[i]
      /\ \A i \in 1..Len(t) : w[i + Len(s)] = t[i]
    BY ONLY <1>3, w = s \o t, ConcatPlaces
<1>5. Sequence(w)
    BY <1>4, SequenceOver
<1> QED
    BY <1>1, <1>4, <1>5

\* Two sequences of one length with the same elements are equal.
LEMMA SequenceSame ==
    ASSUME NEW s, NEW t, Sequence(s), Sequence(t), Len(s) = Len(t),
           \A i \in 1..Len(s) : s[i] = t[i]
    PROVE  s = t
<1> DEFINE S == {s[i] : i \in DOMAIN s}
<1>1. /\ Len(s) \in Nat /\ DOMAIN s = 1..Len(s) /\ s \in Seq(S)
      /\ Len(t) \in Nat /\ DOMAIN t = 1..Len(t)
    BY SequenceOver DEF Sequence
<1>2. \A i \in 1..Len(t) : t[i] \in S
    BY <1>1
<1> HIDE DEF S
<1>3. t \in Seq(S)
    BY <1>2, SequenceOver
<1> QED
    BY <1>1, <1>3

\* Sequences of one length.
Alike(s, t) == Sequence(s) /\ Sequence(t) /\ Len(s) = Len(t)

\* Two concatenations that are equal have equal parts, when the first or the last
\* parts are of one length.
LEMMA JoinSame ==
    ASSUME NEW s, NEW t, NEW u, NEW v, Alike(s, t), Sequence(u), Sequence(v),
           s \o u = t \o v
    PROVE  s = t /\ u = v
<1> DEFINE w == s \o u
<1>1. Sequence(s) /\ Sequence(t) /\ Sequence(u) /\ Sequence(v) /\ Len(s) = Len(t)
        /\ w = s \o u /\ w = t \o v
    BY DEF Alike
<1> HIDE DEF w
<1>2. /\ Len(w) = Len(s) + Len(u) /\ Len(s) \in Nat /\ Len(u) \in Nat
      /\ \A i \in 1..Len(s) : w[i] = s[i]
      /\ \A i \in 1..Len(u) : w[i + Len(s)] = u[i]
    <2>1. Sequence(s) /\ Sequence(u) /\ w = s \o u
        BY <1>1
    <2> QED
        BY ONLY <2>1, JoinPlaces
<1>3. /\ Len(w) = Len(t) + Len(v) /\ Len(v) \in Nat
      /\ \A i \in 1..Len(t) : w[i] = t[i]
      /\ \A i \in 1..Len(v) : w[i + Len(t)] = v[i]
    <2>1. Sequence(t) /\ Sequence(v) /\ w = t \o v
        BY <1>1
    <2> QED
        BY ONLY <2>1, JoinPlaces
<1>4. Len(u) = Len(v)
    BY ONLY <1>1, <1>2, <1>3
<1>5. \A i \in 1..Len(s) : s[i] = t[i]
    BY ONLY <1>1, <1>2, <1>3
<1>6. \A i \in 1..Len(u) : u[i] = v[i]
    BY ONLY <1>1, <1>2, <1>3, <1>4
<1> QED
    BY ONLY <1>1, <1>4, <1>5, <1>6, SequenceSame

\* And of parts of one length each they are of one length.
LEMMA JoinAlike ==
    ASSUME NEW s, NEW t, NEW u, NEW v, Alike(s, t), Alike(u, v)
    PROVE  Alike(s \o u, t \o v)
<1> DEFINE w == s \o u
           x == t \o v
<1>1. Sequence(s) /\ Sequence(t) /\ Sequence(u) /\ Sequence(v) /\ Len(s) = Len(t)
        /\ Len(u) = Len(v) /\ w = s \o u /\ x = t \o v
    BY DEF Alike
<1> HIDE DEF w, x
<1>2. Sequence(w) /\ Len(w) = Len(s) + Len(u)
    BY ONLY <1>1, JoinPlaces
<1>3. Sequence(x) /\ Len(x) = Len(t) + Len(v)
    BY ONLY <1>1, JoinPlaces
<1>4. Sequence(w) /\ Sequence(x) /\ Len(w) = Len(x)
    BY ONLY <1>1, <1>2, <1>3
<1> QED
    BY <1>4 DEF Alike, w, x

\* A function of the numbers up to n is a sequence.
LEMMA FunctionIsSequence ==
    ASSUME NEW n \in Nat, NEW f, f = [i \in 1..n |-> f[i]]
    PROVE  Sequence(f) /\ Len(f) = n
<1> DEFINE S == {f[i] : i \in 1..n}
<1>1. \A i \in 1..n : f[i] \in S
    OBVIOUS
<1> HIDE DEF S
<1>2. [i \in 1..n |-> f[i]] \in Seq(S) /\ Len([i \in 1..n |-> f[i]]) = n
    BY ONLY <1>1, n \in Nat
<1>3. f \in Seq(S) /\ Len(f) = n
    BY <1>2
<1> QED
    BY ONLY <1>3, SequenceOver

\* FlattenSeq joins one element after the other.
LEMMA FlattenEquations ==
    ASSUME NEW s, Sequence(s), Len(s) > 0
    PROVE  \E g : /\ g[1] = s[1]
                  /\ \A i \in 2..Len(s) : g[i] = g[i - 1] \o s[i]
                  /\ FlattenSeq(s) = g[Len(s)]
<1> DEFINE n == Len(s)
           Value(f, i) == IF i = 1 THEN s[i] ELSE f[i - 1] \o s[i]
           Q == {m \in Nat : \E f : f = [i \in 1..m |-> Value(f, i)]}
           h == CHOOSE f : f = [i \in 1..n |-> Value(f, i)]
<1>1. n \in Nat
    BY SequenceOver
<1>2. 0 \in Q
    <2> DEFINE f == [i \in 1..0 |-> 0]
    <2>1. f = [i \in 1..0 |-> Value(f, i)]
        OBVIOUS
    <2> HIDE DEF f, Value
    <2> QED
        BY <2>1
<1>3. ASSUME NEW m \in Nat, m \in Q PROVE m + 1 \in Q
    <2>1. PICK f : f = [i \in 1..m |-> Value(f, i)]
        BY <1>3
    <2> DEFINE k == [i \in 1..(m + 1) |-> Value(f, i)]
    <2>2. \A i \in 1..m : k[i] = f[i]
        <3>1. \A i \in 1..m : i \in 1..(m + 1)
            OBVIOUS
        <3> HIDE DEF Value
        <3> QED
            BY <2>1, <3>1
    <2>3. \A i \in 1..(m + 1) : Value(f, i) = Value(k, i)
        <3>1. \A i \in 1..(m + 1) : i = 1 \/ i - 1 \in 1..m
            OBVIOUS
        <3> HIDE DEF k
        <3> QED
            BY <2>2, <3>1
    <2>4. k = [i \in 1..(m + 1) |-> Value(k, i)]
        <3> HIDE DEF Value
        <3>1. k = [i \in 1..(m + 1) |-> k[i]] /\ \A i \in 1..(m + 1) : k[i] = Value(f, i)
            OBVIOUS
        <3> HIDE DEF k
        <3> QED
            BY ONLY <2>3, <3>1
    <2> HIDE DEF k, Value
    <2> QED
        BY <2>4
<1>4. n \in Q
    <2> HIDE DEF Q, n
    <2> QED
        BY ONLY <1>1, <1>2, <1>3, NaturalInduction
<1>5. h = [i \in 1..n |-> Value(h, i)]
    <2>1. \E f : f = [i \in 1..n |-> Value(f, i)]
        BY <1>4
    <2> HIDE DEF Value, n
    <2> QED
        BY <2>1
<1>6. FlattenSeq(s) = h[n]
    <2>1. ~(Len(s) = 0)
        BY <1>1
    <2> QED
        BY ONLY <2>1, Zenon DEF FlattenSeq, h, n, Value
<1> HIDE DEF h
<1>7. \A i \in 1..n : h[i] = Value(h, i)
    <2> HIDE DEF Value
    <2> QED
        BY <1>5
<1>8. h[1] = s[1]
    <2>1. 1 \in 1..n
        BY <1>1
    <2> QED
        BY <1>7, <2>1
<1>9. \A i \in 2..n : h[i] = h[i - 1] \o s[i]
    <2>1. \A i \in 2..n : i \in 1..n /\ i # 1
        BY <1>1
    <2> QED
        BY <1>7, <2>1
<1> QED
    BY <1>6, <1>8, <1>9
=============================================================================
