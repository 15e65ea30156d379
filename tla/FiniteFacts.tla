----------------------------- MODULE FiniteFacts -----------------------------
(***************************************************************************)
(* Facts about finite sets that the proofs share: an induction on their    *)
(* subsets, and what the operators Min and SumFunction of the community    *)
(* modules compute.                                                        *)
(***************************************************************************)
EXTENDS Integers, FiniteSetsExt, Functions, TLAPS, FiniteSetTheorems, WellFoundedInduction

-----------------------------------------------------------------------------
(* Induction.                                                              *)

\* A family that includes a subset of S whenever it includes those that lack one
\* element of it has all subsets of S.
LEMMA SubsetInduction ==
  ASSUME NEW S, IsFiniteSet(S), NEW F, {} \in F,
         \A T \in SUBSET S : T # {} /\ (\A x \in T : T \ {x} \in F) => T \in F
  PROVE  SUBSET S \subseteq F
<1> DEFINE bad == {T \in SUBSET S : T \notin F}
<1>1. SUFFICES ASSUME bad # {} PROVE FALSE
  OBVIOUS
<1>2. IsWellFoundedOn(StrictSubsetOrdering(S), SUBSET S)
  <2>1. IsWellFoundedOn(StrictSubsetOrdering(S), FiniteSubsetsOf(S))
    BY FS_StrictSubsetOrderingWellFounded
  <2> QED
    BY <2>1, FS_FiniteSubsetsOfFinite
<1>3. PICK T \in bad : \A U \in bad : <<U, T>> \notin StrictSubsetOrdering(S)
  <2>1. bad \subseteq SUBSET S
    OBVIOUS
  <2> HIDE DEF bad
  <2> QED
    BY <1>1, <1>2, <2>1, WFMin
<1>4. PICK x \in T : T \ {x} \notin F
  OBVIOUS
<1>5. T \ {x} \in bad
  BY <1>4
<1>6. <<T \ {x}, T>> \in StrictSubsetOrdering(S)
  BY <1>4 DEF StrictSubsetOrdering
<1> QED
  BY <1>3, <1>5, <1>6

-----------------------------------------------------------------------------
(* Minima.                                                                 *)

\* A set of positive numbers with a bound, if not empty, has the minimum that
\* Min chooses: the shortest of the intervals 1..x is included in the others.
LEMMA MinOfBounded ==
  ASSUME NEW m \in Nat, NEW S \in SUBSET (1..m), S # {}
  PROVE  Min(S) \in S /\ \A y \in S : Min(S) <= y
<1> DEFINE segments == {1..x : x \in S}
<1>1. \A s \in segments : s \in SUBSET (1..m)
  OBVIOUS
<1>2. segments # {}
  <2>1. PICK x \in S : TRUE
    OBVIOUS
  <2>2. 1..x \in segments
    OBVIOUS
  <2> QED
    BY <2>2
<1>3. IsWellFoundedOn(StrictSubsetOrdering(1..m), SUBSET (1..m))
  BY FS_Interval, FS_FiniteSubsetsOfFinite, FS_StrictSubsetOrderingWellFounded, 1 \in Int, m \in Int
<1>4. PICK least \in segments :
        \A other \in segments : <<other, least>> \notin StrictSubsetOrdering(1..m)
  <2> HIDE DEF segments
  <2> QED
    BY <1>1, <1>2, <1>3, WFMin
<1>5. PICK x \in S : least = 1..x
  OBVIOUS
<1>6. \A y \in S : x <= y
  <2> SUFFICES ASSUME NEW y \in S, y < x
               PROVE  FALSE
    OBVIOUS
  <2>1. 1..y \subseteq 1..x /\ x \in 1..x /\ x \notin 1..y
    OBVIOUS
  <2>2. 1..y \in segments
    OBVIOUS
  <2> QED
    BY <1>1, <1>4, <1>5, <2>1, <2>2 DEF StrictSubsetOrdering
<1> QED
  BY <1>6 DEF Min

-----------------------------------------------------------------------------
(* Sums.                                                                   *)

\* g[T] is the sum of w over T, for every subset T of S.
Sums(S, w, g) ==
  /\ g \in [SUBSET S -> Int]
  /\ g[{}] = 0
  /\ \A T \in SUBSET S : \A x \in T : g[T] = w[x] + g[T \ {x}]

LEMMA SumsExist ==
  ASSUME NEW S, IsFiniteSet(S), NEW w \in [S -> Int]
  PROVE  \E g : Sums(S, w, g)
<1> DEFINE F == {T \in SUBSET S : \E g : Sums(T, w, g)}
<1>1. {} \in F
  <2>1. Sums({}, w, [T \in SUBSET {} |-> 0])
    BY DEF Sums
  <2> QED
    BY <2>1
<1>2. ASSUME NEW U \in SUBSET S, U # {}, \A x \in U : U \ {x} \in F
      PROVE  U \in F
  <2> PICK x \in U : TRUE
    BY <1>2
  <2>1. PICK g : Sums(U \ {x}, w, g)
    BY <1>2
  <2> DEFINE h == [T \in SUBSET U |-> IF x \in T THEN w[x] + g[T \ {x}] ELSE g[T]]
  <2>2. h \in [SUBSET U -> Int] /\ h[{}] = 0
    <3>1. w[x] \in Int
      OBVIOUS
    <3>2. \A T \in SUBSET U : T \ {x} \in SUBSET (U \ {x}) /\ (x \notin T => T \in SUBSET (U \ {x}))
      OBVIOUS
    <3>3. \A T \in SUBSET (U \ {x}) : g[T] \in Int
      BY <2>1 DEF Sums
    <3>4. g[{}] = 0
      BY <2>1 DEF Sums
    <3> QED
      BY <3>1, <3>2, <3>3, <3>4
  <2>3. ASSUME NEW T \in SUBSET U, NEW y \in T
        PROVE  h[T] = w[y] + h[T \ {y}]
    <3>1. w[x] \in Int /\ w[y] \in Int
      OBVIOUS
    <3>2. CASE x \notin T
      <4>1. T \in SUBSET (U \ {x}) /\ T \ {y} \in SUBSET U /\ x \notin T \ {y}
        BY <3>2
      <4>2. h[T] = g[T] /\ h[T \ {y}] = g[T \ {y}]
        BY <4>1, <3>2
      <4> QED
        BY <2>1, <4>1, <4>2 DEF Sums
    <3>3. CASE x \in T /\ y = x
      <4>1. h[T] = w[x] + g[T \ {x}] /\ h[T \ {x}] = g[T \ {x}]
        BY <3>3
      <4> QED
        BY <3>3, <4>1
    <3>4. CASE x \in T /\ y # x
      <4>1. /\ T \ {x} \in SUBSET (U \ {x}) /\ y \in T \ {x}
            /\ (T \ {x}) \ {y} = (T \ {y}) \ {x}
            /\ T \ {y} \in SUBSET U /\ x \in T \ {y}
        BY <3>4
      <4>2. g[T \ {x}] = w[y] + g[(T \ {x}) \ {y}] /\ g[(T \ {x}) \ {y}] \in Int
        BY <2>1, <4>1 DEF Sums
      <4>3. h[T] = w[x] + g[T \ {x}] /\ h[T \ {y}] = w[x] + g[(T \ {y}) \ {x}]
        BY <3>4, <4>1
      <4>4. h[T] = w[x] + (w[y] + g[(T \ {x}) \ {y}])
        BY <4>2, <4>3
      <4>5. h[T \ {y}] = w[x] + g[(T \ {x}) \ {y}]
        BY <4>1, <4>3
      <4> HIDE DEF h
      <4> QED
        BY <3>1, <4>2, <4>4, <4>5
    <3> QED
      BY <3>2, <3>3, <3>4
  <2>4. Sums(U, w, h)
    <3> HIDE DEF h
    <3> QED
      BY <2>2, <2>3 DEF Sums
  <2> QED
    BY <2>4
<1>3. SUBSET S \subseteq F
  <2> HIDE DEF F
  <2> QED
    BY <1>1, <1>2, SubsetInduction, Zenon
<1> QED
  BY <1>3

\* Sums depend on what is summed up alone.
LEMMA SumsAgree ==
  ASSUME NEW S, IsFiniteSet(S), NEW w, NEW v, NEW g, NEW h, Sums(S, w, g), Sums(S, v, h),
         NEW U \in SUBSET S, \A x \in U : w[x] = v[x]
  PROVE  g[U] = h[U]
<1> DEFINE F == {T \in SUBSET S : T \subseteq U => g[T] = h[T]}
<1>1. {} \in F
  BY DEF Sums
<1>2. ASSUME NEW T \in SUBSET S, T # {}, \A x \in T : T \ {x} \in F
      PROVE  T \in F
  BY <1>2 DEF Sums
<1>3. SUBSET S \subseteq F
  <2> HIDE DEF F
  <2> QED
    BY <1>1, <1>2, SubsetInduction, Zenon
<1> QED
  BY <1>3

\* The operator SumFunction computes them.
LEMMA SumFunctionSums ==
  ASSUME NEW S, IsFiniteSet(S), NEW w \in [S -> Int], NEW g, Sums(S, w, g)
  PROVE  SumFunction(w) = g[S]
<1> DEFINE Any(T) == CHOOSE x \in T : TRUE
           IsIter(f) == f = [T \in SUBSET S |-> IF T = {} THEN 0 ELSE w[Any(T)] + f[T \ {Any(T)}]]
           iter == CHOOSE f : IsIter(f)
<1>1. IsIter(g)
  BY DEF Sums
<1>2. IsIter(iter)
  <2> HIDE DEF IsIter
  <2> QED
    BY <1>1
<1>3. SumFunction(w) = iter[S]
  BY DEF SumFunction, SumFunctionOnSet, FoldFunctionOnSet, MapThenFoldSet
<1> DEFINE F == {T \in SUBSET S : iter[T] = g[T]}
<1>4. SUBSET S \subseteq F
  <2>1. {} \in F
    BY <1>1, <1>2
  <2>2. ASSUME NEW T \in SUBSET S, T # {}, \A x \in T : T \ {x} \in F
        PROVE  T \in F
    <3> DEFINE x == Any(T)
    <3>1. x \in T
      BY <2>2
    <3>2. iter[T] = w[x] + iter[T \ {x}]
      BY <1>2, <2>2
    <3>3. g[T] = w[x] + g[T \ {x}]
      BY <3>1 DEF Sums
    <3>4. iter[T \ {x}] = g[T \ {x}]
      BY <2>2, <3>1
    <3> QED
      BY <3>2, <3>3, <3>4
  <2> HIDE DEF F
  <2> QED
    BY <2>1, <2>2, SubsetInduction
<1> QED
  BY <1>3, <1>4

LEMMA SumOfIntegers ==
  ASSUME NEW S, IsFiniteSet(S), NEW w \in [S -> Int]
  PROVE  SumFunction(w) \in Int
<1>1. PICK g : Sums(S, w, g)
  BY SumsExist
<1>2. SumFunction(w) = g[S]
  BY <1>1, SumFunctionSums
<1> QED
  BY <1>1, <1>2 DEF Sums

LEMMA SumOfZeros ==
  ASSUME NEW S, IsFiniteSet(S), NEW w \in [S -> Int], \A x \in S : w[x] = 0
  PROVE  SumFunction(w) = 0
<1> DEFINE v == [x \in S |-> 0]
           h == [T \in SUBSET S |-> 0]
<1>1. PICK g : Sums(S, w, g)
  BY SumsExist
<1>2. Sums(S, v, h)
  BY DEF Sums
<1>3. \A x \in S : w[x] = v[x]
  OBVIOUS
<1>4. h[S] = 0
  OBVIOUS
<1> HIDE DEF v, h
<1>5. g[S] = h[S]
  BY <1>1, <1>2, <1>3, SumsAgree
<1>6. SumFunction(w) = g[S]
  BY <1>1, SumFunctionSums
<1> QED
  BY <1>4, <1>5, <1>6

\* A change of one value changes the sum by as much.
LEMMA SumOfUpdated ==
  ASSUME NEW S, IsFiniteSet(S), NEW w \in [S -> Int], NEW v \in [S -> Int], NEW x \in S,
         \A y \in S \ {x} : v[y] = w[y]
  PROVE  SumFunction(v) = SumFunction(w) + v[x] - w[x]
<1>1. PICK g : Sums(S, w, g)
  BY SumsExist
<1>2. PICK h : Sums(S, v, h)
  BY SumsExist
<1>3. g[S \ {x}] = h[S \ {x}]
  BY <1>1, <1>2, SumsAgree
<1>4. g[S] = w[x] + g[S \ {x}] /\ h[S] = v[x] + h[S \ {x}] /\ g[S \ {x}] \in Int
  BY <1>1, <1>2 DEF Sums
<1>5. SumFunction(w) = g[S] /\ SumFunction(v) = h[S]
  BY <1>1, <1>2, SumFunctionSums
<1>6. w[x] \in Int /\ v[x] \in Int
  OBVIOUS
<1> QED
  BY <1>3, <1>4, <1>5, <1>6

LEMMA SumOfOne ==
  ASSUME NEW S, IsFiniteSet(S), NEW w \in [S -> Int], NEW x \in S, \A y \in S \ {x} : w[y] = 0
  PROVE  SumFunction(w) = w[x]
<1> DEFINE zeros == [y \in S |-> 0]
<1>1. SumFunction(zeros) = 0
  BY SumOfZeros
<1>2. zeros \in [S -> Int] /\ zeros[x] = 0 /\ \A y \in S \ {x} : w[y] = zeros[y]
  OBVIOUS
<1> HIDE DEF zeros
<1>3. SumFunction(w) = SumFunction(zeros) + w[x] - zeros[x]
  BY <1>2, SumOfUpdated
<1>4. w[x] \in Int
  OBVIOUS
<1> QED
  BY <1>1, <1>2, <1>3, <1>4

=============================================================================
