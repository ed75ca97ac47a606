--------------------------------- MODULE Sums ---------------------------------
(* Sums over finite sets and folds over sequences, for the proofs about models    *)
(* that add up volumes with FoldLeft and MapThenSumSet.                           *)
EXTENDS Integers, Sequences, SequencesExt, TLAPS, FiniteSetTheorems, WellFoundedInduction

(* Sums.  A fold over a finite set is a function of the set's subsets that      *)
(* takes one element after the other; the sum it makes of numbers does not      *)
(* depend on which element it takes first.                                      *)

\* What holds of no element, and of a set whenever it holds without one of its
\* elements, holds of every subset of a finite set.
LEMMA OneByOne ==
  ASSUME NEW S, IsFiniteSet(S), NEW good \in SUBSET SUBSET S, {} \in good,
         \A s \in SUBSET S : (\A x \in s : s \ {x} \in good) => s \in good
  PROVE  \A s \in SUBSET S : s \in good
<1> DEFINE bad == (SUBSET S) \ good
<1> SUFFICES ASSUME bad # {} PROVE FALSE
  OBVIOUS
<1>1. bad \subseteq FiniteSubsetsOf(S)
  BY FS_FiniteSubsetsOfFinite
<1>2. PICK s \in bad : \A t \in bad : <<t, s>> \notin StrictSubsetOrdering(S)
  <2> HIDE DEF bad
  <2> QED BY <1>1, FS_StrictSubsetOrderingWellFounded, WFMin
<1>3. ASSUME NEW x \in s PROVE s \ {x} \in good
  <2>1. s \ {x} \in SUBSET S /\ s \ {x} \subseteq s /\ s \ {x} # s
    BY <1>3
  <2>2. <<s \ {x}, s>> \in StrictSubsetOrdering(S)
    BY <2>1 DEF StrictSubsetOrdering
  <2> QED BY <1>2, <2>1, <2>2
<1> QED BY <1>2, <1>3

FoldsBy(iter, S, base, step, pick) ==
  iter = [s \in SUBSET S |-> IF s = {} THEN base ELSE step[<<pick[s], iter[s \ {pick[s]}]>>]]
Picks(pick, S) ==
  pick \in [(SUBSET S) \ {{}} -> S] /\ \A s \in (SUBSET S) \ {{}} : pick[s] \in s

\* The same for the natural numbers.
LEMMA CountingUp ==
  ASSUME NEW good \in SUBSET Nat, 0 \in good, \A n \in Nat : n \in good => n + 1 \in good
  PROVE  \A n \in Nat : n \in good
<1> DEFINE bad == Nat \ good
<1> SUFFICES ASSUME bad # {} PROVE FALSE
  OBVIOUS
<1>1. PICK n \in bad : \A m \in bad : <<m, n>> \notin OpToRel(<, Nat)
  <2>1. bad \subseteq Nat
    OBVIOUS
  <2> HIDE DEF bad
  <2> QED BY <2>1, NatLessThanWellFounded, WFMin
<1>2. n # 0 /\ n - 1 \in Nat /\ n = (n - 1) + 1
  <2>1. n \in Nat /\ n # 0
    OBVIOUS
  <2> HIDE DEF bad
  <2> QED BY <2>1
<1>3. n - 1 \in bad
  BY <1>1, <1>2
<1>4. <<n - 1, n>> \in OpToRel(<, Nat)
  BY <1>2 DEF OpToRel
<1> QED BY <1>1, <1>3, <1>4

\* A fold exists: it is built from the subsets of at most n elements.
LEMMA FoldExists ==
  ASSUME NEW S, IsFiniteSet(S), NEW A, NEW base \in A, NEW step \in [S \X A -> A],
         NEW pick, Picks(pick, S)
  PROVE  \E iter \in [SUBSET S -> A] : FoldsBy(iter, S, base, step, pick)
<1> DEFINE Upto(n) == {s \in SUBSET S : Cardinality(s) <= n}
           next(g, s) == IF s = {} THEN base ELSE step[<<pick[s], g[s \ {pick[s]}]>>]
           good == {n \in Nat : \E g \in [Upto(n) -> A] : \A s \in Upto(n) : g[s] = next(g, s)}
<1>1. \A s \in SUBSET S : IsFiniteSet(s) /\ Cardinality(s) \in Nat /\ (Cardinality(s) = 0 <=> s = {})
  BY FS_Subset, FS_CardinalityType, FS_EmptySet
<1>2. \A s \in SUBSET S : s # {} => /\ pick[s] \in s /\ s \ {pick[s]} \in SUBSET S
                                    /\ Cardinality(s \ {pick[s]}) = Cardinality(s) - 1
  BY <1>1, FS_RemoveElement DEF Picks
<1>3. 0 \in good
  <2>1. [s \in Upto(0) |-> base] \in [Upto(0) -> A] /\ \A s \in Upto(0) : s = {}
    BY <1>1
  <2> QED BY <2>1
<1>4. ASSUME NEW n \in Nat, n \in good PROVE n + 1 \in good
  <2>1. PICK g \in [Upto(n) -> A] : \A s \in Upto(n) : g[s] = next(g, s)
    BY <1>4
  <2> DEFINE h == [s \in Upto(n + 1) |-> next(g, s)]
  <2>2. ASSUME NEW s \in Upto(n + 1), s # {}
        PROVE  s \ {pick[s]} \in Upto(n) /\ pick[s] \in S
    BY <1>1, <1>2, <2>2
  <2>3. h \in [Upto(n + 1) -> A]
    BY <2>2
  <2>4. ASSUME NEW s \in Upto(n) PROVE s \in Upto(n + 1) /\ h[s] = g[s]
    <3>1. s \in Upto(n + 1)
      BY <1>1
    <3> QED BY <2>1, <3>1
  <2>5. ASSUME NEW s \in Upto(n + 1) PROVE h[s] = next(h, s)
    BY <2>2, <2>4
  <2> HIDE DEF h
  <2>6. \E f \in [Upto(n + 1) -> A] : \A s \in Upto(n + 1) : f[s] = next(f, s)
    <3> HIDE DEF Upto, next
    <3> QED BY <2>3, <2>5
  <2> HIDE DEF Upto, next
  <2> QED BY <2>6
<1>5. Cardinality(S) \in good /\ Cardinality(S) \in Nat
  <2>1. good \in SUBSET Nat
    OBVIOUS
  <2> HIDE DEF good
  <2> QED BY <1>1, <1>3, <1>4, <2>1, CountingUp
<1>6. Upto(Cardinality(S)) = SUBSET S
  BY FS_Subset
<1>7. PICK g \in [SUBSET S -> A] : \A s \in SUBSET S : g[s] = next(g, s)
  BY <1>5, <1>6
<1>8. g = [s \in SUBSET S |-> next(g, s)]
  BY <1>7
<1> QED BY <1>8 DEF FoldsBy

\* Whatever folds takes its values where base and step do.
LEMMA FoldTyped ==
  ASSUME NEW S, IsFiniteSet(S), NEW A, NEW base \in A, NEW step \in [S \X A -> A],
         NEW pick, Picks(pick, S), NEW iter, FoldsBy(iter, S, base, step, pick)
  PROVE  iter \in [SUBSET S -> A]
<1> DEFINE good == {s \in SUBSET S : iter[s] \in A}
<1>1. {} \in good
  BY DEF FoldsBy
<1>2. ASSUME NEW s \in SUBSET S, \A x \in s : s \ {x} \in good PROVE s \in good
  <2>1. CASE s = {}
    BY <1>1, <2>1
  <2>2. CASE s # {}
    <3>1. pick[s] \in s /\ pick[s] \in S
      BY <2>2 DEF Picks
    <3>2. iter[s] = step[<<pick[s], iter[s \ {pick[s]}]>>]
      BY <2>2 DEF FoldsBy
    <3>3. iter[s \ {pick[s]}] \in A
      BY <1>2, <3>1
    <3>4. <<pick[s], iter[s \ {pick[s]}]>> \in S \X A
      BY <3>1, <3>3
    <3> QED BY <3>2, <3>4
  <2> QED BY <2>1, <2>2
<1>3. \A s \in SUBSET S : s \in good
  <2>1. good \in SUBSET SUBSET S
    OBVIOUS
  <2> HIDE DEF good
  <2> QED BY <1>1, <1>2, <2>1, OneByOne
<1> QED BY <1>3 DEF FoldsBy

Adds(sum, w) ==
  /\ sum \in [SUBSET DOMAIN w -> Int] /\ sum[{}] = 0
  /\ \A s \in SUBSET DOMAIN w : \A x \in s : sum[s] = w[x] + sum[s \ {x}]
Plus(w) == [p \in (DOMAIN w) \X Int |-> w[p[1]] + p[2]]

LEMMA PlusTyped ==
  ASSUME NEW S, NEW w \in [S -> Int]
  PROVE  /\ Plus(w) \in [S \X Int -> Int] /\ 0 \in Int
         /\ \A x \in S, n \in Int : Plus(w)[<<x, n>>] = w[x] + n
<1>1. \A p \in S \X Int : p[1] \in S /\ p[2] \in Int /\ w[p[1]] \in Int
  OBVIOUS
<1>2. \A p \in S \X Int : w[p[1]] + p[2] \in Int
  BY <1>1
<1>3. Plus(w) = [p \in S \X Int |-> w[p[1]] + p[2]]
  <2>1. DOMAIN w = S
    OBVIOUS
  <2> QED BY <2>1 DEF Plus
<1>4. \A x \in S, n \in Int : <<x, n>> \in S \X Int /\ <<x, n>>[1] = x /\ <<x, n>>[2] = n
  OBVIOUS
<1> QED BY <1>2, <1>3, <1>4

\* A fold that adds takes any element first.
LEMMA FoldAdds ==
  ASSUME NEW S, IsFiniteSet(S), NEW w \in [S -> Int], NEW pick, Picks(pick, S),
         NEW iter, FoldsBy(iter, S, 0, Plus(w), pick)
  PROVE  Adds(iter, w)
<1> DEFINE good == {s \in SUBSET S : \A x \in s : iter[s] = w[x] + iter[s \ {x}]}
<1>1. iter \in [SUBSET S -> Int] /\ iter[{}] = 0
  <2>1. iter \in [SUBSET S -> Int]
    BY PlusTyped, FoldTyped
  <2> QED BY <2>1 DEF FoldsBy
<1>2. \A s \in SUBSET S : s # {} => pick[s] \in s /\ iter[s] = w[pick[s]] + iter[s \ {pick[s]}]
  <2> SUFFICES ASSUME NEW s \in SUBSET S, s # {}
               PROVE  pick[s] \in s /\ iter[s] = w[pick[s]] + iter[s \ {pick[s]}]
    OBVIOUS
  <2>1. pick[s] \in s /\ pick[s] \in S /\ s \ {pick[s]} \in SUBSET S
    BY DEF Picks
  <2>2. iter[s] = Plus(w)[<<pick[s], iter[s \ {pick[s]}]>>]
    BY DEF FoldsBy
  <2>3. PICK x, n : x = pick[s] /\ n = iter[s \ {pick[s]}]
    OBVIOUS
  <2>4. n \in Int /\ x \in S
    BY <1>1, <2>1, <2>3
  <2>5. Plus(w)[<<x, n>>] = w[x] + n
    BY <2>4, PlusTyped
  <2> QED BY <2>1, <2>2, <2>3, <2>5
<1>3. {} \in good
  OBVIOUS
<1>4. ASSUME NEW s \in SUBSET S, \A x \in s : s \ {x} \in good PROVE s \in good
  <2> SUFFICES ASSUME NEW x \in s, x # pick[s] PROVE iter[s] = w[x] + iter[s \ {x}]
    BY <1>2
  <2> DEFINE p == pick[s]  both == s \ {x, p}
  <2>1. p \in s /\ p # x /\ p \in S /\ x \in S
    BY <1>2
  <2>2. (s \ {p}) \ {x} = both /\ (s \ {x}) \ {p} = both /\ both \in SUBSET S
    OBVIOUS
  <2>3. iter[s \ {p}] = w[x] + iter[both]
    <3>1. s \ {p} \in good /\ x \in s \ {p}
      BY <1>4, <2>1
    <3> HIDE DEF p
    <3> QED BY <2>2, <3>1
  <2>4. iter[s \ {x}] = w[p] + iter[both]
    <3>1. s \ {x} \in good /\ p \in s \ {x}
      BY <1>4, <2>1
    <3> HIDE DEF p
    <3> QED BY <2>2, <3>1
  <2>5. iter[s] = w[p] + iter[s \ {p}]
    BY <1>2
  <2>6. w[x] \in Int /\ w[p] \in Int /\ iter[both] \in Int
    BY <1>1, <2>1, <2>2
  <2> QED BY <2>3, <2>4, <2>5, <2>6
<1>5. \A s \in SUBSET S : s \in good
  <2>1. good \in SUBSET SUBSET S
    OBVIOUS
  <2> HIDE DEF good
  <2> QED BY <1>3, <1>4, <2>1, OneByOne
<1> QED BY <1>1, <1>5 DEF Adds

\* The sum over a set of places of what a function has there.
SumOver(w, s) == (CHOOSE sum : Adds(sum, w))[s]

LEMMA SumAdds ==
  ASSUME NEW S, IsFiniteSet(S), NEW w \in [S -> Int]
  PROVE  Adds([s \in SUBSET S |-> SumOver(w, s)], w)
<1> DEFINE pick == [s \in (SUBSET S) \ {{}} |-> CHOOSE x \in s : TRUE]
<1>1. Picks(pick, S)
  BY DEF Picks
<1>2. Plus(w) \in [S \X Int -> Int] /\ 0 \in Int
  BY PlusTyped
<1> HIDE DEF pick
<1>3. PICK iter : FoldsBy(iter, S, 0, Plus(w), pick)
  BY <1>1, <1>2, FoldExists
<1>4. Adds(iter, w)
  BY <1>1, <1>3, FoldAdds
<1>5. PICK sum : sum = (CHOOSE a : Adds(a, w)) /\ Adds(sum, w)
  BY <1>4
<1>6. [s \in SUBSET S |-> SumOver(w, s)] = sum
  BY <1>5 DEF Adds, SumOver
<1> QED BY <1>5, <1>6

\* What sums are: nothing of nothing, and of a set an element and the rest.
LEMMA SumRules ==
  ASSUME NEW S, IsFiniteSet(S), NEW w \in [S -> Int]
  PROVE  /\ \A s \in SUBSET S : SumOver(w, s) \in Int
         /\ SumOver(w, {}) = 0
         /\ \A s \in SUBSET S : \A x \in s : SumOver(w, s) = w[x] + SumOver(w, s \ {x})
<1> DEFINE sum == [s \in SUBSET S |-> SumOver(w, s)]
<1>1. \A s \in SUBSET S : sum[s] = SumOver(w, s)
  OBVIOUS
<1>2. \A s \in SUBSET S : \A x \in s : s \ {x} \in SUBSET S
  OBVIOUS
<1>3. Adds(sum, w) /\ DOMAIN w = S
  BY SumAdds
<1> HIDE DEF sum
<1>4. /\ sum \in [SUBSET S -> Int] /\ sum[{}] = 0
      /\ \A s \in SUBSET S : \A x \in s : sum[s] = w[x] + sum[s \ {x}]
  BY <1>3 DEF Adds
<1>5. {} \in SUBSET S
  OBVIOUS
<1> QED BY <1>1, <1>2, <1>4, <1>5

AddsBy(iter, S, w, pick) ==
  /\ iter \in [SUBSET S -> Int] /\ iter[{}] = 0
  /\ \A s \in SUBSET S : s # {} => iter[s] = w[pick[s]] + iter[s \ {pick[s]}]

\* A fold that adds exists,
LEMMA AddingFold ==
  ASSUME NEW S, IsFiniteSet(S), NEW w \in [S -> Int], NEW pick, Picks(pick, S)
  PROVE  \E iter : AddsBy(iter, S, w, pick)
<1>1. \A s \in SUBSET S : s # {} => pick[s] \in s /\ pick[s] \in S /\ s \ {pick[s]} \in SUBSET S
  BY DEF Picks
<1>2. PICK iter \in [SUBSET S -> Int] : FoldsBy(iter, S, 0, Plus(w), pick)
  BY PlusTyped, FoldExists
<1>3. ASSUME NEW s \in SUBSET S, s # {} PROVE iter[s] = w[pick[s]] + iter[s \ {pick[s]}]
  <2>1. iter[s] = Plus(w)[<<pick[s], iter[s \ {pick[s]}]>>]
    BY <1>2, <1>3 DEF FoldsBy
  <2>2. PICK x, n : x = pick[s] /\ n = iter[s \ {pick[s]}]
    OBVIOUS
  <2>3. n \in Int /\ x \in S
    BY <1>1, <1>3, <2>2
  <2>4. Plus(w)[<<x, n>>] = w[x] + n
    BY <2>3, PlusTyped
  <2> QED BY <2>1, <2>2, <2>4
<1>4. iter[{}] = 0
  BY <1>2 DEF FoldsBy
<1>5. AddsBy(iter, S, w, pick)
  BY <1>3, <1>4 DEF AddsBy
<1> QED BY <1>5

AddsUp(fold, S, w, pick) ==
  /\ fold[{}] = 0
  /\ \A s \in SUBSET S : s # {} /\ fold[s \ {pick[s]}] \in Int =>
       fold[s] = w[pick[s]] + fold[s \ {pick[s]}]

\* and whatever adds like one makes this sum.
LEMMA FoldIsSum ==
  ASSUME NEW S, IsFiniteSet(S), NEW w \in [S -> Int], NEW pick, Picks(pick, S),
         NEW fold, AddsUp(fold, S, w, pick)
  PROVE  fold[S] = SumOver(w, S)
<1> DEFINE good == {s \in SUBSET S : fold[s] = SumOver(w, s)}
<1>1. \A s \in SUBSET S : s # {} => pick[s] \in s
  BY DEF Picks
<1>2. {} \in good
  BY SumRules DEF AddsUp
<1>3. ASSUME NEW s \in SUBSET S, \A x \in s : s \ {x} \in good PROVE s \in good
  <2>1. CASE s = {}
    BY <1>2, <2>1
  <2>2. CASE s # {}
    <3>1. PICK x \in s : x = pick[s]
      BY <1>1, <2>2
    <3>2. fold[s \ {x}] = SumOver(w, s \ {x})
      BY <1>3
    <3>3. SumOver(w, s \ {x}) \in Int /\ SumOver(w, s) = w[x] + SumOver(w, s \ {x})
      BY SumRules
    <3>4. fold[s] = w[x] + fold[s \ {x}]
      BY <2>2, <3>1, <3>2, <3>3 DEF AddsUp
    <3> QED BY <3>2, <3>3, <3>4
  <2> QED BY <2>1, <2>2
<1>4. \A s \in SUBSET S : s \in good
  <2>1. good \in SUBSET SUBSET S
    OBVIOUS
  <2> HIDE DEF good
  <2> QED BY <1>2, <1>3, <2>1, OneByOne
<1> QED BY <1>4

\* The greatest and the least element of a set are what they should be.
LEMMA MaxOf ==
  ASSUME NEW S \in SUBSET Int, IsFiniteSet(S), S # {}
  PROVE  Max(S) \in S /\ \A y \in S : Max(S) >= y
<1> DEFINE good == {s \in SUBSET S : s # {} => \E x \in s : \A y \in s : x >= y}
<1>1. {} \in good
  OBVIOUS
<1>2. ASSUME NEW s \in SUBSET S, \A x \in s : s \ {x} \in good PROVE s \in good
  <2>1. CASE \A x \in s : s \ {x} = {}
    <3>1. \A x \in s : x \in Int /\ \A y \in s : x >= y
      BY <2>1
    <3> QED BY <3>1
  <2>2. CASE \E x \in s : s \ {x} # {}
    <3>1. PICK x \in s : s \ {x} # {}
      BY <2>2
    <3>2. PICK m \in s \ {x} : \A y \in s \ {x} : m >= y
      BY <1>2, <3>1
    <3>3. x \in Int /\ m \in Int /\ \A y \in s : y \in Int
      OBVIOUS
    <3>4. CASE x >= m
      <4>1. \A y \in s : x >= y
        BY <3>2, <3>3, <3>4
      <4> QED BY <4>1
    <3>5. CASE ~(x >= m)
      <4>1. \A y \in s : m >= y
        BY <3>2, <3>3, <3>5
      <4> QED BY <4>1
    <3> QED BY <3>4, <3>5
  <2> QED BY <2>1, <2>2
<1>3. \A s \in SUBSET S : s \in good
  <2>1. good \in SUBSET SUBSET S
    OBVIOUS
  <2> HIDE DEF good
  <2> QED BY <1>1, <1>2, <2>1, OneByOne
<1>4. \E x \in S : \A y \in S : x >= y
  BY <1>3
<1> QED BY <1>4 DEF Max

LEMMA MinOf ==
  ASSUME NEW S \in SUBSET Int, IsFiniteSet(S), S # {}
  PROVE  Min(S) \in S /\ \A y \in S : Min(S) <= y
<1> DEFINE good == {s \in SUBSET S : s # {} => \E x \in s : \A y \in s : x <= y}
<1>1. {} \in good
  OBVIOUS
<1>2. ASSUME NEW s \in SUBSET S, \A x \in s : s \ {x} \in good PROVE s \in good
  <2>1. CASE \A x \in s : s \ {x} = {}
    <3>1. \A x \in s : x \in Int /\ \A y \in s : x <= y
      BY <2>1
    <3> QED BY <3>1
  <2>2. CASE \E x \in s : s \ {x} # {}
    <3>1. PICK x \in s : s \ {x} # {}
      BY <2>2
    <3>2. PICK m \in s \ {x} : \A y \in s \ {x} : m <= y
      BY <1>2, <3>1
    <3>3. x \in Int /\ m \in Int /\ \A y \in s : y \in Int
      OBVIOUS
    <3>4. CASE x <= m
      <4>1. \A y \in s : x <= y
        BY <3>2, <3>3, <3>4
      <4> QED BY <4>1
    <3>5. CASE ~(x <= m)
      <4>1. \A y \in s : m <= y
        BY <3>2, <3>3, <3>5
      <4> QED BY <4>1
    <3> QED BY <3>4, <3>5
  <2> QED BY <2>1, <2>2
<1>3. \A s \in SUBSET S : s \in good
  <2>1. good \in SUBSET SUBSET S
    OBVIOUS
  <2> HIDE DEF good
  <2> QED BY <1>1, <1>2, <2>1, OneByOne
<1>4. \E x \in S : \A y \in S : x <= y
  BY <1>3
<1> QED BY <1>4 DEF Min

\* A left fold takes the last place first.
LEMMA MaxPicks ==
  ASSUME NEW n \in Nat
  PROVE  /\ Picks([s \in (SUBSET (1..n)) \ {{}} |-> Max(s)], 1..n)
         /\ IsFiniteSet(1..n) /\ Cardinality(1..n) = n
<1>1. IsFiniteSet(1..n) /\ Cardinality(1..n) = n
  BY FS_Interval
<1>2. ASSUME NEW s \in (SUBSET (1..n)) \ {{}} PROVE Max(s) \in s
  <2>1. s \in SUBSET Int /\ s \in SUBSET (1..n) /\ s # {}
    OBVIOUS
  <2>2. IsFiniteSet(s)
    BY <1>1, <2>1, FS_Subset
  <2> QED BY <2>1, <2>2, MaxOf
<1> QED BY <1>1, <1>2 DEF Picks

\* Sums of functions that agree on a set, or of which one is nowhere above the other.
LEMMA SumCompare ==
  ASSUME NEW S, IsFiniteSet(S), NEW T, IsFiniteSet(T), NEW v \in [S -> Int], NEW w \in [T -> Int],
         NEW s \in SUBSET S, s \in SUBSET T
  PROVE  /\ (\A x \in s : v[x] = w[x]) => SumOver(v, s) = SumOver(w, s)
         /\ (\A x \in s : v[x] <= w[x]) => SumOver(v, s) <= SumOver(w, s)
<1> DEFINE Cap == S \cap T
           good == {r \in SUBSET Cap :
                      /\ (\A x \in r : v[x] = w[x]) => SumOver(v, r) = SumOver(w, r)
                      /\ (\A x \in r : v[x] <= w[x]) => SumOver(v, r) <= SumOver(w, r)}
<1>1. {} \in good
  <2>1. SumOver(v, {}) = 0 /\ SumOver(w, {}) = 0
    BY SumRules
  <2> QED BY <2>1
<1>2. ASSUME NEW r \in SUBSET Cap, \A x \in r : r \ {x} \in good PROVE r \in good
  <2>1. CASE r = {}
    BY <1>1, <2>1
  <2>2. CASE r # {}
    <3>1. PICK x \in r : r \ {x} \in good
      BY <1>2, <2>2
    <3>2. SumOver(v, r) = v[x] + SumOver(v, r \ {x}) /\ SumOver(v, r \ {x}) \in Int /\ v[x] \in Int
      BY SumRules
    <3>3. SumOver(w, r) = w[x] + SumOver(w, r \ {x}) /\ SumOver(w, r \ {x}) \in Int /\ w[x] \in Int
      BY SumRules
    <3> QED BY <3>1, <3>2, <3>3
  <2> QED BY <2>1, <2>2
<1>3. \A r \in SUBSET Cap : r \in good
  <2>1. good \in SUBSET SUBSET Cap /\ IsFiniteSet(Cap)
    BY FS_Intersection
  <2> HIDE DEF good, Cap
  <2> QED BY <1>1, <1>2, <2>1, OneByOne
<1> QED BY <1>3

\* The sum over two sets apart is the sum of their sums, and zeros do not count.
LEMMA SumSplit ==
  ASSUME NEW S, IsFiniteSet(S), NEW w \in [S -> Int],
         NEW r \in SUBSET S, NEW t \in SUBSET S, r \cap t = {}
  PROVE  /\ SumOver(w, r \cup t) = SumOver(w, r) + SumOver(w, t)
         /\ (\A x \in t : w[x] = 0) => SumOver(w, r \cup t) = SumOver(w, r)
         /\ (\A x \in t : w[x] >= 0) => SumOver(w, r \cup t) >= SumOver(w, r)
<1> DEFINE good == {s \in SUBSET t :
                      /\ SumOver(w, r \cup s) = SumOver(w, r) + SumOver(w, s)
                      /\ (\A x \in s : w[x] = 0) => SumOver(w, s) = 0
                      /\ (\A x \in s : w[x] >= 0) => SumOver(w, s) >= 0}
<1>1. SumOver(w, r) \in Int /\ SumOver(w, {}) = 0
  BY SumRules
<1>2. {} \in good
  <2>1. r \cup {} = r
    OBVIOUS
  <2> QED BY <1>1, <2>1
<1>3. ASSUME NEW s \in SUBSET t, \A x \in s : s \ {x} \in good PROVE s \in good
  <2>1. CASE s = {}
    BY <1>2, <2>1
  <2>2. CASE s # {}
    <3>1. PICK x \in s : s \ {x} \in good
      BY <1>3, <2>2
    <3>2. s \in SUBSET S /\ s \ {x} \in SUBSET S /\ r \cup s \in SUBSET S /\ x \in S
          /\ (r \cup s) \ {x} = r \cup (s \ {x}) /\ x \in r \cup s
      OBVIOUS
    <3>3. /\ SumOver(w, s) = w[x] + SumOver(w, s \ {x}) /\ SumOver(w, s \ {x}) \in Int /\ w[x] \in Int
          /\ SumOver(w, r \cup s) = w[x] + SumOver(w, r \cup (s \ {x}))
      <4>1. SumOver(w, s) = w[x] + SumOver(w, s \ {x}) /\ SumOver(w, s \ {x}) \in Int /\ w[x] \in Int
        BY <3>2, SumRules
      <4>2. SumOver(w, r \cup s) = w[x] + SumOver(w, (r \cup s) \ {x})
        BY <3>2, SumRules
      <4> QED BY <3>2, <4>1, <4>2
    <3> QED BY <1>1, <3>1, <3>3
  <2> QED BY <2>1, <2>2
<1>4. t \in good
  <2>1. good \in SUBSET SUBSET t /\ IsFiniteSet(t)
    BY FS_Subset
  <2> HIDE DEF good
  <2> QED BY <1>2, <1>3, <2>1, OneByOne
<1>5. SumOver(w, t) \in Int
  BY SumRules
<1> QED BY <1>1, <1>4, <1>5

\* A sum of sums, place by place.
LEMMA SumOfSums ==
  ASSUME NEW S, IsFiniteSet(S), NEW u \in [S -> Int], NEW v \in [S -> Int], NEW w \in [S -> Int],
         \A x \in S : u[x] = v[x] + w[x]
  PROVE  SumOver(u, S) = SumOver(v, S) + SumOver(w, S)
<1> DEFINE good == {s \in SUBSET S : SumOver(u, s) = SumOver(v, s) + SumOver(w, s)}
<1>1. {} \in good
  <2>1. SumOver(u, {}) = 0 /\ SumOver(v, {}) = 0 /\ SumOver(w, {}) = 0
    BY SumRules
  <2> QED BY <2>1
<1>2. ASSUME NEW s \in SUBSET S, \A x \in s : s \ {x} \in good PROVE s \in good
  <2>1. CASE s = {}
    BY <1>1, <2>1
  <2>2. CASE s # {}
    <3>1. PICK x \in s : s \ {x} \in good
      BY <1>2, <2>2
    <3>2. SumOver(u, s) = u[x] + SumOver(u, s \ {x}) /\ SumOver(u, s \ {x}) \in Int /\ u[x] \in Int
      BY SumRules
    <3>3. SumOver(v, s) = v[x] + SumOver(v, s \ {x}) /\ SumOver(v, s \ {x}) \in Int /\ v[x] \in Int
      BY SumRules
    <3>4. SumOver(w, s) = w[x] + SumOver(w, s \ {x}) /\ SumOver(w, s \ {x}) \in Int /\ w[x] \in Int
      BY SumRules
    <3> QED BY <3>1, <3>2, <3>3, <3>4
  <2> QED BY <2>1, <2>2
<1>3. \A s \in SUBSET S : s \in good
  <2>1. good \in SUBSET SUBSET S
    OBVIOUS
  <2> HIDE DEF good
  <2> QED BY <1>1, <1>2, <2>1, OneByOne
<1> QED BY <1>3

Moves(f, S, T) == f \in [S -> T] /\ \A x, y \in S : f[x] = f[y] => x = y

\* The order of the places does not matter.
LEMMA SumMoved ==
  ASSUME NEW S, IsFiniteSet(S), NEW T, IsFiniteSet(T), NEW v \in [S -> Int], NEW w \in [T -> Int],
         NEW f, Moves(f, S, T), \A x \in S : v[x] = w[f[x]]
  PROVE  SumOver(v, S) = SumOver(w, {f[x] : x \in S})
<1> DEFINE Image(s) == {f[x] : x \in s}
           good == {s \in SUBSET S : SumOver(v, s) = SumOver(w, Image(s))}
<1>1. {} \in good
  <2>1. Image({}) = {} /\ SumOver(v, {}) = 0 /\ SumOver(w, {}) = 0
    BY SumRules
  <2> HIDE DEF Image
  <2> QED BY <2>1
<1>2. ASSUME NEW s \in SUBSET S, \A x \in s : s \ {x} \in good PROVE s \in good
  <2>1. CASE s = {}
    BY <1>1, <2>1
  <2>2. CASE s # {}
    <3>1. PICK x \in s : s \ {x} \in good
      BY <1>2, <2>2
    <3>2. SumOver(v, s) = v[x] + SumOver(v, s \ {x})
      BY SumRules
    <3>3. Image(s) \in SUBSET T /\ f[x] \in Image(s) /\ Image(s) \ {f[x]} = Image(s \ {x})
      BY DEF Moves
    <3>4. SumOver(w, Image(s)) = w[f[x]] + SumOver(w, Image(s \ {x}))
      <4> HIDE DEF Image
      <4>1. SumOver(w, Image(s)) = w[f[x]] + SumOver(w, Image(s) \ {f[x]})
        BY <3>3, SumRules
      <4> QED BY <3>3, <4>1
    <3>5. v[x] = w[f[x]] /\ SumOver(v, s \ {x}) = SumOver(w, Image(s \ {x}))
      BY <3>1
    <3> QED BY <3>2, <3>4, <3>5
  <2> QED BY <2>1, <2>2
<1>3. \A s \in SUBSET S : s \in good
  <2>1. good \in SUBSET SUBSET S
    OBVIOUS
  <2> HIDE DEF good
  <2> QED BY <1>1, <1>2, <2>1, OneByOne
<1> QED BY <1>3

\* A set in some order: every element once.
LEMMA InOrder ==
  ASSUME NEW S, IsFiniteSet(S), NEW f \in SetToSeqs(S)
  PROVE  /\ Cardinality(S) \in Nat /\ f \in [1..Cardinality(S) -> S]
         /\ Moves(f, 1..Cardinality(S), S)
         /\ {f[i] : i \in 1..Cardinality(S)} = S
<1>1. PICK n, N : n = Cardinality(S) /\ N = 1..n
  OBVIOUS
<1>2. n \in Nat /\ IsFiniteSet(N) /\ Cardinality(N) = Cardinality(S)
  <2>1. n \in Nat
    BY <1>1, FS_CardinalityType
  <2>2. n \in Int /\ 1 \in Int
    BY <2>1
  <2> QED BY <1>1, <2>1, <2>2, FS_Interval
<1>3. f \in [N -> S] /\ \A i, j \in N : f[i] = f[j] => i = j
  BY <1>1 DEF SetToSeqs
<1>4. f \in Injection(N, S)
  BY <1>3 DEF Injection, IsInjective
<1>5. f \in Surjection(N, S)
  BY <1>2, <1>4, FS_Injection
<1>6. {f[i] : i \in N} = S
  BY <1>3, <1>5 DEF Surjection
<1> QED BY <1>1, <1>2, <1>3, <1>6 DEF Moves
===============================================================================
