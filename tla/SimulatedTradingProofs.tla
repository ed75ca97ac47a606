----------------------- MODULE SimulatedTradingProofs -----------------------
(* What trades without an exchange.  The grid strategy acts on what was         *)
(* confirmed and its holdings agree; both brokers settle each order once; the    *)
(* strategies on the backtesting broker agree with it; for any buffers, prices,  *)
(* volumes and strategies' choices.                                              *)
EXTENDS MCSimulatedTrading, Sums

(* The inductive invariant.  No verdict is pending while the buffer fills up;  *)
(* a pending one was given on each of the last confirmation_count_ bars (the   *)
(* history stops counting at ConfirmationBars).                                *)
StreakTyped ==
  /\ recentBars \in Nat /\ confirmation \in Nat /\ pending \in MarketState
  /\ streak \in [verdict : MarketState, length : Nat]
NothingPendingYet == recentBars < Period => pending = "WAITING"
PendingIsStreak ==
  pending # "WAITING" =>
    /\ streak.verdict = pending
    /\ confirmation >= 1
    /\ streak.length >= confirmation \/ streak.length >= ConfirmationBars

StreakInv == StreakTyped /\ NothingPendingYet /\ PendingIsStreak

ConfirmedStep ==
  state' # state /\ state' # "WAITING" =>
    streak'.verdict = state' /\ streak'.length >= ConfirmationBars

---------------------------------------------------------------------------
(* The analyzer *)

\* A new analyzer, the first or the one on_init makes, has nothing pending.
LEMMA InitStreak == PaperInit => StreakInv
  BY DEF PaperInit, AnalyzerInit, StreakInv, StreakTyped, NothingPendingYet, PendingIsStreak,
         MarketState

LEMMA ResetStreak == ASSUME AnalyzerReset PROVE StreakInv' /\ ConfirmedStep
  BY DEF AnalyzerReset, StreakInv, StreakTyped, NothingPendingYet, PendingIsStreak,
         MarketState, ConfirmedStep

LEMMA SameStreak == ASSUME StreakInv, UNCHANGED analyzerVars PROVE StreakInv' /\ ConfirmedStep
  BY DEF analyzerVars, StreakInv, StreakTyped, NothingPendingYet, PendingIsStreak, ConfirmedStep

\* The history after a bar: the bar's verdict, one longer than what it extends.
LEMMA StreakGrows ==
  ASSUME AnalyzerAssumption, StreakInv, NEW verdict \in Verdict, AnalyzerUpdate(verdict)
  PROVE  /\ streak' \in [verdict : MarketState, length : Nat]
         /\ streak'.verdict = verdict
         /\ streak'.length >= 1
         /\ streak.verdict = verdict =>
              streak'.length >= streak.length + 1 \/ streak'.length >= ConfirmationBars
<1>1. /\ streak.length \in Nat /\ verdict \in MarketState
      /\ ConfirmationBars \in Nat /\ ConfirmationBars >= 1
      /\ streak \in [verdict : MarketState, length : Nat]
  BY DEF AnalyzerAssumption, StreakInv, StreakTyped, MarketState
<1>2. CASE verdict = streak.verdict
  <2> DEFINE longer == IF streak.length < ConfirmationBars THEN streak.length + 1 ELSE streak.length
  <2>1. streak' = [streak EXCEPT !.length = longer]
    BY <1>2 DEF AnalyzerUpdate
  <2>2. longer \in Nat /\ longer >= 1
        /\ (longer >= streak.length + 1 \/ longer >= ConfirmationBars)
    BY <1>1
  <2>3. streak'.verdict = verdict /\ streak'.length = longer
    BY <1>1, <1>2, <2>1
  <2> HIDE DEF longer
  <2> QED BY <1>1, <2>1, <2>2, <2>3
<1>3. CASE verdict # streak.verdict
  BY <1>1, <1>3 DEF AnalyzerUpdate
<1> QED BY <1>2, <1>3

\* update keeps the invariant, and lets a verdict through only when confirmed.
LEMMA UpdateStreak ==
  ASSUME AnalyzerAssumption, StreakInv, NEW verdict \in Verdict, AnalyzerUpdate(verdict)
  PROVE  StreakInv' /\ ConfirmedStep
<1>1. /\ streak' \in [verdict : MarketState, length : Nat]
      /\ streak'.verdict = verdict
      /\ streak'.length >= 1
      /\ streak.verdict = verdict =>
           streak'.length >= streak.length + 1 \/ streak'.length >= ConfirmationBars
  BY StreakGrows
<1>2. /\ recentBars \in Nat /\ confirmation \in Nat /\ streak.length \in Nat
      /\ streak'.length \in Nat
      /\ Period \in Nat /\ ConfirmationBars \in Nat
      /\ verdict \in MarketState /\ verdict # "WAITING"
  BY <1>1 DEF AnalyzerAssumption, StreakInv, StreakTyped, Verdict, MarketState
<1>3. recentBars' \in Nat /\ recentBars' >= recentBars
  BY <1>2 DEF AnalyzerUpdate
<1>4. CASE recentBars' < Period
  <2>1. state' = "WAITING" /\ pending' = pending /\ confirmation' = confirmation
    BY <1>4 DEF AnalyzerUpdate
  <2>2. pending = "WAITING"
    BY <1>2, <1>3, <1>4 DEF StreakInv, NothingPendingYet
  <2> QED
    BY <1>1, <1>2, <1>3, <2>1, <2>2
       DEF StreakInv, StreakTyped, NothingPendingYet, PendingIsStreak, ConfirmedStep
<1>5. CASE ~(recentBars' < Period)
  <2>1. Confirm(verdict)
    BY <1>5 DEF AnalyzerUpdate
  <2>2. CASE verdict = state
    BY <1>1, <1>3, <1>5, <2>1, <2>2
       DEF Confirm, StreakInv, StreakTyped, NothingPendingYet, PendingIsStreak, ConfirmedStep,
           MarketState
  <2>3. CASE verdict # state /\ verdict # pending
    BY <1>1, <1>2, <1>3, <1>5, <2>1, <2>3
       DEF Confirm, StreakInv, StreakTyped, NothingPendingYet, PendingIsStreak, ConfirmedStep
  <2>4. CASE verdict # state /\ verdict = pending
    <3>1. /\ streak'.length >= confirmation + 1 \/ streak'.length >= ConfirmationBars
          /\ confirmation >= 1
      BY <1>1, <1>2, <2>4 DEF StreakInv, PendingIsStreak
    <3>2. CASE confirmation + 1 >= ConfirmationBars
      BY <1>1, <1>2, <1>3, <1>5, <2>1, <2>4, <3>1, <3>2
         DEF Confirm, StreakInv, StreakTyped, NothingPendingYet, PendingIsStreak, ConfirmedStep,
             MarketState
    <3>3. CASE ~(confirmation + 1 >= ConfirmationBars)
      BY <1>1, <1>2, <1>3, <1>5, <2>1, <2>4, <3>1, <3>3
         DEF Confirm, StreakInv, StreakTyped, NothingPendingYet, PendingIsStreak, ConfirmedStep
    <3> QED BY <3>2, <3>3
  <2> QED BY <2>2, <2>3, <2>4
<1> QED BY <1>4, <1>5

---------------------------------------------------------------------------
(* The strategy and its broker *)

LEMMA StepStreak ==
  ASSUME AnalyzerAssumption, StreakInv, [PaperNext]_paperVars
  PROVE  StreakInv' /\ ConfirmedStep
<1>1. CASE InitStrategy
  BY <1>1, ResetStreak DEF InitStrategy, OnInit
<1>2. CASE StartStrategy \/ StopStrategy \/ Tick
  BY <1>2, SameStreak DEF StartStrategy, OnStart, StopStrategy, Tick
<1>3. CASE Bar
  <2>1. PICK verdict \in Verdict : BarWith(verdict)
    BY <1>3 DEF Bar
  <2>2. PICK price \in Prices : OnBar(price, verdict)
    BY <2>1 DEF BarWith
  <2>3. UNCHANGED analyzerVars \/ AnalyzerUpdate(verdict)
    BY <2>2 DEF OnBar
  <2> QED BY <2>3, SameStreak, UpdateStreak
<1>4. CASE UNCHANGED paperVars
  BY <1>4, SameStreak DEF paperVars
<1> QED BY <1>1, <1>2, <1>3, <1>4 DEF PaperNext

\* The strategy never acts on a market state that confirmation_bars bars in a row
\* did not agree on, however often it is initialised, stopped and started.
THEOREM ConfirmedEver == PaperSpec => Confirmed
<1>1. StreakInv /\ [PaperNext]_paperVars => StreakInv' /\ [ConfirmedStep]_paperVars
  BY StepStreak, AnalyzerAssumption
<1> QED BY <1>1, InitStreak, PTL DEF PaperSpec, Confirmed, ConfirmedStep

---------------------------------------------------------------------------
(* The grid: what the strategy believes to hold                                *)

GridInv ==
  /\ base \in Int /\ lastGrid \in -1 .. GridCount - 1
  /\ buyQueue \in Seq(Grids)
  /\ HoldingsAgree /\ PausedIsFlat

\* The length of two sequences put together.
LEMMA LengthOfConcat ==
  ASSUME NEW S, NEW front \in Seq(S), NEW back \in Seq(S)
  PROVE  Len(front \o back) = Len(front) + Len(back)
  OBVIOUS

\* A finite set of integers can be put in order: number each by those not below it.
LEMMA FromTheTopExists ==
  ASSUME NEW S \in SUBSET Int, IsFiniteSet(S)
  PROVE  \E order \in SetToSeqs(S) : \A i, j \in DOMAIN order : i < j => order[i] > order[j]
<1> DEFINE n == Cardinality(S)
           NotBelow(g) == {h \in S : h >= g}
           rank == [g \in S |-> Cardinality(NotBelow(g))]
<1>1. n \in Nat /\ IsFiniteSet(1..n) /\ Cardinality(1..n) = n
  BY FS_CardinalityType, FS_Interval
<1>2. ASSUME NEW g \in S
      PROVE  IsFiniteSet(NotBelow(g)) /\ Cardinality(NotBelow(g)) \in 1..n
  <2>1. NotBelow(g) \in SUBSET S /\ g \in NotBelow(g)
    OBVIOUS
  <2>2. IsFiniteSet(NotBelow(g)) /\ Cardinality(NotBelow(g)) <= n
    BY <2>1, FS_Subset
  <2>3. Cardinality(NotBelow(g)) \in Nat /\ Cardinality(NotBelow(g)) # 0
    BY <2>1, <2>2, FS_CardinalityType, FS_EmptySet
  <2> QED BY <1>1, <2>2, <2>3
<1>3. ASSUME NEW g \in S, NEW h \in S, g < h
      PROVE  Cardinality(NotBelow(h)) < Cardinality(NotBelow(g))
  <2>1. NotBelow(h) \in SUBSET NotBelow(g) /\ g \in NotBelow(g) /\ g \notin NotBelow(h)
    <3>1. g \in Int /\ h \in Int /\ \A x \in S : x \in Int
      OBVIOUS
    <3>2. \A x \in S : x >= h => x >= g
      BY <1>3, <3>1
    <3>3. g >= g /\ ~(g >= h)
      BY <1>3, <3>1
    <3> QED BY <3>2, <3>3
  <2>2. Cardinality(NotBelow(h)) <= Cardinality(NotBelow(g)) /\ Cardinality(NotBelow(h)) # Cardinality(NotBelow(g))
    BY <1>2, <2>1, FS_Subset
  <2>3. Cardinality(NotBelow(h)) \in 1..n /\ Cardinality(NotBelow(g)) \in 1..n
    BY <1>2
  <2> HIDE DEF NotBelow
  <2> QED BY <1>1, <2>2, <2>3
<1>4. rank \in [S -> 1..n]
  BY <1>2
<1>5. \A g, h \in S : rank[g] = rank[h] => g = h
  <2> SUFFICES ASSUME NEW g \in S, NEW h \in S, g # h PROVE rank[g] # rank[h]
    OBVIOUS
  <2>1. g < h \/ h < g
    OBVIOUS
  <2>2. rank[g] = Cardinality(NotBelow(g)) /\ rank[h] = Cardinality(NotBelow(h))
    OBVIOUS
  <2>3. rank[g] \in 1..n /\ rank[h] \in 1..n
    BY <1>4
  <2> HIDE DEF NotBelow, rank
  <2> QED BY <1>1, <1>3, <2>1, <2>2, <2>3
<1> HIDE DEF rank, n
<1>6. rank \in Surjection(S, 1..n)
  <2>1. rank \in Injection(S, 1..n)
    BY <1>4, <1>5 DEF Injection, IsInjective
  <2>2. Cardinality(S) = Cardinality(1..n)
    BY <1>1 DEF n
  <2> QED BY <1>1, <2>1, <2>2, FS_Injection
<1>7. \A i \in 1..n : \E g \in S : rank[g] = i
  BY <1>6 DEF Surjection
<1> DEFINE order == [i \in 1..n |-> CHOOSE g \in S : rank[g] = i]
<1>8. \A i \in 1..n : order[i] \in S /\ rank[order[i]] = i
  BY <1>7
<1>9. order \in [1..n -> S] /\ DOMAIN order = 1..n
  BY <1>8
<1> HIDE DEF order
<1>10. \A i, j \in 1..n : i # j => order[i] # order[j]
  BY <1>8
<1>11. order \in SetToSeqs(S)
  BY <1>9, <1>10 DEF SetToSeqs, n
<1>12. ASSUME NEW i \in 1..n, NEW j \in 1..n, i < j PROVE order[i] > order[j]
  <2>1. order[i] \in S /\ order[j] \in S /\ rank[order[i]] = i /\ rank[order[j]] = j
    BY <1>8
  <2>2. order[i] \in Int /\ order[j] \in Int /\ order[i] # order[j]
    <3>1. \A x \in S : x \in Int
      OBVIOUS
    <3>2. i # j
      BY <1>12
    <3> QED BY <1>10, <2>1, <3>1, <3>2
  <2>3. CASE order[i] < order[j]
    <3>1. rank[order[j]] < rank[order[i]]
      BY <1>3, <2>1, <2>3 DEF rank
    <3> QED BY <1>1, <1>12, <2>1, <3>1
  <2> QED BY <2>2, <2>3
<1> QED BY <1>9, <1>11, <1>12

LEMMA FromTheTopIs ==
  ASSUME NEW S \in SUBSET Int, IsFiniteSet(S)
  PROVE  /\ Cardinality(S) \in Nat
         /\ FromTheTop(S) \in [1..Cardinality(S) -> S]
         /\ \A i, j \in 1..Cardinality(S) : FromTheTop(S)[i] = FromTheTop(S)[j] => i = j
         /\ \A g \in S : \E i \in 1..Cardinality(S) : FromTheTop(S)[i] = g
<1>1. FromTheTop(S) \in SetToSeqs(S)
  BY FromTheTopExists DEF FromTheTop
<1> QED BY <1>1, InOrder DEF Moves

LEMMA GridConstants ==
  /\ GridCount \in Nat /\ GridCount >= 1 /\ Prices \subseteq Nat /\ BasePrice \in Nat
  /\ Grids \subseteq Int /\ IsFiniteSet(Grids) /\ \A g \in Grids : g >= 0 /\ g <= GridCount - 1
<1>1. GridCount \in Nat /\ GridCount >= 1 /\ Prices \subseteq Nat /\ BasePrice \in Nat
  BY GridAssumption
<1>2. IsFiniteSet(0 .. GridCount - 1)
  BY <1>1, FS_Interval
<1> QED BY <1>1, <1>2 DEF Grids

LEMMA IndexInGrid ==
  ASSUME NEW b \in Int, NEW price \in Prices
  PROVE  GridIndex(b, price) \in Grids
<1>1. GridCount \in Nat /\ GridCount >= 1 /\ price \in Int
  BY GridConstants
<1>2. PICK half \in Int : half = GridCount \div 2
  BY <1>1
<1> QED BY <1>1, <1>2 DEF GridIndex, Level, Grids

LEMMA QueueFacts ==
  ASSUME GridInv
  PROVE  /\ Len(buyQueue) \in Nat /\ DOMAIN buyQueue = 1..Len(buyQueue)
         /\ \A i \in 1..Len(buyQueue) : buyQueue[i] \in Grids /\ gridPositions[buyQueue[i]] = 1
         /\ \A g \in Grids : gridPositions[g] = 1 => \E i \in 1..Len(buyQueue) : buyQueue[i] = g
         /\ \A i, j \in 1..Len(buyQueue) : buyQueue[i] = buyQueue[j] => i = j
         /\ total = Len(buyQueue) /\ gridPositions \in [Grids -> {0, 1}]
<1>1. Len(buyQueue) \in Nat /\ DOMAIN buyQueue = 1..Len(buyQueue)
      /\ \A i \in 1..Len(buyQueue) : buyQueue[i] \in Grids
  BY DEF GridInv
<1>2. {buyQueue[i] : i \in 1..Len(buyQueue)} = {g \in Grids : gridPositions[g] = 1}
  BY <1>1 DEF GridInv, HoldingsAgree, Range
<1>3. \A i, j \in 1..Len(buyQueue) : buyQueue[i] = buyQueue[j] => i = j
  BY <1>1 DEF GridInv, HoldingsAgree, IsInjective
<1>4. total = Len(buyQueue) /\ gridPositions \in [Grids -> {0, 1}]
  BY DEF GridInv, HoldingsAgree
<1> QED BY <1>1, <1>2, <1>3, <1>4

\* The converse, for the state after a step.
LEMMA QueueAgrees ==
  ASSUME NEW queue \in Seq(Grids), NEW held \in [Grids -> {0, 1}],
         \A i \in 1..Len(queue) : held[queue[i]] = 1,
         \A g \in Grids : held[g] = 1 => \E i \in 1..Len(queue) : queue[i] = g,
         \A i, j \in 1..Len(queue) : queue[i] = queue[j] => i = j,
         buyQueue' = queue, gridPositions' = held, total' = Len(queue)
  PROVE  HoldingsAgree'
<1>1. DOMAIN queue = 1..Len(queue) /\ \A i \in 1..Len(queue) : queue[i] \in Grids
  OBVIOUS
<1>2. Range(queue) = {g \in Grids : held[g] = 1}
  BY <1>1 DEF Range
<1>3. IsInjective(queue)
  BY <1>1 DEF IsInjective
<1>4. Range(buyQueue') = {g \in Grids : gridPositions'[g] = 1} /\ IsInjective(buyQueue')
  BY <1>2, <1>3
<1> QED BY <1>4 DEF HoldingsAgree

LEMMA ClearedAgrees ==
  ASSUME Cleared
  PROVE  buyQueue' \in Seq(Grids) /\ HoldingsAgree' /\ PausedIsFlat'
<1>1. buyQueue' = <<>> /\ total' = 0 /\ gridPositions' = [g \in Grids |-> 0]
  BY DEF Cleared, EmptyGrid
<1>2. HoldingsAgree'
  BY <1>1 DEF HoldingsAgree, Range, IsInjective
<1> QED BY <1>1, <1>2 DEF PausedIsFlat

---------------------------------------------------------------------------
(* A bar that crosses levels *)

LEMMA DownAgrees ==
  ASSUME GridInv, NEW from \in Grids, NEW to \in Grids, to < from, NEW price, GridDown(from, to, price)
  PROVE  buyQueue' \in Seq(Grids) /\ HoldingsAgree'
<1>1. PICK new : new = Buys(from, to)
  OBVIOUS
<1>2. /\ new \in SUBSET Grids /\ IsFiniteSet(new) /\ new \in SUBSET Int
      /\ \A g \in new : gridPositions[g] = 0
  <2>1. \A g \in to .. from - 1 : g \in Grids
    BY GridConstants DEF Grids
  <2>2. new \in SUBSET Grids
    BY <1>1, <2>1 DEF Buys
  <2> QED BY <1>1, <2>2, GridConstants, FS_Subset DEF Buys
<1>3. PICK bought : bought = FromTheTop(new)
  OBVIOUS
<1>4. PICK n \in Nat :
        /\ bought \in [1..n -> new]
        /\ \A i, j \in 1..n : bought[i] = bought[j] => i = j
        /\ \A g \in new : \E i \in 1..n : bought[i] = g
  BY <1>2, <1>3, FromTheTopIs
<1>5. bought \in Seq(Grids) /\ Len(bought) = n /\ \A i \in 1..n : bought[i] \in new
  <2>1. \A i \in 1..n : bought[i] \in new
    BY <1>4
  <2>2. bought \in [1..n -> Grids]
    BY <1>2, <1>4, <2>1
  <2>3. bought \in Seq(Grids)
    BY <2>2
  <2> QED BY <2>1, <2>2, <2>3
<1>6. /\ buyQueue' = buyQueue \o bought /\ total' = total + n
      /\ gridPositions' = [g \in Grids |-> IF g \in new THEN 1 ELSE gridPositions[g]]
  BY <1>1, <1>3, <1>5 DEF GridDown
<1>7. PICK m \in Nat : m = Len(buyQueue)
  BY QueueFacts
<1>8. PICK queue : queue = buyQueue \o bought
  OBVIOUS
<1>9. /\ queue \in Seq(Grids) /\ Len(queue) = m + n
      /\ \A i \in 1..m : queue[i] = buyQueue[i]
      /\ \A i \in m+1 .. m+n : queue[i] = bought[i - m] /\ i - m \in 1..n
  <2>1. buyQueue \in Seq(Grids)
    BY DEF GridInv
  <2>2. queue \in Seq(Grids) /\ Len(queue) = m + n
    <3>1. bought \in Seq(Grids) /\ Len(bought) = n
      BY <1>5
    <3>2. queue \in Seq(Grids)
      BY <1>8, <2>1, <3>1
    <3>3. Len(buyQueue \o bought) = Len(buyQueue) + Len(bought)
      BY <2>1, <3>1, LengthOfConcat
    <3> QED BY <1>7, <1>8, <3>1, <3>2, <3>3
  <2>3. \A i \in 1..m : queue[i] = buyQueue[i]
    BY <1>5, <1>7, <1>8, <2>1
  <2>4. \A i \in m+1 .. m+n : i - m \in 1..n
    OBVIOUS
  <2>5. ASSUME NEW i \in m+1 .. m+n PROVE queue[i] = bought[i - m]
    <3>1. i \in 1 .. Len(buyQueue) + Len(bought) /\ i > Len(buyQueue)
      BY <1>5, <1>7
    <3>2. queue[i] = bought[i - Len(buyQueue)]
      BY <1>5, <1>8, <2>1, <3>1
    <3> QED BY <1>7, <3>2
  <2> QED BY <2>2, <2>3, <2>4, <2>5
<1>10. \A i \in 1..(m + n) : i \in 1..m \/ i \in m+1 .. m+n
  OBVIOUS
<1>11. PICK held \in [Grids -> {0, 1}] : held = [g \in Grids |-> IF g \in new THEN 1 ELSE gridPositions[g]]
  BY QueueFacts
<1>12. \A i \in 1..Len(queue) : held[queue[i]] = 1
  <2> SUFFICES ASSUME NEW i \in 1..(m + n) PROVE held[queue[i]] = 1
    BY <1>9
  <2>1. CASE i \in 1..m
    BY <1>7, <1>9, <1>11, <2>1, QueueFacts
  <2>2. CASE i \in m+1 .. m+n
    <3>1. queue[i] \in new
      BY <1>5, <1>9, <2>2
    <3> QED BY <1>2, <1>11, <3>1
  <2> QED BY <1>10, <2>1, <2>2
<1>13. ASSUME NEW g \in Grids, held[g] = 1 PROVE \E i \in 1..Len(queue) : queue[i] = g
  <2>1. CASE g \in new
    <3>1. PICK k \in 1..n : bought[k] = g
      BY <1>4, <2>1
    <3>2. m + k \in m+1 .. m+n /\ (m + k) - m = k
      BY <3>1
    <3>3. queue[m + k] = g /\ m + k \in 1..(m + n)
      BY <1>9, <3>1, <3>2
    <3> QED BY <1>9, <3>3
  <2>2. CASE g \notin new
    <3>1. gridPositions[g] = 1
      BY <1>11, <1>13, <2>2
    <3>2. PICK k \in 1..m : buyQueue[k] = g
      BY <1>7, <3>1, QueueFacts
    <3>3. k \in 1..(m + n) /\ queue[k] = g
      BY <1>9, <3>2
    <3> QED BY <1>9, <3>3
  <2> QED BY <2>1, <2>2
<1>14. ASSUME NEW i \in 1..Len(queue), NEW j \in 1..Len(queue), queue[i] = queue[j] PROVE i = j
  <2>1. i \in 1..(m + n) /\ j \in 1..(m + n)
    BY <1>9
  <2>2. \A k \in 1..m : gridPositions[queue[k]] = 1
    BY <1>7, <1>9, QueueFacts
  <2>3. \A k \in m+1 .. m+n : gridPositions[queue[k]] = 0
    BY <1>2, <1>5, <1>9
  <2>4. CASE i \in 1..m /\ j \in 1..m
    BY <1>7, <1>9, <1>14, <2>4, QueueFacts
  <2>5. CASE i \in m+1 .. m+n /\ j \in m+1 .. m+n
    <3>1. bought[i - m] = bought[j - m] /\ i - m \in 1..n /\ j - m \in 1..n
      BY <1>9, <1>14, <2>5
    <3>2. i - m = j - m
      BY <1>4, <3>1
    <3> QED BY <2>5, <3>2
  <2>6. CASE (i \in 1..m /\ j \in m+1 .. m+n) \/ (j \in 1..m /\ i \in m+1 .. m+n)
    BY <1>14, <2>2, <2>3, <2>6
  <2> QED BY <1>10, <2>1, <2>4, <2>5, <2>6
<1>15. buyQueue' = queue /\ gridPositions' = held /\ total' = Len(queue)
  BY <1>6, <1>7, <1>8, <1>9, <1>11, QueueFacts
<1>16. HoldingsAgree'
  BY <1>9, <1>11, <1>12, <1>13, <1>14, <1>15, QueueAgrees
<1> QED BY <1>9, <1>15, <1>16

LEMMA UpAgrees ==
  ASSUME GridInv, NEW from \in Grids, NEW to \in Grids, from < to, NEW price, GridUp(from, to, price)
  PROVE  buyQueue' \in Seq(Grids) /\ HoldingsAgree'
<1>1. PICK m \in Nat : m = Len(buyQueue)
  BY QueueFacts
<1>2. to - from \in Nat
  BY GridConstants
<1>3. PICK n : n = Min({to - from, m})
  OBVIOUS
<1>4. n \in 0..m
  BY <1>1, <1>2, <1>3 DEF Min
<1>5. PICK sold : sold = Sells(n)
  OBVIOUS
<1>6. PICK head : head = SubSeq(buyQueue, 1, n)
  OBVIOUS
<1>7. head \in Seq(Grids) /\ Len(head) = n /\ \A i \in 1..n : head[i] = buyQueue[i]
  BY <1>1, <1>4, <1>6 DEF GridInv
<1>8. sold = {buyQueue[i] : i \in 1..n}
  <2>1. DOMAIN head = 1..n
    BY <1>7
  <2>2. \A i \in 1..n : gridPositions[buyQueue[i]] = 1
    BY <1>1, <1>4, QueueFacts
  <2> QED BY <1>5, <1>6, <1>7, <2>1, <2>2 DEF Sells, Range
<1>9. Cardinality(sold) = n
  <2>1. IsFiniteSet(1..n) /\ Cardinality(1..n) = n
    BY <1>1, <1>4, FS_Interval
  <2>2. [i \in 1..n |-> buyQueue[i]] \in Surjection(1..n, sold)
    BY <1>8 DEF Surjection
  <2>3. \A i, j \in 1..n : buyQueue[i] = buyQueue[j] => i = j
    BY <1>1, <1>4, QueueFacts
  <2>4. [i \in 1..n |-> buyQueue[i]] \in Injection(1..n, sold)
    BY <1>8, <2>3 DEF Injection, IsInjective
  <2> QED BY <2>1, <2>2, <2>4, FS_Surjection
<1>10. /\ buyQueue' = SubSeq(buyQueue, n + 1, m) /\ total' = total - n
       /\ gridPositions' = [g \in Grids |-> IF g \in sold THEN 0 ELSE gridPositions[g]]
  BY <1>1, <1>3, <1>5, <1>9 DEF GridUp
<1>11. PICK queue : queue = SubSeq(buyQueue, n + 1, m)
  OBVIOUS
<1>12. /\ queue \in Seq(Grids) /\ Len(queue) = m - n
       /\ \A i \in 1..(m - n) : queue[i] = buyQueue[n + i] /\ n + i \in 1..m
  BY <1>1, <1>4, <1>11 DEF GridInv
<1>13. PICK held \in [Grids -> {0, 1}] : held = [g \in Grids |-> IF g \in sold THEN 0 ELSE gridPositions[g]]
  BY QueueFacts
<1>14. \A i \in 1..Len(queue) : held[queue[i]] = 1
  <2> SUFFICES ASSUME NEW i \in 1..(m - n) PROVE held[queue[i]] = 1
    BY <1>12
  <2>1. queue[i] = buyQueue[n + i] /\ n + i \in 1..m /\ n + i > n
    BY <1>1, <1>4, <1>12
  <2>2. queue[i] \in Grids /\ gridPositions[queue[i]] = 1
    BY <1>1, <2>1, QueueFacts
  <2>3. \A k \in 1..n : buyQueue[k] # buyQueue[n + i]
    BY <1>1, <1>4, <2>1, QueueFacts
  <2>4. queue[i] \notin sold
    BY <1>8, <2>1, <2>3
  <2> QED BY <1>13, <2>2, <2>4
<1>15. ASSUME NEW g \in Grids, held[g] = 1 PROVE \E i \in 1..Len(queue) : queue[i] = g
  <2>1. g \notin sold /\ gridPositions[g] = 1
    BY <1>13, <1>15
  <2>2. PICK k \in 1..m : buyQueue[k] = g
    BY <1>1, <2>1, QueueFacts
  <2>3. k \notin 1..n
    BY <1>8, <2>1, <2>2
  <2>4. k - n \in 1..(m - n) /\ n + (k - n) = k
    BY <1>1, <1>4, <2>3
  <2>5. queue[k - n] = g
    BY <1>12, <2>2, <2>4
  <2> QED BY <1>12, <2>4, <2>5
<1>16. ASSUME NEW i \in 1..Len(queue), NEW j \in 1..Len(queue), queue[i] = queue[j] PROVE i = j
  <2>1. /\ buyQueue[n + i] = buyQueue[n + j] /\ n + i \in 1..m /\ n + j \in 1..m
        /\ i \in Int /\ j \in Int /\ n \in Int
    BY <1>4, <1>12, <1>16
  <2>2. n + i = n + j
    BY <1>1, <2>1, QueueFacts
  <2> QED BY <2>1, <2>2
<1>17. buyQueue' = queue /\ gridPositions' = held /\ total' = Len(queue)
  BY <1>1, <1>10, <1>11, <1>12, <1>13, QueueFacts
<1>18. HoldingsAgree'
  BY <1>12, <1>13, <1>14, <1>15, <1>16, <1>17, QueueAgrees
<1> QED BY <1>12, <1>17, <1>18

---------------------------------------------------------------------------
(* The strategy's steps *)

LEMMA InitGrid == PaperInit => GridInv
<1> SUFFICES ASSUME PaperInit PROVE GridInv
  OBVIOUS
<1>1. /\ base = BasePrice /\ lastGrid = -1 /\ buyQueue = <<>> /\ total = 0
      /\ gridPositions = [g \in Grids |-> 0]
  BY DEF PaperInit, GridInit, EmptyGrid
<1>2. HoldingsAgree
  BY <1>1 DEF HoldingsAgree, Range, IsInjective
<1> QED BY <1>1, <1>2, GridConstants DEF GridInv, PausedIsFlat

LEMMA GridStands ==
  ASSUME GridInv, UNCHANGED <<base, gridPositions, buyQueue, total, lastGrid>>,
         trading' = trading \/ trading' = TRUE
  PROVE  GridInv'
<1>1. HoldingsAgree'
  BY DEF GridInv, HoldingsAgree
<1>2. PausedIsFlat'
  BY DEF GridInv, PausedIsFlat
<1> QED BY <1>1, <1>2 DEF GridInv

LEMMA TransitionKeeps ==
  ASSUME GridInv, NEW price \in Prices, TransitionToTrending(price) \/ TransitionToConsolidation(price)
  PROVE  GridInv'
<1>1. price \in Int /\ base \in Int
  BY GridConstants DEF GridInv
<1>2. base' \in Int /\ lastGrid' \in -1 .. GridCount - 1
  <2>1. GridIndex(base, price) \in Grids /\ GridIndex(price, price) \in Grids
    BY <1>1, IndexInGrid
  <2>2. base' = base \/ base' = price
    BY DEF TransitionToTrending, TransitionToConsolidation
  <2>3. lastGrid' \in Grids
    BY <2>1 DEF TransitionToTrending, TransitionToConsolidation
  <2> QED BY <1>1, <2>2, <2>3, GridConstants DEF Grids
<1>3. CASE Cleared
  BY <1>2, <1>3, ClearedAgrees DEF GridInv
<1>4. CASE ~Cleared
  <2>1. UNCHANGED <<gridPositions, buyQueue, total>> /\ ~(total > 0)
    BY <1>4 DEF TransitionToTrending, TransitionToConsolidation
  <2>2. total = Len(buyQueue) /\ Len(buyQueue) \in Nat
    BY QueueFacts
  <2>3. total = 0 /\ buyQueue = <<>>
    BY <2>1, <2>2 DEF GridInv
  <2>4. HoldingsAgree' /\ PausedIsFlat'
    BY <2>1, <2>3 DEF GridInv, HoldingsAgree, PausedIsFlat
  <2>5. buyQueue' \in Seq(Grids)
    BY <2>1 DEF GridInv
  <2> QED BY <1>2, <2>4, <2>5 DEF GridInv
<1> QED BY <1>3, <1>4

LEMMA StopLossKeeps ==
  ASSUME GridInv, NEW price, StopLoss(price)
  PROVE  GridInv'
<1>1. Cleared /\ base' = base /\ lastGrid' = lastGrid
  BY DEF StopLoss
<1> QED BY <1>1, ClearedAgrees DEF GridInv

LEMMA TradeKeeps ==
  ASSUME GridInv, NEW price \in Prices, trading, GridTrade(price)
  PROVE  GridInv'
<1>1. PICK index : index = GridIndex(base, price)
  OBVIOUS
<1>2. index \in Grids /\ base \in Int
  BY <1>1, IndexInGrid DEF GridInv
<1>3. /\ lastGrid' = index /\ base' = base /\ trading' = trading
      /\ lastGrid >= 0 => lastGrid \in Grids
  BY <1>1 DEF GridTrade, GridInv, Grids
<1>4. buyQueue' \in Seq(Grids) /\ HoldingsAgree'
  <2>1. CASE lastGrid >= 0 /\ index > lastGrid
    <3>1. GridUp(lastGrid, index, price)
      BY <1>1, <2>1 DEF GridTrade
    <3>2. lastGrid < index
      BY <1>2, <1>3, <2>1, GridConstants
    <3> QED BY <1>2, <1>3, <2>1, <3>1, <3>2, UpAgrees
  <2>2. CASE lastGrid >= 0 /\ index < lastGrid
    <3>1. GridDown(lastGrid, index, price)
      <4>1. ~(index > lastGrid)
        <5>1. index \in Int /\ lastGrid \in Int
          BY <1>2, <1>3, <2>2, GridConstants
        <5> QED BY <2>2, <5>1
      <4> QED BY <1>1, <2>2, <4>1 DEF GridTrade
    <3> QED BY <1>2, <1>3, <2>2, <3>1, DownAgrees
  <2>3. CASE ~(lastGrid >= 0 /\ index > lastGrid) /\ ~(lastGrid >= 0 /\ index < lastGrid)
    <3>1. UNCHANGED <<gridPositions, buyQueue, total>>
      BY <1>1, <2>3 DEF GridTrade
    <3> QED BY <3>1 DEF GridInv, HoldingsAgree
  <2> QED BY <2>1, <2>2, <2>3
<1>5. PausedIsFlat'
  BY <1>3 DEF PausedIsFlat
<1>6. lastGrid' \in -1 .. GridCount - 1
  BY <1>2, <1>3, GridConstants DEF Grids
<1> QED BY <1>2, <1>3, <1>4, <1>5, <1>6 DEF GridInv

LEMMA BarKeeps ==
  ASSUME GridInv, NEW verdict \in Verdict, NEW price \in Prices, OnBar(price, verdict)
  PROVE  GridInv'
<1>1. CASE ~inited \/ ~trading
  BY <1>1, GridStands DEF OnBar, gridVars
<1>2. CASE inited /\ trading
  <2>1. OnState(price)
    BY <1>2 DEF OnBar
  <2>2. CASE TransitionToTrending(price) \/ TransitionToConsolidation(price)
    BY <2>2, TransitionKeeps
  <2>3. CASE StopLoss(price)
    BY <2>3, StopLossKeeps
  <2>4. CASE GridTrade(price)
    BY <1>2, <2>4, TradeKeeps
  <2>5. CASE UNCHANGED gridVars
    BY <2>5, GridStands DEF gridVars
  <2>6. CASE /\ lastGrid' = GridIndex(base, price)
             /\ UNCHANGED <<base, gridPositions, buyQueue, total, trading>>
    <3>1. lastGrid' \in -1 .. GridCount - 1
      <4>1. lastGrid' \in Grids
        BY <2>6, IndexInGrid DEF GridInv
      <4> QED BY <4>1, GridConstants DEF Grids
    <3> QED BY <2>6, <3>1 DEF GridInv, HoldingsAgree, PausedIsFlat
  <2> QED BY <2>1, <2>2, <2>3, <2>4, <2>5, <2>6 DEF OnState
<1> QED BY <1>1, <1>2

LEMMA GridStep == ASSUME GridInv, [PaperNext]_paperVars PROVE GridInv'
<1>1. CASE InitStrategy
  BY <1>1, GridStands DEF InitStrategy, OnInit
<1>2. CASE StartStrategy
  BY <1>2, GridStands DEF StartStrategy, OnStart
<1>3. CASE StopStrategy \/ Tick \/ UNCHANGED paperVars
  BY <1>3, GridStands DEF StopStrategy, Tick, paperVars, gridVars
<1>4. CASE Bar
  <2>1. PICK verdict \in Verdict, price \in Prices : OnBar(price, verdict)
    BY <1>4 DEF Bar, BarWith
  <2> QED BY <2>1, BarKeeps
<1> QED BY <1>1, <1>2, <1>3, <1>4 DEF PaperNext

\* The strategy's four records of what it holds agree, through any bars, crossings of
\* any number of levels, stop losses, transitions and restarts.
THEOREM HoldingsAgreeEver == PaperSpec => []HoldingsAgree
<1>1. GridInv /\ [PaperNext]_paperVars => GridInv'
  BY GridStep
<1>2. GridInv => HoldingsAgree
  BY DEF GridInv
<1> QED BY <1>1, <1>2, InitGrid, PTL DEF PaperSpec

\* It never stops trading on a position that it would not watch.
THEOREM PausedIsFlatEver == PaperSpec => []PausedIsFlat
<1>1. GridInv /\ [PaperNext]_paperVars => GridInv'
  BY GridStep
<1>2. GridInv => PausedIsFlat
  BY DEF GridInv
<1> QED BY <1>1, <1>2, InitGrid, PTL DEF PaperSpec

---------------------------------------------------------------------------
(* What the paper broker holds of the grid strategy                             *)

Signed(o) == IF o.long THEN o.volume ELSE -o.volume
PaperOrders == [long : BOOLEAN, price : Int, volume : Nat]
Volumes(os) == [i \in 1..Len(os) |-> Signed(os[i])]
ExplainedInv ==
  /\ openOrders \in Seq(PaperOrders)
  /\ heldVolume \in Nat /\ conjured \in Nat /\ abandoned \in Nat
  /\ HoldingsExplained

LEMMA VolumesTyped ==
  ASSUME NEW os \in Seq(PaperOrders)
  PROVE  /\ Len(os) \in Nat /\ Volumes(os) \in [1..Len(os) -> Int]
         /\ \A i \in 1..Len(os) : os[i] \in PaperOrders /\ Volumes(os)[i] = Signed(os[i])
<1>1. Len(os) \in Nat /\ \A i \in 1..Len(os) : os[i] \in PaperOrders
  OBVIOUS
<1>2. \A o \in PaperOrders : Signed(o) \in Int
  BY DEF PaperOrders, Signed
<1> QED BY <1>1, <1>2 DEF Volumes

LEMMA NetIsSum ==
  ASSUME NEW os \in Seq(PaperOrders)
  PROVE  NetVolume(os) = SumOver(Volumes(os), 1..Len(os))
<1>a. PICK S, w, pick : /\ S = 1..Len(os) /\ w = Volumes(os)
                        /\ pick = [s \in (SUBSET S) \ {{}} |-> Max(s)]
  OBVIOUS
<1> DEFINE Folds(iter) == iter = [s \in SUBSET S |-> IF s = {} THEN 0
                                                     ELSE iter[s \ {Max(s)}] + Signed(os[Max(s)])]
<1>1. Len(os) \in Nat /\ w \in [S -> Int] /\ \A i \in S : w[i] = Signed(os[i]) /\ w[i] \in Int
  BY <1>a, VolumesTyped
<1>2. Picks(pick, S) /\ IsFiniteSet(S)
  BY <1>a, <1>1, MaxPicks
<1>3. \A s \in SUBSET S : s # {} => pick[s] = Max(s) /\ Max(s) \in S
  BY <1>a, <1>2 DEF Picks
<1>4. NetVolume(os) = (CHOOSE iter : Folds(iter))[S]
  <2>1. DOMAIN os = S
    BY <1>a
  <2> QED BY <2>1 DEF NetVolume, FoldLeft, MapThenFoldSet, Signed
<1>5. PICK fold : AddsBy(fold, S, w, pick)
  BY <1>1, <1>2, AddingFold
<1>6. Folds(fold)
  <2>1. ASSUME NEW s \in SUBSET S, s # {}
        PROVE  fold[s] = fold[s \ {Max(s)}] + Signed(os[Max(s)])
    <3>1. fold[s] = w[Max(s)] + fold[s \ {Max(s)}]
      BY <1>3, <1>5, <2>1 DEF AddsBy
    <3>2. Max(s) \in S /\ s \ {Max(s)} \in SUBSET S
      BY <1>3, <2>1
    <3>3. fold[s \ {Max(s)}] \in Int
      BY <1>5, <3>2 DEF AddsBy
    <3> QED BY <1>1, <3>1, <3>2, <3>3
  <2> QED BY <1>5, <2>1 DEF AddsBy
<1>7. PICK iter : iter = (CHOOSE f : Folds(f)) /\ Folds(iter)
  <2> HIDE DEF Folds
  <2> QED BY <1>6
<1>8. iter[S] = SumOver(w, S)
  <2>1. iter[{}] = 0
    BY <1>7
  <2>2. ASSUME NEW s \in SUBSET S, s # {}, iter[s \ {pick[s]}] \in Int
        PROVE  iter[s] = w[pick[s]] + iter[s \ {pick[s]}]
    <3>1. pick[s] = Max(s) /\ Max(s) \in S
      BY <1>3, <2>2
    <3>2. iter[s] = iter[s \ {Max(s)}] + Signed(os[Max(s)])
      BY <1>7, <2>2
    <3> QED BY <1>1, <2>2, <3>1, <3>2
  <2>3. AddsUp(iter, S, w, pick)
    BY <2>1, <2>2 DEF AddsUp
  <2> QED BY <1>1, <1>2, <2>3, FoldIsSum
<1> QED BY <1>a, <1>4, <1>7, <1>8

\* The sum over two disjoint parts.
LEMMA SumParts ==
  ASSUME NEW S, IsFiniteSet(S), NEW w \in [S -> Int], NEW r \in SUBSET S, NEW t \in SUBSET S, r \cap t = {}
  PROVE  SumOver(w, r \cup t) = SumOver(w, r) + SumOver(w, t)
  BY SumSplit, SMTT(60)

\* What is placed adds its volume to what is open.
LEMMA PlacedAdds ==
  ASSUME NEW os \in Seq(PaperOrders), NEW new \in Seq(PaperOrders)
  PROVE  /\ os \o new \in Seq(PaperOrders)
         /\ NetVolume(os \o new) = NetVolume(os) + NetVolume(new)
         /\ NetVolume(os) \in Int /\ NetVolume(new) \in Int
<1>a. PICK both, m, n, M, N, MN, R, v, f :
        /\ both = os \o new /\ m = Len(os) /\ n = Len(new)
        /\ M = 1..m /\ N = 1..n /\ R = m+1 .. m+n /\ MN = 1..(m + n)
        /\ v = Volumes(both) /\ f = [i \in N |-> m + i]
  OBVIOUS
<1>1. both \in Seq(PaperOrders) /\ Len(both) = m + n /\ m \in Nat /\ n \in Nat
      /\ \A i \in M : both[i] = os[i]
  BY <1>a
<1>b. \A i \in N : both[m + i] = new[i]
  BY <1>a
<1>2. IsFiniteSet(M) /\ IsFiniteSet(N) /\ IsFiniteSet(MN)
  <2>1. 1 \in Int /\ m \in Int /\ n \in Int /\ m + n \in Int
    BY <1>1
  <2> QED BY <1>a, <2>1, FS_Interval
<1>3. M \in SUBSET MN /\ R \in SUBSET MN /\ M \cap R = {} /\ M \cup R = MN
  BY <1>a, <1>1
<1>4. v \in [MN -> Int] /\ Volumes(os) \in [M -> Int] /\ Volumes(new) \in [N -> Int]
  BY <1>a, <1>1, VolumesTyped
<1>5. /\ \A i \in MN : v[i] = Signed(both[i])
      /\ \A i \in M : Volumes(os)[i] = Signed(os[i])
      /\ \A i \in N : Volumes(new)[i] = Signed(new[i])
  BY <1>a, <1>1, VolumesTyped
<1>6. SumOver(v, MN) = SumOver(v, M) + SumOver(v, R)
  <2>1. SumOver(v, M \cup R) = SumOver(v, M) + SumOver(v, R)
    <3>1. IsFiniteSet(MN) /\ v \in [MN -> Int]
      BY <1>2, <1>4
    <3>2. M \in SUBSET MN /\ R \in SUBSET MN /\ M \cap R = {}
      BY <1>3
    <3> QED BY <3>1, <3>2, SumParts, SMTT(60)
  <2> QED BY <1>3, <2>1
<1>7. SumOver(v, M) = SumOver(Volumes(os), M)
  <2>1. \A i \in M : v[i] = Volumes(os)[i]
    BY <1>1, <1>3, <1>5
  <2>2. M \in SUBSET MN /\ M \in SUBSET M
    BY <1>3
  <2>3. IsFiniteSet(MN) /\ v \in [MN -> Int]
    BY <1>2, <1>4
  <2>4. IsFiniteSet(M) /\ Volumes(os) \in [M -> Int]
    BY <1>2, <1>4
  <2> QED BY <2>1, <2>2, <2>3, <2>4, SumCompare, SMTT(60)
<1>8. SumOver(Volumes(new), N) = SumOver(v, R)
  <2>1. \A i \in N : f[i] = m + i /\ m + i \in R /\ i \in Int
    BY <1>a, <1>1
  <2>2. \A i, j \in N : f[i] = f[j] => i = j
    BY <1>1, <2>1
  <2>3. f \in [N -> MN]
    BY <1>a, <1>3, <2>1
  <2>4. \A i \in N : Volumes(new)[i] = v[f[i]]
    <3>1. \A i \in N : m + i \in MN /\ f[i] = m + i
      BY <1>3, <2>1
    <3>2. \A i \in N : v[f[i]] = Signed(both[m + i])
      BY <1>5, <3>1
    <3>3. \A i \in N : Volumes(new)[i] = Signed(both[m + i])
      <4>1. \A i \in N : Volumes(new)[i] = Signed(new[i])
        BY <1>5
      <4> QED BY <1>b, <4>1
    <3> QED BY <3>2, <3>3
  <2>5. {f[i] : i \in N} = R
    <3>1. \A k \in R : k - m \in N /\ m + (k - m) = k
      BY <1>a, <1>1
    <3> QED BY <2>1, <3>1
  <2>6. SumOver(Volumes(new), N) = SumOver(v, {f[i] : i \in N})
    <3>1. Moves(f, N, MN)
      BY <2>2, <2>3 DEF Moves
    <3>2. IsFiniteSet(MN) /\ v \in [MN -> Int]
      BY <1>2, <1>4
    <3>3. IsFiniteSet(N) /\ Volumes(new) \in [N -> Int]
      BY <1>2, <1>4
    <3> QED BY <2>4, <3>1, <3>2, <3>3, SumMoved
  <2> QED BY <2>5, <2>6
<1>9. NetVolume(both) = SumOver(v, MN) /\ NetVolume(os) = SumOver(Volumes(os), M)
      /\ NetVolume(new) = SumOver(Volumes(new), N)
  BY <1>a, <1>1, NetIsSum
<1>10. SumOver(Volumes(os), M) \in Int /\ SumOver(Volumes(new), N) \in Int
  BY <1>2, <1>4, SumRules
<1> QED BY <1>a, <1>1, <1>6, <1>7, <1>8, <1>9, <1>10

\* Orders of one volume and one side.
LEMMA NetOfEqual ==
  ASSUME NEW o \in PaperOrders, NEW n \in Nat
  PROVE  /\ [i \in 1..n |-> o] \in Seq(PaperOrders)
         /\ NetVolume([i \in 1..n |-> o]) = n * Signed(o)
<1> DEFINE os(k) == [i \in 1..k |-> o]
           good == {k \in Nat : NetVolume(os(k)) = k * Signed(o)}
<1>1. \A k \in Nat : os(k) \in Seq(PaperOrders) /\ Len(os(k)) = k
  OBVIOUS
<1>2. Signed(o) \in Int
  BY DEF PaperOrders, Signed
<1>3. NetVolume(<<o>>) = Signed(o) /\ NetVolume(<<>>) = 0
  <2>1. PICK one, none, v, w : one = <<o>> /\ none = <<>> /\ v = Volumes(one) /\ w = Volumes(none)
    OBVIOUS
  <2>2. /\ one \in Seq(PaperOrders) /\ Len(one) = 1 /\ one[1] = o
        /\ none \in Seq(PaperOrders) /\ Len(none) = 0
    BY <2>1
  <2>3. PICK S : S = 1..1
    OBVIOUS
  <2>4. S = {1} /\ {1} \ {1} = {} /\ 1..0 = {} /\ 1 \in S
    BY <2>3
  <2>5. IsFiniteSet(S) /\ IsFiniteSet({}) /\ S \in SUBSET S
    BY <2>4, FS_EmptySet, FS_Singleton
  <2>6. v \in [S -> Int] /\ v[1] = Signed(o) /\ w \in [{} -> Int]
    <3>1. v \in [1..Len(one) -> Int] /\ w \in [1..Len(none) -> Int]
      BY <2>1, <2>2, VolumesTyped
    <3>2. \A i \in 1..Len(one) : v[i] = Signed(one[i])
      BY <2>1, <2>2, VolumesTyped
    <3> QED BY <2>2, <2>3, <2>4, <3>1, <3>2
  <2>7. NetVolume(one) = SumOver(v, S) /\ NetVolume(none) = SumOver(w, {})
    BY <2>1, <2>2, <2>3, <2>4, NetIsSum
  <2>8. SumOver(w, {}) = 0 /\ SumOver(v, {}) = 0
    BY <2>5, <2>6, SumRules
  <2>9. SumOver(v, S) = v[1] + SumOver(v, S \ {1})
    BY <2>4, <2>5, <2>6, SumRules
  <2>10. SumOver(v, S) = Signed(o) + 0
    BY <2>4, <2>6, <2>8, <2>9
  <2> QED BY <1>2, <2>1, <2>7, <2>8, <2>10
<1>4. 0 \in good
  <2>1. os(0) = <<>>
    OBVIOUS
  <2> QED BY <1>2, <1>3, <2>1
<1>5. ASSUME NEW k \in Nat, k \in good PROVE k + 1 \in good
  <2>1. os(k + 1) = os(k) \o <<o>>
    OBVIOUS
  <2>2. <<o>> \in Seq(PaperOrders)
    OBVIOUS
  <2>3. NetVolume(os(k) \o <<o>>) = NetVolume(os(k)) + NetVolume(<<o>>)
    BY <1>1, <2>2, PlacedAdds
  <2>4. NetVolume(os(k)) = k * Signed(o)
    BY <1>5
  <2>5. (k + 1) * Signed(o) = k * Signed(o) + Signed(o)
    BY <1>2
  <2>6. NetVolume(os(k + 1)) = (k + 1) * Signed(o)
    <3> HIDE DEF os
    <3> QED BY <1>3, <2>1, <2>3, <2>4, <2>5
  <2>7. k + 1 \in Nat
    OBVIOUS
  <2> QED BY <2>6, <2>7
<1>6. n \in good
  <2>1. good \in SUBSET Nat
    OBVIOUS
  <2> HIDE DEF good
  <2> QED BY <1>4, <1>5, <2>1, CountingUp
<1> QED BY <1>1, <1>6

---------------------------------------------------------------------------
(* The market reaches the prices of some orders *)

LEMMA AscendingExists ==
  ASSUME NEW S \in SUBSET Int, IsFiniteSet(S)
  PROVE  \E order \in SetToSeqs(S) : \A i, j \in DOMAIN order : i < j => order[i] < order[j]
<1>1. PICK down \in SetToSeqs(S) : \A i, j \in DOMAIN down : i < j => down[i] > down[j]
  BY FromTheTopExists
<1>2. PICK n : n = Cardinality(S)
  OBVIOUS
<1>3. n \in Nat /\ down \in [1..n -> S] /\ \A i, j \in 1..n : i # j => down[i] # down[j]
  BY <1>1, <1>2, FS_CardinalityType DEF SetToSeqs
<1>4. PICK order : order = [i \in 1..n |-> down[n + 1 - i]]
  OBVIOUS
<1>5. \A i \in 1..n : n + 1 - i \in 1..n /\ order[i] = down[n + 1 - i]
  BY <1>3, <1>4
<1>6. order \in [1..n -> S]
  BY <1>3, <1>4, <1>5
<1>7. \A i, j \in 1..n : i # j => order[i] # order[j]
  <2> SUFFICES ASSUME NEW i \in 1..n, NEW j \in 1..n, i # j PROVE order[i] # order[j]
    OBVIOUS
  <2>1. n + 1 - i # n + 1 - j
    BY <1>3
  <2> QED BY <1>3, <1>5, <2>1
<1>8. \A i, j \in 1..n : i < j => order[i] < order[j]
  <2> SUFFICES ASSUME NEW i \in 1..n, NEW j \in 1..n, i < j PROVE order[i] < order[j]
    OBVIOUS
  <2>1. n + 1 - j < n + 1 - i
    BY <1>3
  <2>2. DOMAIN down = 1..n
    BY <1>3
  <2>3. down[n + 1 - j] > down[n + 1 - i]
    BY <1>1, <1>5, <2>1, <2>2
  <2>4. down[n + 1 - j] \in S /\ down[n + 1 - i] \in S
    BY <1>3, <1>5
  <2>5. \A x \in S : x \in Int
    OBVIOUS
  <2> QED BY <1>5, <2>3, <2>4, <2>5
<1>9. order \in SetToSeqs(S)
  BY <1>2, <1>6, <1>7 DEF SetToSeqs
<1> QED BY <1>6, <1>8, <1>9

\* What stays open stays open with its volume.
LEMMA NetAtPlaces ==
  ASSUME openOrders \in Seq(PaperOrders), NEW places \in SUBSET (1..Len(openOrders))
  PROVE  /\ OrdersAt(places) \in Seq(PaperOrders)
         /\ NetVolume(OrdersAt(places)) = SumOver(Volumes(openOrders), places)
<1>1. PICK n, All, w : n = Len(openOrders) /\ All = 1..n /\ w = Volumes(openOrders)
  OBVIOUS
<1>2. n \in Nat /\ w \in [All -> Int]
  BY <1>1, VolumesTyped
<1>3. \A i \in All : openOrders[i] \in PaperOrders /\ w[i] = Signed(openOrders[i])
  BY <1>1, VolumesTyped
<1>4. IsFiniteSet(All) /\ IsFiniteSet(places) /\ places \in SUBSET All /\ places \in SUBSET Int
  <2>1. n \in Int /\ 1 \in Int
    BY <1>2
  <2>2. IsFiniteSet(All)
    BY <1>1, <2>1, FS_Interval
  <2>3. places \in SUBSET All
    BY <1>1
  <2>4. IsFiniteSet(places)
    BY <2>2, <2>3, FS_Subset
  <2>5. places \in SUBSET Int
    BY <1>1, <2>3
  <2> QED BY <2>2, <2>3, <2>4, <2>5
<1>5. PICK order \in SetToSeqs(places) :
        order = CHOOSE p \in SetToSeqs(places) : \A i, j \in DOMAIN p : i < j => p[i] < p[j]
  BY <1>4, AscendingExists
<1>6. PICK k, K : k = Cardinality(places) /\ K = 1..k
  OBVIOUS
<1>7. /\ k \in Nat /\ order \in [K -> places] /\ Moves(order, K, places)
      /\ {order[i] : i \in K} = places
  BY <1>4, <1>6, InOrder
<1>8. PICK os : os = OrdersAt(places)
  OBVIOUS
<1>9. os = [i \in K |-> openOrders[order[i]]]
  BY <1>5, <1>7, <1>8 DEF OrdersAt
<1>10. \A i \in K : order[i] \in All /\ os[i] = openOrders[order[i]] /\ os[i] \in PaperOrders
  BY <1>3, <1>4, <1>7, <1>9
<1>11. os \in Seq(PaperOrders) /\ Len(os) = k
  <2>1. os \in [1..k -> PaperOrders]
    BY <1>6, <1>9, <1>10
  <2> QED BY <1>7, <2>1
<1>12. PICK v : v = Volumes(os)
  OBVIOUS
<1>13. v \in [K -> Int] /\ IsFiniteSet(K) /\ NetVolume(os) = SumOver(v, K)
  <2>1. k \in Int /\ 1 \in Int
    BY <1>7
  <2> QED BY <1>6, <1>11, <1>12, <2>1, VolumesTyped, NetIsSum, FS_Interval
<1>14. \A i \in K : v[i] = w[order[i]]
  <2>1. \A i \in K : v[i] = Signed(os[i])
    BY <1>6, <1>11, <1>12, VolumesTyped
  <2> QED BY <1>3, <1>10, <2>1
<1>15. Moves(order, K, All)
  <2>1. order \in [K -> All]
    BY <1>4, <1>7
  <2> QED BY <1>7, <2>1 DEF Moves
<1>16. SumOver(v, K) = SumOver(w, {order[i] : i \in K})
  <2>1. IsFiniteSet(K) /\ v \in [K -> Int]
    BY <1>13
  <2> QED BY <1>2, <1>4, <1>14, <1>15, <2>1, SumMoved, SMTT(60)
<1> QED BY <1>1, <1>7, <1>8, <1>11, <1>13, <1>16

Accounts == [heldVolume : Nat, conjured : Nat]

\* One fill moves what is held, less what was conjured, by the order's volume.
LEMMA FillMoves ==
  ASSUME NEW a \in Accounts, NEW o \in PaperOrders
  PROVE  /\ ExecuteFill(a, o) \in Accounts
         /\ ExecuteFill(a, o).heldVolume - ExecuteFill(a, o).conjured
              = a.heldVolume - a.conjured + Signed(o)
<1>1. a.heldVolume \in Nat /\ a.conjured \in Nat /\ o.volume \in Nat
  BY DEF Accounts, PaperOrders
<1>2. PICK x, left : x = Signed(o) /\ left = a.heldVolume + x
  OBVIOUS
<1>3. x \in Int /\ left \in Int
  BY <1>1, <1>2 DEF Signed
<1>4. ExecuteFill(a, o) = IF left >= 0 THEN [a EXCEPT !.heldVolume = left]
                          ELSE [heldVolume |-> 0, conjured |-> a.conjured - left]
  BY <1>2 DEF ExecuteFill, Signed
<1>5. CASE left >= 0
  <2>1. ExecuteFill(a, o) = [heldVolume |-> left, conjured |-> a.conjured]
    BY <1>4, <1>5 DEF Accounts
  <2> QED BY <1>1, <1>2, <1>3, <1>5, <2>1 DEF Accounts
<1>6. CASE ~(left >= 0)
  <2>1. ExecuteFill(a, o) = [heldVolume |-> 0, conjured |-> a.conjured - left]
    BY <1>4, <1>6
  <2>2. a.conjured - left \in Nat
    BY <1>1, <1>3, <1>6
  <2> QED BY <1>1, <1>2, <1>3, <2>1, <2>2 DEF Accounts
<1> QED BY <1>5, <1>6

Walked(from, walk) == FoldLeft(LAMBDA a, i : ExecuteFill(a, openOrders[i]), from, walk)

\* The fills of a walk, in whatever order.
LEMMA WalkMoves ==
  ASSUME openOrders \in Seq(PaperOrders), NEW from \in Accounts,
         NEW met \in SUBSET (1..Len(openOrders)), NEW walk \in SetToSeqs(met),
         NEW after, after = Walked(from, walk)
  PROVE  /\ after \in Accounts
         /\ after.heldVolume - after.conjured
              = from.heldVolume - from.conjured + SumOver(Volumes(openOrders), met)
<1>1. PICK n, All, w : n = Len(openOrders) /\ All = 1..n /\ w = Volumes(openOrders)
  OBVIOUS
<1>2. w \in [All -> Int]
  BY <1>1, VolumesTyped
<1>b. n \in Nat
  BY <1>1, VolumesTyped
<1>3. \A i \in All : openOrders[i] \in PaperOrders /\ w[i] = Signed(openOrders[i])
  BY <1>1, VolumesTyped
<1>4. IsFiniteSet(All) /\ IsFiniteSet(met) /\ met \in SUBSET All
  <2>1. n \in Int /\ 1 \in Int
    BY <1>b
  <2>2. IsFiniteSet(All)
    BY <1>1, <2>1, FS_Interval
  <2>3. met \in SUBSET All
    BY <1>1
  <2> QED BY <2>2, <2>3, FS_Subset
<1>5. PICK k, K : k = Cardinality(met) /\ K = 1..k
  OBVIOUS
<1>6. /\ k \in Nat /\ walk \in [K -> met] /\ Moves(walk, K, met)
      /\ {walk[i] : i \in K} = met
  BY <1>4, <1>5, InOrder
<1>7. PICK pick : pick = [s \in (SUBSET K) \ {{}} |-> Max(s)]
  OBVIOUS
<1>8. Picks(pick, K) /\ IsFiniteSet(K)
  BY <1>5, <1>6, <1>7, MaxPicks
<1>9. \A s \in SUBSET K : s # {} => pick[s] = Max(s) /\ Max(s) \in s /\ Max(s) \in K
  BY <1>7, <1>8 DEF Picks
<1>10. \A i \in K : walk[i] \in All /\ openOrders[walk[i]] \in PaperOrders
  BY <1>3, <1>4, <1>6
<1> DEFINE Folds(iter) ==
      iter = [s \in SUBSET K |-> IF s = {} THEN from
                                 ELSE ExecuteFill(iter[s \ {Max(s)}], openOrders[walk[Max(s)]])]
<1>11. after = (CHOOSE iter : Folds(iter))[K]
  <2>1. DOMAIN walk = K
    BY <1>6
  <2> QED BY <2>1 DEF Walked, FoldLeft, MapThenFoldSet
<1>12. PICK step : step = [p \in K \X Accounts |-> ExecuteFill(p[2], openOrders[walk[p[1]]])]
  OBVIOUS
<1>13. step \in [K \X Accounts -> Accounts]
  <2>1. \A p \in K \X Accounts : p[1] \in K /\ p[2] \in Accounts
    OBVIOUS
  <2>2. \A p \in K \X Accounts : ExecuteFill(p[2], openOrders[walk[p[1]]]) \in Accounts
    BY <1>10, <2>1, FillMoves
  <2> QED BY <1>12, <2>2
<1>14. \A i \in K : \A a \in Accounts : step[<<i, a>>] = ExecuteFill(a, openOrders[walk[i]])
  BY <1>12
<1>15. PICK fold \in [SUBSET K -> Accounts] : FoldsBy(fold, K, from, step, pick)
  BY <1>8, <1>13, FoldExists
<1>16. \A s \in SUBSET K : s # {} => fold[s] = ExecuteFill(fold[s \ {Max(s)}], openOrders[walk[Max(s)]])
  <2> SUFFICES ASSUME NEW s \in SUBSET K, s # {}
               PROVE  fold[s] = ExecuteFill(fold[s \ {Max(s)}], openOrders[walk[Max(s)]])
    OBVIOUS
  <2>1. PICK m, a : m = Max(s) /\ a = fold[s \ {m}]
    OBVIOUS
  <2>2. m \in K /\ pick[s] = m /\ a \in Accounts
    BY <1>9, <2>1
  <2>3. fold[s] = step[<<m, a>>]
    BY <1>15, <2>1, <2>2 DEF FoldsBy
  <2> QED BY <1>14, <2>1, <2>2, <2>3
<1>17. Folds(fold)
  <2>1. fold[{}] = from
    BY <1>15 DEF FoldsBy
  <2> QED BY <1>16, <2>1
<1>18. PICK iter : iter = (CHOOSE f : Folds(f)) /\ Folds(iter)
  <2> HIDE DEF Folds
  <2> QED BY <1>17
<1>19. PICK v : v = [i \in K |-> w[walk[i]]]
  OBVIOUS
<1>20. v \in [K -> Int] /\ \A i \in K : v[i] = w[walk[i]] /\ v[i] = Signed(openOrders[walk[i]])
  BY <1>2, <1>3, <1>10, <1>19
<1> DEFINE Right(s) == /\ iter[s] \in Accounts
                       /\ iter[s].heldVolume - iter[s].conjured
                            = from.heldVolume - from.conjured + SumOver(v, s)
           good == {s \in SUBSET K : Right(s)}
<1>21. \A a \in Accounts : a.heldVolume \in Nat /\ a.conjured \in Nat
  BY DEF Accounts
<1>22. {} \in good
  <2>1. iter[{}] = from
    BY <1>18
  <2>2. SumOver(v, {}) = 0
    BY <1>8, <1>20, SumRules
  <2>3. from.heldVolume \in Nat /\ from.conjured \in Nat
    BY <1>21
  <2>4. Right({})
    BY <2>1, <2>2, <2>3
  <2> QED BY <2>4
<1>23. ASSUME NEW s \in SUBSET K, \A x \in s : s \ {x} \in good PROVE s \in good
  <2>1. CASE s = {}
    BY <1>22, <2>1
  <2>2. CASE s # {}
    <3>1. PICK m \in s : m = Max(s) /\ m \in K
      BY <1>9, <2>2
    <3>2. PICK a, o : a = iter[s \ {m}] /\ o = openOrders[walk[m]]
      OBVIOUS
    <3>3. /\ a \in Accounts /\ o \in PaperOrders
          /\ a.heldVolume - a.conjured = from.heldVolume - from.conjured + SumOver(v, s \ {m})
      BY <1>10, <1>23, <3>1, <3>2
    <3>4. iter[s] = ExecuteFill(a, o)
      BY <1>18, <2>2, <3>1, <3>2
    <3>5. iter[s] \in Accounts
          /\ iter[s].heldVolume - iter[s].conjured = a.heldVolume - a.conjured + Signed(o)
      BY <3>3, <3>4, FillMoves
    <3>6. SumOver(v, s) = v[m] + SumOver(v, s \ {m}) /\ SumOver(v, s \ {m}) \in Int /\ v[m] \in Int
      <4>1. v \in [K -> Int] /\ IsFiniteSet(K)
        BY <1>8, <1>20
      <4>2. /\ \A r \in SUBSET K : SumOver(v, r) \in Int
            /\ \A r \in SUBSET K : \A x \in r : SumOver(v, r) = v[x] + SumOver(v, r \ {x})
        BY <4>1, SumRules
      <4> QED BY <3>1, <4>1, <4>2
    <3>7. v[m] = Signed(o)
      BY <1>20, <3>1, <3>2
    <3>8. /\ iter[s].heldVolume \in Nat /\ iter[s].conjured \in Nat
          /\ a.heldVolume \in Nat /\ a.conjured \in Nat
          /\ from.heldVolume \in Nat /\ from.conjured \in Nat
      BY <1>21, <3>3, <3>5
    <3>9. iter[s].heldVolume - iter[s].conjured = from.heldVolume - from.conjured + SumOver(v, s)
      BY <3>3, <3>5, <3>6, <3>7, <3>8
    <3> QED BY <3>5, <3>9
  <2> QED BY <2>1, <2>2
<1>24. K \in good
  <2>1. good \in SUBSET SUBSET K
    OBVIOUS
  <2> HIDE DEF good
  <2> QED BY <1>8, <1>22, <1>23, <2>1, OneByOne
<1>25. Right(K) /\ after = iter[K]
  BY <1>11, <1>18, <1>24
<1>26. SumOver(v, K) = SumOver(w, met)
  <2>1. walk \in [K -> All]
    BY <1>4, <1>6
  <2>2. Moves(walk, K, All)
    BY <1>6, <2>1 DEF Moves
  <2>3. IsFiniteSet(K) /\ v \in [K -> Int]
    BY <1>8, <1>20
  <2>a. \A i \in K : v[i] = w[walk[i]]
    BY <1>20
  <2>4. SumOver(v, K) = SumOver(w, {walk[i] : i \in K})
    <3>1. w \in [All -> Int] /\ IsFiniteSet(All)
      BY <1>2, <1>4
    <3> QED BY <2>2, <2>3, <2>a, <3>1, SumMoved
  <2> QED BY <1>6, <2>4
<1> QED BY <1>1, <1>25, <1>26

---------------------------------------------------------------------------
(* The steps *)

LEMMA InitExplained == PaperInit => ExplainedInv
<1> SUFFICES ASSUME PaperInit PROVE ExplainedInv
  OBVIOUS
<1>1. openOrders = <<>> /\ heldVolume = 0 /\ conjured = 0 /\ abandoned = 0 /\ total = 0
  BY DEF PaperInit, BrokerInit, GridInit
<1>2. NetVolume(<<>>) = 0
  <2>1. Buy(0, 0) \in PaperOrders /\ 0 \in Nat /\ Signed(Buy(0, 0)) = 0
    BY DEF Buy, PaperOrders, Signed
  <2>2. NetVolume([j \in 1..0 |-> Buy(0, 0)]) = 0 * Signed(Buy(0, 0))
    BY <2>1, NetOfEqual
  <2>3. [j \in 1..0 |-> Buy(0, 0)] = <<>>
    OBVIOUS
  <2> QED BY <2>1, <2>2, <2>3
<1> QED BY <1>1, <1>2 DEF ExplainedInv, HoldingsExplained

LEMMA ExplainedStands ==
  ASSUME ExplainedInv, UNCHANGED <<brokerVars, total, abandoned>>
  PROVE  ExplainedInv'
BY DEF ExplainedInv, HoldingsExplained, brokerVars

\* Orders placed for n units, or for n units less, leave the two sides equal.
LEMMA PlacedKeeps ==
  ASSUME ExplainedInv, total \in Int, NEW o \in PaperOrders, NEW n \in Nat,
         NEW new, new = [i \in 1..n |-> o], Place(new),
         total' = total + n * Signed(o), abandoned' = abandoned
  PROVE  ExplainedInv'
<1>1. new \in Seq(PaperOrders) /\ NetVolume(new) = n * Signed(o)
  BY NetOfEqual
<1>2. openOrders' = openOrders \o new /\ heldVolume' = heldVolume /\ conjured' = conjured
  BY DEF Place
<1>3. openOrders \in Seq(PaperOrders) /\ heldVolume \in Nat /\ conjured \in Nat /\ abandoned \in Nat
  BY DEF ExplainedInv
<1>4. /\ openOrders' \in Seq(PaperOrders) /\ NetVolume(openOrders') = NetVolume(openOrders) + NetVolume(new)
      /\ NetVolume(openOrders) \in Int /\ NetVolume(new) \in Int
  BY <1>1, <1>2, <1>3, PlacedAdds
<1>5. heldVolume + NetVolume(openOrders) = total + abandoned + conjured
  BY DEF ExplainedInv, HoldingsExplained
<1>6. heldVolume' + NetVolume(openOrders') = total' + abandoned' + conjured'
  BY <1>1, <1>2, <1>3, <1>4, <1>5, SMTT(60)
<1> QED BY <1>2, <1>3, <1>4, <1>6 DEF ExplainedInv, HoldingsExplained

\* Everything is sold, and the strategy holds nothing any more.
LEMMA SoldOutKeeps ==
  ASSUME ExplainedInv, total \in Nat, NEW price \in Int, Place(<<Sell(price, total)>>),
         total' = 0, abandoned' = abandoned
  PROVE  ExplainedInv'
<1>1. PICK o : o = Sell(price, total)
  OBVIOUS
<1>2. o \in PaperOrders /\ Signed(o) = -total
  BY <1>1 DEF Sell, PaperOrders, Signed
<1>3. PICK new : new = [i \in 1..1 |-> o]
  OBVIOUS
<1>4. Place(new)
  <2>1. new = <<o>>
    BY <1>3
  <2> QED BY <1>1, <2>1
<1>5. total' = total + 1 * Signed(o) /\ total \in Int /\ 1 \in Nat
  BY <1>2
<1> QED BY <1>2, <1>3, <1>4, <1>5, PlacedKeeps

\* A fill takes from the open orders what it gives the account.
LEMMA TryFillKeeps ==
  ASSUME ExplainedInv, total \in Int, NEW bid, NEW ask, TryFillOrders(bid, ask), UNCHANGED <<total, abandoned>>
  PROVE  ExplainedInv'
<1>1. openOrders \in Seq(PaperOrders) /\ heldVolume \in Nat /\ conjured \in Nat /\ abandoned \in Nat
  BY DEF ExplainedInv
<1>2. PICK All, w : All = 1..Len(openOrders) /\ w = Volumes(openOrders)
  OBVIOUS
<1>3. DOMAIN openOrders = All /\ w \in [All -> Int] /\ IsFiniteSet(All)
  <2>1. Len(openOrders) \in Int /\ 1 \in Int
    BY <1>1
  <2>2. DOMAIN openOrders = All
    BY <1>1, <1>2
  <2> QED BY <1>1, <1>2, <2>1, <2>2, VolumesTyped, FS_Interval
<1>4. PICK met, rest : /\ met = {i \in All : ShouldFill(openOrders[i], bid, ask)}
                          /\ rest = All \ met
  OBVIOUS
<1>5. /\ met \in SUBSET All /\ rest \in SUBSET All
      /\ rest \cap met = {} /\ rest \cup met = All
  BY <1>4
<1>6. PICK from : from = [heldVolume |-> heldVolume, conjured |-> conjured]
  OBVIOUS
<1>7. from \in Accounts /\ from.heldVolume = heldVolume /\ from.conjured = conjured
  BY <1>1, <1>6 DEF Accounts
<1>8. openOrders' = OrdersAt(rest)
  BY <1>3, <1>4 DEF TryFillOrders
<1>9. PICK walk \in SetToSeqs(met) :
        heldVolume' = Walked(from, walk).heldVolume /\ conjured' = Walked(from, walk).conjured
  BY <1>3, <1>4, <1>6 DEF TryFillOrders, Walked
<1>10. PICK after : after = Walked(from, walk)
  OBVIOUS
<1>11. after \in Accounts
       /\ after.heldVolume - after.conjured = heldVolume - conjured + SumOver(w, met)
  <2>1. met \in SUBSET (1..Len(openOrders))
    BY <1>2, <1>5
  <2> QED BY <1>1, <1>2, <1>7, <1>10, <2>1, WalkMoves
<1>12. heldVolume' \in Nat /\ conjured' \in Nat
       /\ heldVolume' - conjured' = heldVolume - conjured + SumOver(w, met)
  BY <1>9, <1>10, <1>11 DEF Accounts
<1>13. openOrders' \in Seq(PaperOrders) /\ NetVolume(openOrders') = SumOver(w, rest)
  <2>1. rest \in SUBSET (1..Len(openOrders))
    BY <1>2, <1>5
  <2> QED BY <1>1, <1>2, <1>8, <2>1, NetAtPlaces
<1>14. NetVolume(openOrders) = SumOver(w, rest) + SumOver(w, met)
  <2>1. NetVolume(openOrders) = SumOver(w, All)
    BY <1>1, <1>2, NetIsSum
  <2>2. SumOver(w, rest \cup met) = SumOver(w, rest) + SumOver(w, met)
    <3>1. w \in [All -> Int] /\ IsFiniteSet(All)
      BY <1>3
    <3>2. rest \in SUBSET All /\ met \in SUBSET All /\ rest \cap met = {}
      BY <1>5
    <3> QED BY <3>1, <3>2, SumSplit
  <2> QED BY <1>5, <2>1, <2>2
<1>15. SumOver(w, rest) \in Int /\ SumOver(w, met) \in Int
  BY <1>3, <1>5, SumRules
<1>16. heldVolume + NetVolume(openOrders) = total + abandoned + conjured
       /\ total' = total /\ abandoned' = abandoned
  BY DEF ExplainedInv, HoldingsExplained
<1>17. heldVolume' + NetVolume(openOrders') = total' + abandoned' + conjured'
  <2>1. PICK r, f : r = SumOver(w, rest) /\ f = SumOver(w, met)
    OBVIOUS
  <2>2. /\ r \in Int /\ f \in Int /\ heldVolume' - conjured' = heldVolume - conjured + f
        /\ NetVolume(openOrders') = r /\ NetVolume(openOrders) = r + f
    BY <1>12, <1>13, <1>14, <1>15, <2>1
  <2>3. PICK h, c, h1, c1 : h = heldVolume /\ c = conjured /\ h1 = heldVolume' /\ c1 = conjured'
    OBVIOUS
  <2>4. h \in Int /\ c \in Int /\ h1 \in Int /\ c1 \in Int /\ abandoned \in Int
    BY <1>1, <1>12, <2>3
  <2>5. h1 - c1 = h - c + f /\ h + (r + f) = total + abandoned + c
    BY <1>16, <2>2, <2>3
  <2>6. h1 + r = total + abandoned + c1
    BY <2>2, <2>4, <2>5
  <2> QED BY <1>16, <2>2, <2>3, <2>6
<1> QED BY <1>1, <1>12, <1>13, <1>16, <1>17 DEF ExplainedInv, HoldingsExplained

LEMMA DownExplained ==
  ASSUME ExplainedInv, GridInv, NEW from \in Grids, NEW to \in Grids, to < from,
         NEW price \in Prices, GridDown(from, to, price), abandoned' = abandoned
  PROVE  ExplainedInv'
<1>1. PICK new : new = Buys(from, to)
  OBVIOUS
<1>2. new \in SUBSET Int /\ IsFiniteSet(new)
  <2>1. \A g \in to .. from - 1 : g \in Grids
    BY GridConstants DEF Grids
  <2>2. new \in SUBSET Grids
    BY <1>1, <2>1 DEF Buys
  <2> QED BY <2>2, GridConstants, FS_Subset
<1>3. PICK bought : bought = FromTheTop(new)
  OBVIOUS
<1>4. PICK n \in Nat : n = Cardinality(new)
  BY <1>2, FS_CardinalityType
<1>5. bought \in [1..n -> new]
  BY <1>2, <1>3, <1>4, FromTheTopIs
<1>6. Len(bought) = n /\ DOMAIN bought = 1..n
  BY <1>5
<1>7. PICK o : o = Buy(price, 1)
  OBVIOUS
<1>8. o \in PaperOrders /\ Signed(o) = 1
  <2>1. price \in Int
    BY GridConstants
  <2> QED BY <1>7, <2>1 DEF Buy, PaperOrders, Signed
<1>9. Place([i \in 1..n |-> o]) /\ total' = total + n
  BY <1>1, <1>3, <1>6, <1>7 DEF GridDown
<1>10. total \in Int
  BY QueueFacts
<1>11. total' = total + n * Signed(o)
  BY <1>8, <1>9, <1>10
<1> QED BY <1>8, <1>9, <1>10, <1>11, PlacedKeeps

LEMMA UpExplained ==
  ASSUME ExplainedInv, GridInv, NEW from \in Grids, NEW to \in Grids, from < to,
         NEW price \in Prices, GridUp(from, to, price), abandoned' = abandoned
  PROVE  ExplainedInv'
<1>1. PICK m, queue : m = Min({to - from, Len(buyQueue)}) /\ queue = SubSeq(buyQueue, 1, m)
  OBVIOUS
<1>2. PICK sold : sold = Sells(m)
  OBVIOUS
<1>3. IsFiniteSet(sold)
  <2>1. to - from \in Nat /\ Len(buyQueue) \in Nat
    BY QueueFacts, GridConstants
  <2>2. m \in 0..Len(buyQueue)
    BY <1>1, <2>1 DEF Min
  <2>3. queue \in Seq(Grids)
    <3>1. buyQueue \in Seq(Grids)
      BY DEF GridInv
    <3>2. queue = SubSeq(buyQueue, 1, m)
      BY <1>1
    <3> QED BY <2>1, <2>2, <3>1, <3>2
  <2>4. Range(queue) \in SUBSET Grids
    BY <2>3 DEF Range
  <2>5. sold \in SUBSET Grids
    BY <1>1, <1>2, <2>4 DEF Sells
  <2> QED BY <2>5, GridConstants, FS_Subset
<1>4. PICK n \in Nat : n = Cardinality(sold)
  BY <1>3, FS_CardinalityType
<1>5. PICK o : o = Sell(price, 1)
  OBVIOUS
<1>6. o \in PaperOrders /\ Signed(o) = -1
  <2>1. price \in Int
    BY GridConstants
  <2> QED BY <1>5, <2>1 DEF Sell, PaperOrders, Signed
<1>7. Place([i \in 1..n |-> o]) /\ total' = total - n
  BY <1>1, <1>2, <1>4, <1>5 DEF GridUp
<1>8. total \in Int
  BY QueueFacts
<1>9. total' = total + n * Signed(o)
  BY <1>6, <1>7, <1>8
<1> QED BY <1>6, <1>7, <1>8, <1>9, PlacedKeeps

LEMMA TradeExplained ==
  ASSUME ExplainedInv, GridInv, NEW price \in Prices, GridTrade(price)
  PROVE  ExplainedInv'
<1>1. PICK index : index = GridIndex(base, price)
  OBVIOUS
<1>2. index \in Grids /\ abandoned' = abandoned /\ (lastGrid >= 0 => lastGrid \in Grids)
  BY <1>1, IndexInGrid DEF GridTrade, GridInv, Grids
<1>3. CASE lastGrid >= 0 /\ index > lastGrid
  <2>1. GridUp(lastGrid, index, price)
    BY <1>1, <1>3 DEF GridTrade
  <2>2. lastGrid < index
    BY <1>2, <1>3, GridConstants
  <2> QED BY <1>2, <1>3, <2>1, <2>2, UpExplained
<1>4. CASE lastGrid >= 0 /\ index < lastGrid
  <2>1. ~(index > lastGrid)
    <3>1. index \in Int /\ lastGrid \in Int
      BY <1>2, <1>4, GridConstants
    <3> QED BY <1>4, <3>1
  <2>2. GridDown(lastGrid, index, price)
    BY <1>1, <1>4, <2>1 DEF GridTrade
  <2> QED BY <1>2, <1>4, <2>2, DownExplained
<1>5. CASE ~(lastGrid >= 0 /\ index > lastGrid) /\ ~(lastGrid >= 0 /\ index < lastGrid)
  <2>1. UNCHANGED <<brokerVars, total, abandoned>>
    BY <1>1, <1>5 DEF GridTrade
  <2> QED BY <2>1, ExplainedStands
<1> QED BY <1>3, <1>4, <1>5

LEMMA BarExplained ==
  ASSUME ExplainedInv, GridInv, NEW verdict \in Verdict, NEW price \in Prices, OnBar(price, verdict)
  PROVE  ExplainedInv'
<1>1. total \in Nat /\ price \in Int
  BY QueueFacts, GridConstants
<1>2. CASE UNCHANGED <<brokerVars, total, abandoned>>
  BY <1>2, ExplainedStands
<1>3. CASE TransitionToTrending(price)
  <2>1. abandoned' = abandoned
    BY <1>3 DEF TransitionToTrending
  <2>2. CASE total > 0
    <3>1. Place(<<Sell(price, total)>>) /\ total' = 0
      BY <1>3, <2>2 DEF TransitionToTrending, Cleared
    <3> QED BY <1>1, <2>1, <3>1, SoldOutKeeps
  <2>3. CASE ~(total > 0)
    <3>1. UNCHANGED <<brokerVars, total, abandoned>>
      BY <1>3, <2>3 DEF TransitionToTrending
    <3> QED BY <3>1, ExplainedStands
  <2> QED BY <2>2, <2>3
<1>4. CASE TransitionToConsolidation(price)
  <2>1. UNCHANGED brokerVars /\ total' = 0 /\ abandoned' = abandoned + total
    BY <1>4 DEF TransitionToConsolidation, Cleared
  <2>2. abandoned \in Nat /\ abandoned' \in Nat /\ conjured \in Nat
    BY <1>1, <2>1 DEF ExplainedInv
  <2>3. total' + abandoned' + conjured = total + abandoned + conjured
    BY <1>1, <2>1, <2>2
  <2> QED BY <2>1, <2>2, <2>3 DEF ExplainedInv, HoldingsExplained, brokerVars
<1>5. CASE StopLoss(price)
  <2>1. Place(<<Sell(price, total)>>) /\ total' = 0 /\ abandoned' = abandoned
    BY <1>5 DEF StopLoss, Cleared
  <2> QED BY <1>1, <2>1, SoldOutKeeps
<1>6. CASE GridTrade(price)
  BY <1>6, TradeExplained
<1>7. CASE ~inited \/ ~trading
  BY <1>2, <1>7 DEF OnBar, gridVars
<1>8. CASE inited /\ trading
  <2>1. OnState(price)
    BY <1>8 DEF OnBar
  <2> QED BY <1>2, <1>3, <1>4, <1>5, <1>6, <2>1 DEF OnState, gridVars
<1> QED BY <1>7, <1>8

LEMMA ExplainedStep ==
  ASSUME ExplainedInv, GridInv, [PaperNext]_paperVars
  PROVE  ExplainedInv'
<1>1. CASE InitStrategy
  BY <1>1, ExplainedStands DEF InitStrategy, OnInit
<1>2. CASE StartStrategy
  BY <1>2, ExplainedStands DEF StartStrategy, OnStart
<1>3. CASE StopStrategy \/ UNCHANGED paperVars
  BY <1>3, ExplainedStands DEF StopStrategy, paperVars, gridVars
<1>4. CASE Tick
  <2>1. PICK bid, ask \in Prices : TryFillOrders(bid, ask)
    BY <1>4 DEF Tick
  <2>2. UNCHANGED <<total, abandoned>>
    BY <1>4 DEF Tick, gridVars
  <2>3. total \in Int
    BY QueueFacts
  <2> QED BY <2>1, <2>2, <2>3, TryFillKeeps
<1>5. CASE Bar
  <2>1. PICK verdict \in Verdict, price \in Prices : OnBar(price, verdict)
    BY <1>5 DEF Bar, BarWith
  <2> QED BY <2>1, BarExplained
<1> QED BY <1>1, <1>2, <1>3, <1>4, <1>5 DEF PaperNext

\* Whatever the market does and however many orders are open, every unit the broker
\* holds or will hold is one the strategy books, abandoned, or was conjured.
THEOREM HoldingsExplainedEver == PaperSpec => []HoldingsExplained
<1> DEFINE Inv == GridInv /\ ExplainedInv
<1>1. PaperInit => Inv
  BY InitGrid, InitExplained
<1>2. Inv /\ [PaperNext]_paperVars => Inv'
  BY GridStep, ExplainedStep
<1>3. Inv => HoldingsExplained
  BY DEF ExplainedInv
<1> QED BY <1>1, <1>2, <1>3, PTL DEF PaperSpec

---------------------------------------------------------------------------
(* The backtesting broker: every order is open, filled once or cancelled.       *)

(* The shape of the books, which no strategy's volumes or prices enter.         *)
OrderShape(o) == o = [side |-> o.side, price |-> o.price, volume |-> o.volume, status |-> o.status]
BooksTyped ==
  /\ limitCount \in Nat /\ stopCount \in Nat /\ sent \in 0..MaxSent
  /\ phase \in {"limits", "stops", "bar"}
  /\ filled \in [1..MaxSent -> Nat]
  /\ DOMAIN active \subseteq 1..limitCount /\ DOMAIN stops \subseteq 1..stopCount
  /\ \A id \in DOMAIN active : OrderShape(active[id])
  /\ \A id \in DOMAIN stops : OrderShape(stops[id])

\* Stop orders that have not been triggered, each of which may need a limit order id.
WaitingStops == {id \in DOMAIN stops : stops[id].status # "TRIGGERED"}

\* An entry of the book is filled only while it waits for the end of its walk.
EntriesFilledInWalk ==
  \A id \in DOMAIN active :
    /\ filled[id] = (IF active[id].status = "ALLTRADED" THEN 1 ELSE 0)
    /\ active[id].status = "ALLTRADED" => phase = "limits" /\ id \in walked
StopsTriggeredInWalk ==
  \A id \in DOMAIN stops : stops[id].status = "TRIGGERED" => phase = "stops" /\ id \in walked

\* Who left the book was filled once, or cancelled; who is to come was not filled.
CancelAsked(id) == <<"limit", id>> \in asked \/ <<"stop", id>> \in asked
GoneForGood ==
  \A id \in 1..limitCount :
    id \notin DOMAIN active => filled[id] = 1 \/ (filled[id] = 0 /\ CancelAsked(id))
NewIdsUnfilled == \A id \in 1..MaxSent : id > limitCount => filled[id] = 0

\* There is a number for every stop order that may be triggered.
IdsSuffice == limitCount + Cardinality(WaitingStops) <= sent

BrokerInv ==
  /\ BooksTyped /\ EntriesFilledInWalk /\ StopsTriggeredInWalk
  /\ GoneForGood /\ NewIdsUnfilled /\ IdsSuffice

LEMMA BacktestConstants == MaxSent \in Nat
  BY BacktestAssumption

\* What BrokerInv says of ids: the book's ids and one more have an entry in filled.
LEMMA WaitingIsFinite ==
  ASSUME BooksTyped
  PROVE  IsFiniteSet(WaitingStops) /\ Cardinality(WaitingStops) \in Nat
<1>1. IsFiniteSet(1..stopCount)
  BY FS_Interval DEF BooksTyped
<1>2. WaitingStops \in SUBSET (1..stopCount)
  BY DEF BooksTyped, WaitingStops
<1> QED BY <1>1, <1>2, FS_Subset, FS_CardinalityType

LEMMA IdsBounded ==
  ASSUME BrokerInv
  PROVE  /\ limitCount \in 0..MaxSent
         /\ sent < MaxSent => limitCount + 1 \in 1..MaxSent
         /\ WaitingStops # {} => limitCount + 1 \in 1..MaxSent
<1>1. /\ limitCount \in Nat /\ sent \in 0..MaxSent /\ MaxSent \in Nat
      /\ limitCount + Cardinality(WaitingStops) <= sent
  BY BacktestConstants DEF BrokerInv, BooksTyped, IdsSuffice
<1>2. IsFiniteSet(WaitingStops) /\ Cardinality(WaitingStops) \in Nat
  BY WaitingIsFinite DEF BrokerInv
<1>3. WaitingStops # {} => Cardinality(WaitingStops) # 0
  BY <1>2, FS_EmptySet
<1> QED BY <1>1, <1>2, <1>3

LEMMA InitBroker == BacktestInit => BrokerInv
<1> SUFFICES ASSUME BacktestInit PROVE BrokerInv
  OBVIOUS
<1>1. DOMAIN active = {} /\ DOMAIN stops = {}
  BY DEF BacktestInit, EmptyBook
<1>2. WaitingStops = {}
  BY <1>1 DEF WaitingStops
<1>3. Cardinality(WaitingStops) = 0
  BY <1>2, FS_EmptySet
<1>4. limitCount = 0 /\ stopCount = 0 /\ sent = 0 /\ phase = "bar"
      /\ filled = [id \in 1..MaxSent |-> 0] /\ MaxSent \in Nat
  BY BacktestConstants DEF BacktestInit
<1> QED
  BY <1>1, <1>3, <1>4 DEF BrokerInv, BooksTyped, EntriesFilledInWalk, StopsTriggeredInWalk,
     GoneForGood, NewIdsUnfilled, IdsSuffice

\* Nothing of the books changes.
BooksState == <<active, stops, limitCount, stopCount, phase, walked, sent, filled, asked>>
LEMMA BooksStand == ASSUME BrokerInv, UNCHANGED BooksState PROVE BrokerInv'
  BY DEF BooksState, BrokerInv, BooksTyped, OrderShape, EntriesFilledInWalk,
     StopsTriggeredInWalk, GoneForGood, CancelAsked, NewIdsUnfilled, IdsSuffice, WaitingStops

\* A step that leaves the stop orders alone keeps their numbers.
LEMMA StopsStand ==
  ASSUME stops' = stops
  PROVE  WaitingStops' = WaitingStops
  BY DEF WaitingStops

---------------------------------------------------------------------------
(* What the strategy calls *)

LEMMA SendLimitKeeps ==
  ASSUME BrokerInv, NEW side, NEW opens, NEW price, NEW volume,
         SendLimitOrder(side, opens, price, volume)
  PROVE  BrokerInv'
<1> DEFINE o == [side |-> side, price |-> price, volume |-> volume, status |-> "SUBMITTING"]
<1>1. /\ sent < MaxSent /\ sent' = sent + 1 /\ limitCount' = limitCount + 1
      /\ active' = BookWith(active, limitCount + 1, o)
      /\ stops' = stops /\ stopCount' = stopCount /\ phase' = phase /\ filled' = filled
      /\ asked' = asked /\ walked \subseteq walked'
  BY DEF SendLimitOrder
<1>2. /\ DOMAIN active' = DOMAIN active \cup {limitCount + 1}
      /\ active'[limitCount + 1] = o
      /\ \A i \in DOMAIN active : i # limitCount + 1 => active'[i] = active[i]
  BY <1>1 DEF BookWith
<1>3. limitCount \in Nat /\ limitCount + 1 \in 1..MaxSent /\ MaxSent \in Nat
  BY <1>1, IdsBounded, BacktestConstants
<1>4. \A i \in DOMAIN active : i \in 1..limitCount /\ i # limitCount + 1
  BY <1>3 DEF BrokerInv, BooksTyped
<1>5. OrderShape(o) /\ o.status = "SUBMITTING"
  BY DEF OrderShape
<1> HIDE DEF o
<1>6. BooksTyped'
  <2>1. DOMAIN active' \subseteq 1..limitCount' /\ DOMAIN stops' \subseteq 1..stopCount'
    BY <1>1, <1>2, <1>3, <1>4 DEF BrokerInv, BooksTyped
  <2>2. \A id \in DOMAIN active' : OrderShape(active'[id])
    BY <1>2, <1>4, <1>5 DEF BrokerInv, BooksTyped
  <2>3. \A id \in DOMAIN stops' : OrderShape(stops'[id])
    BY <1>1 DEF BrokerInv, BooksTyped
  <2>4. limitCount' \in Nat /\ stopCount' \in Nat /\ sent' \in 0..MaxSent
    BY <1>1, <1>3 DEF BrokerInv, BooksTyped
  <2>5. phase' \in {"limits", "stops", "bar"} /\ filled' \in [1..MaxSent -> Nat]
    BY <1>1 DEF BrokerInv, BooksTyped
  <2> QED BY <2>1, <2>2, <2>3, <2>4, <2>5 DEF BooksTyped, OrderShape
<1>7. filled[limitCount + 1] = 0
  BY <1>3 DEF BrokerInv, NewIdsUnfilled
<1>8. EntriesFilledInWalk'
  BY <1>1, <1>2, <1>4, <1>5, <1>7 DEF BrokerInv, EntriesFilledInWalk
<1>9. StopsTriggeredInWalk'
  BY <1>1 DEF BrokerInv, StopsTriggeredInWalk
<1>10. GoneForGood'
  BY <1>1, <1>2, <1>3 DEF BrokerInv, GoneForGood, CancelAsked
<1>11. NewIdsUnfilled'
  BY <1>1, <1>3 DEF BrokerInv, NewIdsUnfilled
<1>12. IdsSuffice'
  <2>1. Cardinality(WaitingStops) \in Nat
    BY WaitingIsFinite DEF BrokerInv
  <2>2. WaitingStops' = WaitingStops
    BY <1>1, StopsStand
  <2>3. sent \in Nat
    BY <1>3 DEF BrokerInv, BooksTyped
  <2> QED BY <1>1, <1>3, <2>1, <2>2, <2>3 DEF BrokerInv, IdsSuffice
<1> QED BY <1>6, <1>8, <1>9, <1>10, <1>11, <1>12 DEF BrokerInv

LEMMA SendStopKeeps ==
  ASSUME BrokerInv, NEW side, NEW price, NEW volume, SendStopOrder(side, price, volume)
  PROVE  BrokerInv'
<1> DEFINE o == [side |-> side, price |-> price, volume |-> volume, status |-> "WAITING"]
<1>1. /\ sent < MaxSent /\ sent' = sent + 1 /\ stopCount' = stopCount + 1
      /\ stops' = BookWith(stops, stopCount + 1, o)
      /\ active' = active /\ limitCount' = limitCount /\ phase' = phase /\ filled' = filled
      /\ asked' = asked /\ walked \subseteq walked'
  BY DEF SendStopOrder
<1>2. /\ DOMAIN stops' = DOMAIN stops \cup {stopCount + 1}
      /\ stops'[stopCount + 1] = o
      /\ \A i \in DOMAIN stops : i # stopCount + 1 => stops'[i] = stops[i]
  BY <1>1 DEF BookWith
<1>3. stopCount \in Nat /\ limitCount \in Nat /\ MaxSent \in Nat /\ sent \in 0..MaxSent
  BY BacktestConstants DEF BrokerInv, BooksTyped
<1>4. \A i \in DOMAIN stops : i \in 1..stopCount /\ i # stopCount + 1
  BY <1>3 DEF BrokerInv, BooksTyped
<1>5. OrderShape(o) /\ o.status = "WAITING"
  BY DEF OrderShape
<1> HIDE DEF o
<1>6. BooksTyped'
  <2>1. DOMAIN active' \subseteq 1..limitCount' /\ DOMAIN stops' \subseteq 1..stopCount'
    BY <1>1, <1>2, <1>3, <1>4 DEF BrokerInv, BooksTyped
  <2>2. \A id \in DOMAIN stops' : OrderShape(stops'[id])
    BY <1>2, <1>4, <1>5 DEF BrokerInv, BooksTyped
  <2>3. \A id \in DOMAIN active' : OrderShape(active'[id])
    BY <1>1 DEF BrokerInv, BooksTyped
  <2>4. limitCount' \in Nat /\ stopCount' \in Nat /\ sent' \in 0..MaxSent
    BY <1>1, <1>3
  <2>5. phase' \in {"limits", "stops", "bar"} /\ filled' \in [1..MaxSent -> Nat]
    BY <1>1 DEF BrokerInv, BooksTyped
  <2> QED BY <2>1, <2>2, <2>3, <2>4, <2>5 DEF BooksTyped, OrderShape
<1>7. EntriesFilledInWalk'
  BY <1>1 DEF BrokerInv, EntriesFilledInWalk
<1>8. StopsTriggeredInWalk'
  BY <1>1, <1>2, <1>4, <1>5 DEF BrokerInv, StopsTriggeredInWalk
<1>9. GoneForGood' /\ NewIdsUnfilled'
  BY <1>1 DEF BrokerInv, GoneForGood, CancelAsked, NewIdsUnfilled
<1>10. IdsSuffice'
  <2>1. IsFiniteSet(WaitingStops) /\ Cardinality(WaitingStops) \in Nat
    BY WaitingIsFinite DEF BrokerInv
  <2>2. stopCount + 1 \notin WaitingStops
    BY <1>4 DEF WaitingStops
  <2>3. WaitingStops' = WaitingStops \cup {stopCount + 1}
    BY <1>2, <1>4, <1>5 DEF WaitingStops
  <2>4. Cardinality(WaitingStops') = Cardinality(WaitingStops) + 1
    BY <2>1, <2>2, <2>3, FS_AddElement
  <2> QED BY <1>1, <1>3, <2>1, <2>4 DEF BrokerInv, IdsSuffice
<1> QED BY <1>6, <1>7, <1>8, <1>9, <1>10 DEF BrokerInv

\* A market order fills at once and never enters a book.
LEMMA MarketKeeps ==
  ASSUME BrokerInv, NEW side, NEW volume, MarketOrder(side, volume)
  PROVE  BrokerInv'
<1>1. /\ sent < MaxSent /\ sent' = sent + 1
      /\ active' = active /\ stops' = stops /\ limitCount' = limitCount /\ stopCount' = stopCount
      /\ phase' = phase /\ walked' = walked /\ filled' = filled /\ asked' = asked
  BY DEF MarketOrder, bookVars, walkVars
<1>2. sent \in 0..MaxSent /\ MaxSent \in Nat /\ limitCount \in Nat
  BY BacktestConstants DEF BrokerInv, BooksTyped
<1>3. sent' \in 0..MaxSent
  BY <1>1, <1>2
<1>4. BooksTyped'
  BY <1>1, <1>3 DEF BrokerInv, BooksTyped, OrderShape
<1>5. EntriesFilledInWalk' /\ StopsTriggeredInWalk' /\ GoneForGood' /\ NewIdsUnfilled'
  BY <1>1 DEF BrokerInv, EntriesFilledInWalk, StopsTriggeredInWalk, GoneForGood, CancelAsked,
     NewIdsUnfilled
<1>6. IdsSuffice'
  <2>1. Cardinality(WaitingStops) \in Nat
    BY WaitingIsFinite DEF BrokerInv
  <2>2. WaitingStops' = WaitingStops
    BY <1>1, StopsStand
  <2> QED BY <1>1, <1>2, <2>1, <2>2 DEF BrokerInv, IdsSuffice
<1> QED BY <1>4, <1>5, <1>6 DEF BrokerInv

\* Orders taken out of the books, of which the limit orders' numbers are asked for.
LEMMA RemovalKeeps ==
  ASSUME BrokerInv, NEW ids, NEW stopIds,
         DOMAIN active' = DOMAIN active \ ids, \A i \in DOMAIN active' : active'[i] = active[i],
         DOMAIN stops' = DOMAIN stops \ stopIds, \A i \in DOMAIN stops' : stops'[i] = stops[i],
         asked \subseteq asked',
         \A id \in DOMAIN active \cap ids : <<"limit", id>> \in asked' \/ <<"stop", id>> \in asked',
         UNCHANGED <<limitCount, stopCount, phase, walked, sent, filled>>
  PROVE  BrokerInv'
<1>1. /\ DOMAIN active' = DOMAIN active \ ids
      /\ \A i \in DOMAIN active' : active'[i] = active[i]
      /\ DOMAIN stops' = DOMAIN stops \ stopIds
      /\ \A i \in DOMAIN stops' : stops'[i] = stops[i]
  OBVIOUS
<1>2. BooksTyped'
  BY <1>1 DEF BrokerInv, BooksTyped, OrderShape
<1>3. EntriesFilledInWalk' /\ StopsTriggeredInWalk' /\ NewIdsUnfilled'
  BY <1>1 DEF BrokerInv, EntriesFilledInWalk, StopsTriggeredInWalk, NewIdsUnfilled
<1>4. GoneForGood'
  <2> SUFFICES ASSUME NEW id \in 1..limitCount, id \notin DOMAIN active'
               PROVE  filled[id] = 1 \/ (filled[id] = 0 /\ CancelAsked(id)')
    BY DEF GoneForGood, CancelAsked
  <2>1. CASE id \in DOMAIN active
    <3>1. id \in ids
      BY <1>1, <2>1
    <3>2. <<"limit", id>> \in asked' \/ <<"stop", id>> \in asked'
      BY <2>1, <3>1
    <3>3. filled[id] = 0 \/ filled[id] = 1
      BY <2>1 DEF BrokerInv, EntriesFilledInWalk
    <3> QED BY <3>2, <3>3 DEF CancelAsked
  <2>2. CASE id \notin DOMAIN active
    BY <2>2 DEF BrokerInv, GoneForGood, CancelAsked
  <2> QED BY <2>1, <2>2
<1>5. IdsSuffice'
  <2>1. IsFiniteSet(WaitingStops) /\ Cardinality(WaitingStops) \in Nat
    BY WaitingIsFinite DEF BrokerInv
  <2>2. WaitingStops' \in SUBSET WaitingStops
    BY <1>1 DEF WaitingStops
  <2>3. Cardinality(WaitingStops') <= Cardinality(WaitingStops) /\ Cardinality(WaitingStops') \in Nat
    BY <2>1, <2>2, FS_Subset, FS_CardinalityType
  <2>4. limitCount \in Nat /\ sent \in Nat
    BY BacktestConstants DEF BrokerInv, BooksTyped
  <2> QED BY <2>1, <2>3, <2>4 DEF BrokerInv, IdsSuffice
<1> QED BY <1>2, <1>3, <1>4, <1>5 DEF BrokerInv


LEMMA CancelKeeps ==
  ASSUME BrokerInv, NEW kind \in {"limit", "stop"}, NEW id, CancelOrder(kind, id)
  PROVE  BrokerInv'
<1>1. /\ UNCHANGED <<limitCount, stopCount, phase, walked, sent, filled>>
      /\ asked' = asked \cup {<<kind, id>>}
  BY DEF CancelOrder, walkVars
<1>2. CASE id \in DOMAIN active
  <2>1. active' = BookWithout(active, {id}) /\ stops' = stops
    BY <1>2 DEF CancelOrder
  <2>2. /\ DOMAIN active' = DOMAIN active \ {id}
        /\ \A i \in DOMAIN active' : active'[i] = active[i]
    BY <2>1 DEF BookWithout
  <2>3. DOMAIN stops' = DOMAIN stops \ {} /\ \A i \in DOMAIN stops' : stops'[i] = stops[i]
    BY <2>1
  <2>4. \A i \in DOMAIN active \cap {id} : <<"limit", i>> \in asked' \/ <<"stop", i>> \in asked'
    BY <1>1
  <2>5. asked \subseteq asked'
    BY <1>1
  <2> QED BY <1>1, <2>2, <2>3, <2>4, <2>5, RemovalKeeps
<1>3. CASE id \notin DOMAIN active
  <2>1. stops' = BookWithout(stops, {id}) /\ active' = active
    BY <1>3 DEF CancelOrder
  <2>2. /\ DOMAIN stops' = DOMAIN stops \ {id}
        /\ \A i \in DOMAIN stops' : stops'[i] = stops[i]
    BY <2>1 DEF BookWithout
  <2>3. DOMAIN active' = DOMAIN active \ {} /\ \A i \in DOMAIN active' : active'[i] = active[i]
    BY <2>1
  <2>4. \A i \in DOMAIN active \cap {} : <<"limit", i>> \in asked' \/ <<"stop", i>> \in asked'
    OBVIOUS
  <2>5. asked \subseteq asked'
    BY <1>1
  <2> QED BY <1>1, <2>2, <2>3, <2>4, <2>5, RemovalKeeps
<1> QED BY <1>2, <1>3

LEMMA CancelAllKeeps == ASSUME BrokerInv, CancelAllOrders PROVE BrokerInv'
<1>1. /\ UNCHANGED <<limitCount, stopCount, phase, walked, sent, filled>>
      /\ asked' = asked \cup ({"limit"} \X DOMAIN active) \cup ({"stop"} \X DOMAIN stops)
      /\ DOMAIN active' = {} /\ DOMAIN stops' = {}
  BY DEF CancelAllOrders, walkVars, EmptyBook
<1>2. DOMAIN active' = DOMAIN active \ DOMAIN active /\ DOMAIN stops' = DOMAIN stops \ DOMAIN stops
  BY <1>1
<1>3. \A id \in DOMAIN active : <<"limit", id>> \in asked'
  BY <1>1
<1> QED BY <1>1, <1>2, <1>3, RemovalKeeps

\* The validation strategy cancels what it believes to be open.
LEMMA OnStopKeeps == ASSUME BrokerInv, OnStop PROVE BrokerInv'
<1>1. /\ UNCHANGED <<limitCount, stopCount, phase, walked, sent, filled, stops>>
      /\ asked' = asked \cup ({"limit"} \X (DOMAIN active \cap activeOrders))
      /\ active' = BookWithout(active, activeOrders)
  BY DEF OnStop, walkVars
<1>2. /\ DOMAIN active' = DOMAIN active \ activeOrders
      /\ \A i \in DOMAIN active' : active'[i] = active[i]
  BY <1>1 DEF BookWithout
<1>3. DOMAIN stops' = DOMAIN stops \ {} /\ \A i \in DOMAIN stops' : stops'[i] = stops[i]
  BY <1>1
<1>4. \A id \in DOMAIN active \cap activeOrders : <<"limit", id>> \in asked'
  BY <1>1
<1>5. asked \subseteq asked'
  BY <1>1
<1> QED BY <1>1, <1>2, <1>3, <1>4, <1>5, RemovalKeeps

---------------------------------------------------------------------------
(* The walks *)

LEMMA CrossLimitKeeps ==
  ASSUME BrokerInv, NEW id \in DOMAIN active, CrossLimitOrder(id)
  PROVE  BrokerInv'
<1>1. /\ phase = "limits" /\ id \notin walked /\ walked' = walked \cup {id}
      /\ UNCHANGED <<stops, limitCount, stopCount, phase, sent, asked>>
  BY DEF CrossLimitOrder
<1>2. OrderShape(active[id]) /\ active[id].status # "ALLTRADED" /\ filled[id] = 0
  BY <1>1 DEF BrokerInv, BooksTyped, EntriesFilledInWalk
<1>3. id \in 1..MaxSent /\ filled \in [1..MaxSent -> Nat] /\ limitCount \in Nat
      /\ id \in 1..limitCount
  BY IdsBounded, BacktestConstants DEF BrokerInv, BooksTyped
<1>4. PICK st : /\ active' = [active EXCEPT ![id].status = st]
                /\ filled' = [filled EXCEPT ![id] = IF st = "ALLTRADED" THEN 1 ELSE 0]
  <2>1. CASE LimitCrosses(active[id])
    BY <1>2, <1>3, <2>1 DEF CrossLimitOrder
  <2>2. CASE ~LimitCrosses(active[id])
    <3>1. filled' = filled /\ active' = [active EXCEPT ![id].status = "NOTTRADED"]
      BY <2>2 DEF CrossLimitOrder
    <3>2. filled = [filled EXCEPT ![id] = 0]
      BY <1>2, <1>3
    <3> DEFINE st == "NOTTRADED"
    <3>3. /\ active' = [active EXCEPT ![id].status = st]
          /\ filled' = [filled EXCEPT ![id] = IF st = "ALLTRADED" THEN 1 ELSE 0]
      BY <3>1, <3>2
    <3> QED BY <3>3
  <2> QED BY <2>1, <2>2
<1>5. DOMAIN active' = DOMAIN active /\ \A i \in DOMAIN active : i # id => active'[i] = active[i]
  BY <1>4
<1>6. OrderShape(active'[id]) /\ active'[id].status = st
  BY <1>2, <1>4 DEF OrderShape
<1>7. /\ filled' \in [1..MaxSent -> Nat] /\ filled'[id] = (IF st = "ALLTRADED" THEN 1 ELSE 0)
      /\ \A i \in 1..MaxSent : i # id => filled'[i] = filled[i]
  BY <1>3, <1>4
<1>8. BooksTyped'
  <2>1. \A i \in DOMAIN active' : OrderShape(active'[i])
    BY <1>5, <1>6 DEF BrokerInv, BooksTyped
  <2>2. \A i \in DOMAIN stops' : OrderShape(stops'[i])
    BY <1>1 DEF BrokerInv, BooksTyped
  <2> QED BY <1>1, <1>5, <1>7, <2>1, <2>2 DEF BrokerInv, BooksTyped, OrderShape
<1>9. EntriesFilledInWalk'
  <2> SUFFICES ASSUME NEW i \in DOMAIN active'
               PROVE  /\ filled'[i] = (IF active'[i].status = "ALLTRADED" THEN 1 ELSE 0)
                      /\ active'[i].status = "ALLTRADED" => phase' = "limits" /\ i \in walked'
    BY DEF EntriesFilledInWalk
  <2>1. CASE i = id
    BY <1>1, <1>6, <1>7, <2>1
  <2>2. CASE i # id
    <3>1. i \in 1..MaxSent
      BY <1>5, IdsBounded, BacktestConstants DEF BrokerInv, BooksTyped
    <3> QED BY <1>1, <1>5, <1>7, <2>2, <3>1 DEF BrokerInv, EntriesFilledInWalk
  <2> QED BY <2>1, <2>2
<1>10. StopsTriggeredInWalk'
  BY <1>1 DEF BrokerInv, StopsTriggeredInWalk
<1>11. GoneForGood'
  <2> SUFFICES ASSUME NEW i \in 1..limitCount, i \notin DOMAIN active'
               PROVE  filled'[i] = 1 \/ (filled'[i] = 0 /\ CancelAsked(i)')
    BY <1>1 DEF GoneForGood, CancelAsked
  <2>1. i # id /\ i \in 1..MaxSent /\ i \notin DOMAIN active
    BY <1>3, <1>5, IdsBounded, BacktestConstants
  <2> QED BY <1>1, <1>7, <2>1 DEF BrokerInv, GoneForGood, CancelAsked
<1>12. NewIdsUnfilled'
  BY <1>1, <1>3, <1>7 DEF BrokerInv, NewIdsUnfilled
<1>13. IdsSuffice'
  BY <1>1, StopsStand DEF BrokerInv, IdsSuffice
<1> QED BY <1>8, <1>9, <1>10, <1>11, <1>12, <1>13 DEF BrokerInv

LEMMA LimitsDoneKeeps == ASSUME BrokerInv, LimitOrdersDone PROVE BrokerInv'
<1> DEFINE done == {id \in DOMAIN active : active[id].status = "ALLTRADED"}
<1>1. /\ phase = "limits" /\ phase' = "stops"
      /\ active' = BookWithout(active, done)
      /\ UNCHANGED <<stops, limitCount, stopCount, sent, filled, asked>>
  BY DEF LimitOrdersDone
<1>2. /\ DOMAIN active' = DOMAIN active \ done
      /\ \A i \in DOMAIN active' : active'[i] = active[i]
  BY <1>1 DEF BookWithout
<1>3. BooksTyped'
  BY <1>1, <1>2 DEF BrokerInv, BooksTyped, OrderShape
<1>4. EntriesFilledInWalk'
  BY <1>1, <1>2 DEF BrokerInv, EntriesFilledInWalk
<1>5. StopsTriggeredInWalk'
  BY <1>1 DEF BrokerInv, StopsTriggeredInWalk
<1>6. GoneForGood'
  BY <1>1, <1>2 DEF BrokerInv, GoneForGood, EntriesFilledInWalk, CancelAsked
<1>7. NewIdsUnfilled' /\ IdsSuffice'
  BY <1>1, StopsStand DEF BrokerInv, NewIdsUnfilled, IdsSuffice
<1> QED BY <1>3, <1>4, <1>5, <1>6, <1>7 DEF BrokerInv

LEMMA CrossStopKeeps ==
  ASSUME BrokerInv, NEW id \in DOMAIN stops, CrossStopOrder(id)
  PROVE  BrokerInv'
<1>1. /\ phase = "stops" /\ id \notin walked /\ walked' = walked \cup {id}
      /\ UNCHANGED <<active, stopCount, phase, sent, asked>>
  BY DEF CrossStopOrder
<1>2. OrderShape(stops[id]) /\ stops[id].status # "TRIGGERED"
  BY <1>1 DEF BrokerInv, BooksTyped, StopsTriggeredInWalk
<1>3. CASE ~StopCrosses(stops[id])
  <2>1. UNCHANGED <<stops, limitCount, filled>>
    BY <1>3 DEF CrossStopOrder
  <2>2. BooksTyped'
    BY <1>1, <2>1 DEF BrokerInv, BooksTyped, OrderShape
  <2>3. EntriesFilledInWalk' /\ StopsTriggeredInWalk' /\ GoneForGood' /\ NewIdsUnfilled'
    BY <1>1, <2>1 DEF BrokerInv, EntriesFilledInWalk, StopsTriggeredInWalk, GoneForGood,
       CancelAsked, NewIdsUnfilled
  <2>4. IdsSuffice'
    BY <1>1, <2>1, StopsStand DEF BrokerInv, IdsSuffice
  <2> QED BY <2>2, <2>3, <2>4 DEF BrokerInv
<1>4. CASE StopCrosses(stops[id])
  <2>1. /\ limitCount' = limitCount + 1
        /\ stops' = [stops EXCEPT ![id].status = "TRIGGERED"]
        /\ filled' = [filled EXCEPT ![limitCount + 1] = @ + 1]
    BY <1>4 DEF CrossStopOrder
  <2>2. /\ IsFiniteSet(WaitingStops) /\ Cardinality(WaitingStops) \in Nat
        /\ id \in WaitingStops
    BY <1>2, WaitingIsFinite DEF BrokerInv, WaitingStops
  <2>3. /\ limitCount \in Nat /\ limitCount + 1 \in 1..MaxSent /\ MaxSent \in Nat /\ sent \in Nat
        /\ filled \in [1..MaxSent -> Nat]
    BY <2>2, IdsBounded, BacktestConstants DEF BrokerInv, BooksTyped
  <2>4. filled[limitCount + 1] = 0
    BY <2>3 DEF BrokerInv, NewIdsUnfilled
  <2>5. /\ filled' \in [1..MaxSent -> Nat] /\ filled'[limitCount + 1] = 1
        /\ \A i \in 1..MaxSent : i # limitCount + 1 => filled'[i] = filled[i]
    BY <2>1, <2>3, <2>4
  <2>6. /\ DOMAIN stops' = DOMAIN stops
        /\ \A i \in DOMAIN stops : i # id => stops'[i] = stops[i]
        /\ OrderShape(stops'[id]) /\ stops'[id].status = "TRIGGERED"
    BY <1>2, <2>1 DEF OrderShape
  <2>7. \A i \in DOMAIN active : i \in 1..limitCount /\ i # limitCount + 1 /\ i \in 1..MaxSent
    BY <2>3 DEF BrokerInv, BooksTyped
  <2>8. BooksTyped'
    <3>1. \A i \in DOMAIN stops' : OrderShape(stops'[i])
      BY <2>6 DEF BrokerInv, BooksTyped
    <3>2. \A i \in DOMAIN active' : OrderShape(active'[i])
      BY <1>1 DEF BrokerInv, BooksTyped
    <3>3. DOMAIN active' \subseteq 1..limitCount' /\ DOMAIN stops' \subseteq 1..stopCount'
      BY <1>1, <2>1, <2>3, <2>6, <2>7 DEF BrokerInv, BooksTyped
    <3>4. limitCount' \in Nat /\ stopCount' \in Nat /\ sent' \in 0..MaxSent
          /\ phase' \in {"limits", "stops", "bar"}
      BY <1>1, <2>1, <2>3 DEF BrokerInv, BooksTyped
    <3> QED BY <2>5, <3>1, <3>2, <3>3, <3>4 DEF BooksTyped, OrderShape
  <2>9. EntriesFilledInWalk'
    BY <1>1, <2>5, <2>7 DEF BrokerInv, EntriesFilledInWalk
  <2>10. StopsTriggeredInWalk'
    BY <1>1, <2>6 DEF BrokerInv, StopsTriggeredInWalk
  <2>11. GoneForGood'
    <3> SUFFICES ASSUME NEW i \in 1..(limitCount + 1), i \notin DOMAIN active
                 PROVE  filled'[i] = 1 \/ (filled'[i] = 0 /\ CancelAsked(i))
      BY <1>1, <2>1 DEF GoneForGood, CancelAsked
    <3>1. CASE i = limitCount + 1
      BY <2>5, <3>1
    <3>2. CASE i # limitCount + 1
      <4>1. i \in 1..limitCount /\ i \in 1..MaxSent
        BY <2>3, <3>2
      <4> QED BY <2>5, <3>2, <4>1 DEF BrokerInv, GoneForGood
    <3> QED BY <3>1, <3>2
  <2>12. NewIdsUnfilled'
    BY <2>1, <2>3, <2>5 DEF BrokerInv, NewIdsUnfilled
  <2>13. IdsSuffice'
    <3>1. WaitingStops' = WaitingStops \ {id}
      BY <2>6 DEF WaitingStops
    <3>2. Cardinality(WaitingStops') = Cardinality(WaitingStops) - 1
      BY <2>2, <3>1, FS_RemoveElement
    <3> QED BY <1>1, <2>1, <2>2, <2>3, <3>2 DEF BrokerInv, IdsSuffice
  <2> QED BY <2>8, <2>9, <2>10, <2>11, <2>12, <2>13 DEF BrokerInv
<1> QED BY <1>3, <1>4

LEMMA StopsDoneKeeps == ASSUME BrokerInv, StopOrdersDone PROVE BrokerInv'
<1> DEFINE done == {id \in DOMAIN stops : stops[id].status = "TRIGGERED"}
<1>1. /\ phase = "stops" /\ phase' = "bar"
      /\ stops' = BookWithout(stops, done)
      /\ UNCHANGED <<active, limitCount, stopCount, sent, filled, asked>>
  BY DEF StopOrdersDone
<1>2. /\ DOMAIN stops' = DOMAIN stops \ done
      /\ \A i \in DOMAIN stops' : stops'[i] = stops[i]
  BY <1>1 DEF BookWithout
<1>3. BooksTyped'
  BY <1>1, <1>2 DEF BrokerInv, BooksTyped, OrderShape
<1>4. EntriesFilledInWalk' /\ GoneForGood' /\ NewIdsUnfilled'
  BY <1>1 DEF BrokerInv, EntriesFilledInWalk, GoneForGood, CancelAsked, NewIdsUnfilled
<1>5. StopsTriggeredInWalk'
  BY <1>1, <1>2 DEF StopsTriggeredInWalk
<1>6. IdsSuffice'
  <2>1. WaitingStops' = WaitingStops
    BY <1>2 DEF WaitingStops
  <2> QED BY <1>1, <2>1 DEF BrokerInv, IdsSuffice
<1> QED BY <1>3, <1>4, <1>5, <1>6 DEF BrokerInv

LEMMA NextBarKeeps == ASSUME BrokerInv, NextBar PROVE BrokerInv'
<1>1. /\ phase = "bar" /\ phase' = "limits"
      /\ UNCHANGED <<active, stops, limitCount, stopCount, walked, sent, filled, asked>>
  BY DEF NextBar, bookVars
<1>2. BooksTyped'
  BY <1>1 DEF BrokerInv, BooksTyped, OrderShape
<1>3. EntriesFilledInWalk' /\ StopsTriggeredInWalk' /\ GoneForGood' /\ NewIdsUnfilled'
  BY <1>1 DEF BrokerInv, EntriesFilledInWalk, StopsTriggeredInWalk, GoneForGood, CancelAsked,
     NewIdsUnfilled
<1>4. IdsSuffice'
  BY <1>1, StopsStand DEF BrokerInv, IdsSuffice
<1> QED BY <1>2, <1>3, <1>4 DEF BrokerInv

LEMMA MatchKeeps == ASSUME BrokerInv, MatchStep PROVE BrokerInv'
  BY CrossLimitKeeps, CrossStopKeeps, LimitsDoneKeeps, StopsDoneKeeps, NextBarKeeps DEF MatchStep

LEMMA BrokerInvGives == ASSUME BrokerInv PROVE FilledOnce
<1> SUFFICES ASSUME NEW id \in 1..limitCount
             PROVE  LET open == id \in DOMAIN active /\ active[id].status # "ALLTRADED"
                        cancelled == {<<"limit", id>>, <<"stop", id>>} \cap asked # {} IN
                    /\ filled[id] \in {0, 1}
                    /\ open => filled[id] = 0
                    /\ ~open /\ filled[id] = 0 => cancelled
  BY DEF FilledOnce
<1>1. CASE id \in DOMAIN active
  BY <1>1 DEF BrokerInv, EntriesFilledInWalk
<1>2. CASE id \notin DOMAIN active
  <2>1. filled[id] = 1 \/ (filled[id] = 0 /\ CancelAsked(id))
    BY <1>2 DEF BrokerInv, GoneForGood
  <2>2. CancelAsked(id) => {<<"limit", id>>, <<"stop", id>>} \cap asked # {}
    BY DEF CancelAsked
  <2> QED BY <1>2, <2>1, <2>2
<1> QED BY <1>1, <1>2

---------------------------------------------------------------------------
(* The strategies and the broker *)

\* Whatever runs on the backtesting broker, a step of it is a call or a step of a walk.
BrokerStep ==
  \/ MatchStep \/ CancelAllOrders \/ OnStop
  \/ \E side, opens, price, volume : SendLimitOrder(side, opens, price, volume)
  \/ \E side, price, volume : SendStopOrder(side, price, volume)
  \/ \E side, volume : MarketOrder(side, volume)
  \/ \E kind \in {"limit", "stop"} : \E id : CancelOrder(kind, id)

LEMMA BrokerStepKeeps == ASSUME BrokerInv, BrokerStep PROVE BrokerInv'
  BY MatchKeeps, CancelAllKeeps, OnStopKeeps, SendLimitKeeps, SendStopKeeps, MarketKeeps,
     CancelKeeps DEF BrokerStep

LEMMA BacktestSteps == ASSUME BacktestNext PROVE BrokerStep
  BY DEF BacktestNext, BrokerStep

LEMMA TargetSteps == ASSUME TargetNext PROVE BrokerStep \/ UNCHANGED btVars
<1>1. CASE Match
  BY <1>1 DEF Match, BrokerStep
<1>2. ASSUME NEW t \in Targets, SetTargetPos(t) PROVE BrokerStep \/ UNCHANGED btVars
  <2>1. CASE CancelOldOrders
    BY <2>1 DEF CancelOldOrders, BrokerStep
  <2>2. CASE SendNewOrders(t)
    BY <2>2 DEF SendNewOrders, BrokerStep
  <2> QED BY <1>2, <2>1, <2>2 DEF SetTargetPos
<1> QED BY <1>1, <1>2 DEF TargetNext

LEMMA ValidationSteps == ASSUME ValidationNext PROVE BrokerStep \/ UNCHANGED btVars
<1>1. CASE \E id \in DOMAIN active : OrderWalked(id)
  BY <1>1 DEF OrderWalked, BrokerStep, MatchStep
<1>2. CASE \E id \in DOMAIN active : CancelOrderById(id)
  BY <1>2 DEF CancelOrderById, BrokerStep
<1>3. CASE WalksDone \/ BarArrives \/ OnStop
  BY <1>3 DEF WalksDone, BarArrives, BrokerStep, MatchStep
<1>4. CASE ValidationOnBar
  BY <1>4 DEF ValidationOnBar, SendExit, BrokerStep
<1>5. CASE \E price \in OrderPrices, volume \in Lots :
             SendBuy(price, volume) \/ SendSell(price, volume) \/ SendShort(price, volume)
               \/ SendCover(price, volume)
  BY <1>5 DEF SendBuy, SendSell, SendShort, SendCover, Sends, BrokerStep
<1>6. CASE \E price \in ExitPrices : SetStopLoss(price) \/ SetTakeProfit(price)
  BY <1>6 DEF SetStopLoss, SetTakeProfit
<1> QED BY <1>1, <1>2, <1>3, <1>4, <1>5, <1>6 DEF ValidationNext

LEMMA BuiltinSteps == ASSUME BuiltinNext PROVE BrokerStep \/ UNCHANGED btVars
  BY DEF BuiltinNext, BuiltinOnBar, SendPlanned, BrokerMatches, BrokerStep

LEMMA DeskSteps ==
  ASSUME [DeskNext]_deskVars
  PROVE  BrokerStep \/ UNCHANGED btVars
<1>1. CASE BacktestTrades \/ TargetTrades \/ ValidationTrades \/ BuiltinTrades
  BY <1>1, BacktestSteps, TargetSteps, ValidationSteps, BuiltinSteps
     DEF BacktestTrades, TargetTrades, ValidationTrades, BuiltinTrades
<1>2. CASE GridTrades \/ OffsetTrades \/ AccountTrades \/ ContextTrades \/ Optimizes \/ Judges
  BY <1>2 DEF GridTrades, OffsetTrades, AccountTrades, ContextTrades, Optimizes, Judges, NoLedger,
     brokerageVars
<1>3. CASE UNCHANGED deskVars
  BY <1>3 DEF deskVars, brokerageVars
<1> QED BY <1>1, <1>2, <1>3 DEF DeskNext

LEMMA DeskKeepsBroker == ASSUME BrokerInv, [DeskNext]_deskVars PROVE BrokerInv'
<1>1. CASE BrokerStep
  BY <1>1, BrokerStepKeeps
<1>2. CASE UNCHANGED btVars
  BY <1>2, BooksStand DEF btVars, bookVars, walkVars, BooksState
<1> QED BY <1>1, <1>2, DeskSteps

---------------------------------------------------------------------------
(* The paper account's orders *)

\* An order is open, was filled once or was cancelled on demand, and both books say so.
SettledWell(mark, count, open, wanted) ==
  \/ open /\ mark = "NOTTRADED" /\ count = 0 /\ ~wanted
  \/ ~open /\ count = 1 /\ mark = "ALLTRADED" /\ ~wanted
  \/ ~open /\ count = 0 /\ mark = "CANCELLED" /\ wanted

PaperOrdersInv ==
  /\ allOrders \in Seq({"NOTTRADED", "ALLTRADED", "CANCELLED"})
  /\ fills \in Seq(Nat) /\ Len(fills) = Len(allOrders)
  /\ DOMAIN pendingOrders \subseteq 1..Len(allOrders) /\ cancelAsked \subseteq 1..Len(allOrders)
  /\ \A id \in 1..Len(allOrders) :
       SettledWell(allOrders[id], fills[id], id \in DOMAIN pendingOrders, id \in cancelAsked)

LEMMA InitPaperOrders == PaperAccountInit => PaperOrdersInv
<1> SUFFICES ASSUME PaperAccountInit PROVE PaperOrdersInv
  OBVIOUS
<1>1. allOrders = <<>> /\ fills = <<>> /\ DOMAIN pendingOrders = {} /\ cancelAsked = {}
  BY DEF PaperAccountInit
<1> QED BY <1>1 DEF PaperOrdersInv

LEMMA PaperOrdersStand ==
  ASSUME PaperOrdersInv, UNCHANGED <<paperOrderVars, fills>>
  PROVE  PaperOrdersInv'
  BY DEF PaperOrdersInv, paperOrderVars

LEMMA PaperSettled == ASSUME PaperOrdersInv PROVE PaperOrdersSettle
<1> SUFFICES ASSUME NEW id \in DOMAIN allOrders
             PROVE  CASE id \in DOMAIN pendingOrders -> allOrders[id] = "NOTTRADED" /\ fills[id] = 0
                      [] fills[id] = 1 -> allOrders[id] = "ALLTRADED" /\ id \notin cancelAsked
                      [] OTHER -> allOrders[id] = "CANCELLED" /\ fills[id] = 0 /\ id \in cancelAsked
  BY DEF PaperOrdersSettle
<1>1. SettledWell(allOrders[id], fills[id], id \in DOMAIN pendingOrders, id \in cancelAsked)
  BY DEF PaperOrdersInv
<1>2. CASE id \in DOMAIN pendingOrders
  BY <1>1, <1>2 DEF SettledWell
<1>3. CASE id \notin DOMAIN pendingOrders /\ fills[id] = 1
  BY <1>1, <1>3 DEF SettledWell
<1>4. CASE id \notin DOMAIN pendingOrders /\ fills[id] # 1
  BY <1>1, <1>4 DEF SettledWell
<1> QED BY <1>2, <1>3, <1>4

LEMMA PaperSendKeeps ==
  ASSUME PaperOrdersInv, NEW o, SendPaperOrder(o)
  PROVE  PaperOrdersInv'
<1> DEFINE n == Len(allOrders)
<1>1. /\ allOrders' = Append(allOrders, "NOTTRADED") /\ fills' = Append(fills, 0)
      /\ cancelAsked' = cancelAsked
  BY DEF SendPaperOrder
<1>2. /\ n \in Nat /\ Len(fills) = n
      /\ allOrders' \in Seq({"NOTTRADED", "ALLTRADED", "CANCELLED"}) /\ Len(allOrders') = n + 1
      /\ fills' \in Seq(Nat) /\ Len(fills') = n + 1
      /\ allOrders'[n + 1] = "NOTTRADED" /\ fills'[n + 1] = 0
      /\ \A id \in 1..n : allOrders'[id] = allOrders[id] /\ fills'[id] = fills[id]
  BY <1>1 DEF PaperOrdersInv
<1>3. DOMAIN pendingOrders' = DOMAIN pendingOrders \cup {n + 1}
  BY <1>2 DEF SendPaperOrder
<1>4. DOMAIN pendingOrders' \subseteq 1..Len(allOrders') /\ cancelAsked' \subseteq 1..Len(allOrders')
  BY <1>1, <1>2, <1>3 DEF PaperOrdersInv
<1>5. ASSUME NEW id \in 1..Len(allOrders')
      PROVE  SettledWell(allOrders'[id], fills'[id], id \in DOMAIN pendingOrders', id \in cancelAsked')
  <2>1. CASE id = n + 1
    <3>1. id \notin cancelAsked
      BY <1>2, <2>1 DEF PaperOrdersInv
    <3> QED BY <1>1, <1>2, <1>3, <2>1, <3>1 DEF SettledWell
  <2>2. CASE id # n + 1
    <3>1. id \in 1..n /\ (id \in DOMAIN pendingOrders' <=> id \in DOMAIN pendingOrders)
      BY <1>2, <1>3, <2>2
    <3>2. SettledWell(allOrders[id], fills[id], id \in DOMAIN pendingOrders, id \in cancelAsked)
      BY <3>1 DEF PaperOrdersInv
    <3> QED BY <1>1, <1>2, <3>1, <3>2 DEF SettledWell
  <2> QED BY <2>1, <2>2
<1> QED BY <1>2, <1>4, <1>5 DEF PaperOrdersInv

\* Open orders that leave the book: all cancelled because it was asked, or all filled.
LEMMA PaperLeaveKeeps ==
  ASSUME PaperOrdersInv, NEW ids \in SUBSET DOMAIN pendingOrders,
         DOMAIN pendingOrders' = DOMAIN pendingOrders \ ids,
         \/ /\ allOrders' = Become(ids, "CANCELLED")
            /\ cancelAsked' = cancelAsked \cup ids /\ fills' = fills
         \/ /\ allOrders' = Become(ids, "ALLTRADED") /\ cancelAsked' = cancelAsked
            /\ fills' = [id \in DOMAIN fills |-> IF id \in ids THEN fills[id] + 1 ELSE fills[id]]
  PROVE  PaperOrdersInv'
<1>1. PICK n \in Nat : n = Len(allOrders) /\ n = Len(fills) /\ DOMAIN allOrders = 1..n
                      /\ DOMAIN fills = 1..n
  BY DEF PaperOrdersInv
<1>2. ids \subseteq 1..n
  BY <1>1 DEF PaperOrdersInv
<1>3. allOrders' \in [1..n -> {"NOTTRADED", "ALLTRADED", "CANCELLED"}]
  BY <1>1 DEF PaperOrdersInv, Become
<1>4. fills' \in [1..n -> Nat]
  <2>1. fills \in [1..n -> Nat]
    BY <1>1 DEF PaperOrdersInv
  <2> QED BY <2>1
<1>5. /\ allOrders' \in Seq({"NOTTRADED", "ALLTRADED", "CANCELLED"}) /\ Len(allOrders') = n
      /\ fills' \in Seq(Nat) /\ Len(fills') = n
  BY <1>1, <1>3, <1>4
<1>6. DOMAIN pendingOrders' \subseteq 1..n /\ cancelAsked' \subseteq 1..n
  BY <1>1, <1>2 DEF PaperOrdersInv
<1>7. ASSUME NEW id \in 1..n
      PROVE  SettledWell(allOrders'[id], fills'[id], id \in DOMAIN pendingOrders', id \in cancelAsked')
  <2>1. SettledWell(allOrders[id], fills[id], id \in DOMAIN pendingOrders, id \in cancelAsked)
    BY <1>1 DEF PaperOrdersInv
  <2>2. CASE id \in ids
    <3>1. allOrders[id] = "NOTTRADED" /\ fills[id] = 0 /\ id \notin cancelAsked
      BY <2>1, <2>2 DEF SettledWell
    <3>2. id \notin DOMAIN pendingOrders'
      BY <2>2
    <3>3. CASE allOrders' = Become(ids, "CANCELLED") /\ cancelAsked' = cancelAsked \cup ids /\ fills' = fills
      <4>1. allOrders'[id] = "CANCELLED" /\ fills'[id] = 0 /\ id \in cancelAsked'
        BY <1>1, <2>2, <3>1, <3>3 DEF Become
      <4> QED BY <3>2, <4>1 DEF SettledWell
    <3>4. CASE allOrders' = Become(ids, "ALLTRADED") /\ cancelAsked' = cancelAsked
               /\ fills' = [i \in DOMAIN fills |-> IF i \in ids THEN fills[i] + 1 ELSE fills[i]]
      <4>1. allOrders'[id] = "ALLTRADED" /\ fills'[id] = 1 /\ id \notin cancelAsked'
        BY <1>1, <2>2, <3>1, <3>4 DEF Become
      <4> QED BY <3>2, <4>1 DEF SettledWell
    <3> QED BY <3>3, <3>4
  <2>3. CASE id \notin ids
    <3>1. /\ allOrders'[id] = allOrders[id] /\ fills'[id] = fills[id]
          /\ id \in cancelAsked' <=> id \in cancelAsked
          /\ id \in DOMAIN pendingOrders' <=> id \in DOMAIN pendingOrders
      BY <1>1, <2>3 DEF Become
    <3> QED BY <2>1, <3>1 DEF SettledWell
  <2> QED BY <2>2, <2>3
<1> QED BY <1>5, <1>6, <1>7 DEF PaperOrdersInv

LEMMA PaperCancelKeeps ==
  ASSUME PaperOrdersInv, NEW ids \in SUBSET DOMAIN pendingOrders, Cancelled(ids)
  PROVE  PaperOrdersInv'
  BY PaperLeaveKeeps DEF Cancelled, OpenWithout

LEMMA PaperFillKeeps ==
  ASSUME PaperOrdersInv, NEW symbol, NEW bid, NEW ask, FillOrders(symbol, bid, ask)
  PROVE  PaperOrdersInv'
<1>1. PICK ids : ids = Fillables(symbol, bid, ask)
  OBVIOUS
<1>2. ids \in SUBSET DOMAIN pendingOrders
  BY <1>1 DEF Fillables
<1>3. /\ pendingOrders' = OpenWithout(ids) /\ allOrders' = Become(ids, "ALLTRADED")
      /\ fills' = [id \in DOMAIN fills |-> IF id \in ids THEN fills[id] + 1 ELSE fills[id]]
      /\ cancelAsked' = cancelAsked
  BY <1>1 DEF FillOrders
<1>4. DOMAIN pendingOrders' = DOMAIN pendingOrders \ ids
  BY <1>3 DEF OpenWithout
<1> QED BY <1>2, <1>3, <1>4, PaperLeaveKeeps

LEMMA PaperStepKeeps == ASSUME PaperOrdersInv, PaperAccountNext PROVE PaperOrdersInv'
<1>1. CASE \E o : SendPaperOrder(o)
  BY <1>1, PaperSendKeeps
<1>2. CASE \E ids \in SUBSET DOMAIN pendingOrders : Cancelled(ids)
  BY <1>2, PaperCancelKeeps
<1>3. CASE \E symbol, bid, ask : FillOrders(symbol, bid, ask)
  BY <1>3, PaperFillKeeps
<1> QED
  BY <1>1, <1>2, <1>3 DEF PaperAccountNext, PaperBuy, PaperSell, PaperMarket, PaperCancel,
     PaperCancelAll, PaperOnTick, PaperOnBar

\* Whatever callbacks and cancels fall into the walks of the backtest, and in
\* whatever order the paper broker fills, every order ends in exactly one way.
THEOREM OrdersSettleEver == DeskSpec => []OrdersSettle
<1>1. DeskInit => BrokerInv /\ PaperOrdersInv
  BY InitBroker, InitPaperOrders DEF DeskInit, TargetInit
<1>2. BrokerInv /\ PaperOrdersInv /\ [DeskNext]_deskVars => BrokerInv' /\ PaperOrdersInv'
  <2> SUFFICES ASSUME BrokerInv, PaperOrdersInv, [DeskNext]_deskVars
               PROVE  BrokerInv' /\ PaperOrdersInv'
    OBVIOUS
  <2>1. BrokerInv'
    BY DeskKeepsBroker
  <2>2. CASE AccountTrades
    BY <2>1, <2>2, PaperStepKeeps DEF AccountTrades
  <2>3. CASE ~AccountTrades
    <3>1. UNCHANGED paperAccountVars
      BY <2>3 DEF DeskNext, deskVars, ledgerVars, GridTrades, BacktestTrades, TargetTrades,
         ValidationTrades, BuiltinTrades, OffsetTrades, ContextTrades, Optimizes, Judges, NoBrokerage
    <3> QED BY <2>1, <3>1, PaperOrdersStand DEF paperAccountVars
  <2> QED BY <2>2, <2>3
<1>3. BrokerInv /\ PaperOrdersInv => OrdersSettle
  BY BrokerInvGives, PaperSettled DEF OrdersSettle
<1> QED BY <1>1, <1>2, <1>3, PTL DEF DeskSpec

---------------------------------------------------------------------------
(* What the strategies and the broker know of each other.  None of the          *)
(* strategies sends a stop order, so only limit orders trade.                    *)
IsOrder(o) == o.side \in {"LONG", "SHORT"} /\ o.price \in Int /\ o.volume \in Nat \ {0}
PositionTyped ==
  /\ position = [side |-> position.side, volume |-> position.volume, avg |-> position.avg]
  /\ position.side \in {"LONG", "SHORT", "NET"} /\ position.volume \in Nat /\ position.avg \in Int
  /\ position.volume = 0 => position = Flat
  /\ position.volume > 0 => position.side # "NET" /\ position.avg >= 1
LimitsOnly ==
  /\ DOMAIN stops = {}
  /\ \A id \in DOMAIN active : IsOrder(active[id])
  /\ PositionTyped
  /\ bar \in BarShapes \cup {NoBar} /\ (phase = "limits" => bar \in BarShapes)

\* An average of prices is one, and that of a single price is the price.
LEMMA AverageIsPrice ==
  ASSUME NEW avg \in Int, NEW held \in Nat, held > 0 => avg >= 1,
         NEW price \in Int, price >= 1, NEW volume \in Nat \ {0}
  PROVE  /\ (avg * held + price * volume) \div (held + volume) \in Int
         /\ (avg * held + price * volume) \div (held + volume) >= 1
         /\ held = 0 => (avg * held + price * volume) \div (held + volume) = price
<1>1. PICK old \in Int : old = avg * held /\ old >= held
  <2>1. CASE held = 0
    <3>1. avg * held = 0
      BY <2>1
    <3> QED BY <2>1, <3>1
  <2>2. CASE held > 0
    <3>1. avg * held \in Int /\ avg * held >= held
      BY <2>2
    <3> QED BY <3>1
  <2> QED BY <2>1, <2>2
<1>2. PICK new \in Int : new = price * volume /\ new >= volume
  <2>1. price * volume \in Int /\ price * volume >= volume
    OBVIOUS
  <2> QED BY <2>1
<1>3. PICK sum \in Int : sum = old + new /\ sum >= held + volume /\ held + volume > 0
  BY <1>1, <1>2
<1>4. sum \div (held + volume) \in Int /\ sum \div (held + volume) >= 1
  BY <1>3
<1>5. held = 0 => sum \div (held + volume) = price
  <2> SUFFICES ASSUME held = 0 PROVE sum \div volume = price
    OBVIOUS
  <2>1. sum = price * volume
    BY <1>1, <1>2, <1>3
  <2>2. (price * volume) \div volume = price
    OBVIOUS
  <2> QED BY <2>1, <2>2
<1> QED BY <1>1, <1>2, <1>3, <1>4, <1>5

\* What a trade makes of the position.
LEMMA TradeIs ==
  ASSUME PositionTyped, NEW side \in {"LONG", "SHORT"}, NEW price \in Int, price >= 1,
         NEW volume \in Nat \ {0}, position' = NewPosition(side, price, volume)
  PROVE  /\ PositionTyped'
         /\ position.side = Opposite(side) /\ position.volume > volume =>
              /\ position'.side = position.side /\ position'.avg = position.avg
              /\ position'.volume = position.volume - volume
         /\ position.side = Opposite(side) /\ position.volume = volume => position' = Flat
         /\ position.side = Opposite(side) /\ position.volume > 0 /\ position.volume < volume =>
              position'.side = side /\ position'.volume = volume - position.volume
         /\ position.side # Opposite(side) \/ position.volume = 0 =>
              /\ position'.side = side /\ position'.volume = position.volume + volume
              /\ position'.avg = (position.avg * position.volume + price * volume)
                                   \div (position.volume + volume)
<1>1. PICK s, held, avg : position = [side |-> s, volume |-> held, avg |-> avg]
  BY DEF PositionTyped
<1>2. s \in {"LONG", "SHORT", "NET"} /\ held \in Nat /\ avg \in Int
      /\ (held = 0 => s = "NET" /\ avg = 0) /\ (held > 0 => s # "NET" /\ avg >= 1)
  <2>1. s = position.side /\ held = position.volume /\ avg = position.avg
    BY <1>1
  <2>2. position = Flat => position.side = "NET" /\ position.avg = 0
    BY DEF Flat
  <2> QED BY <2>1, <2>2 DEF PositionTyped
<1>3. Opposite(side) \in {"LONG", "SHORT"} /\ Opposite(side) # side
  BY DEF Opposite
<1>4. CASE s = Opposite(side) /\ held > volume
  <2>1. position' = [side |-> s, volume |-> held - volume, avg |-> avg]
    BY <1>1, <1>2, <1>4 DEF NewPosition
  <2> QED BY <1>1, <1>2, <1>3, <1>4, <2>1 DEF PositionTyped
<1>5. CASE s = Opposite(side) /\ held = volume
  <2>1. position' = Flat
    BY <1>1, <1>2, <1>5 DEF NewPosition
  <2> QED BY <1>1, <1>2, <1>3, <1>5, <2>1 DEF PositionTyped, Flat
<1>6. CASE s = Opposite(side) /\ held > 0 /\ held < volume
  <2>1. position' = [side |-> side, volume |-> volume - held, avg |-> price]
    BY <1>1, <1>2, <1>6 DEF NewPosition
  <2> QED BY <1>1, <1>2, <1>3, <1>6, <2>1 DEF PositionTyped
<1>7. CASE s # Opposite(side) \/ held = 0
  <2>1. position' = [side |-> side, volume |-> held + volume,
                     avg |-> (avg * held + price * volume) \div (held + volume)]
    BY <1>1, <1>2, <1>7 DEF NewPosition
  <2>2. PICK mean : mean = (avg * held + price * volume) \div (held + volume)
    OBVIOUS
  <2>3. mean \in Int /\ mean >= 1
    BY <1>2, <2>2, AverageIsPrice
  <2>4. position' = [side |-> side, volume |-> held + volume, avg |-> mean]
    BY <2>1, <2>2
  <2>5. PositionTyped'
    BY <1>2, <2>3, <2>4 DEF PositionTyped
  <2>6. position'.side = side /\ position'.volume = position.volume + volume
        /\ position'.avg = (position.avg * position.volume + price * volume)
                                   \div (position.volume + volume)
    BY <1>1, <2>2, <2>4
  <2> QED BY <1>1, <1>2, <1>7, <2>5, <2>6
<1> QED BY <1>2, <1>4, <1>5, <1>6, <1>7

\* An order sent from on_bar is new and open.
LEMMA SendOpens ==
  ASSUME BrokerInv, LimitsOnly, NEW side \in {"LONG", "SHORT"}, NEW opens, NEW price \in Int,
         NEW volume \in Nat \ {0}, SendLimitOrder(side, opens, price, volume)
  PROVE  /\ LimitsOnly' /\ position' = position /\ phase' = phase /\ allowShort' = allowShort
         /\ limitCount' \notin DOMAIN active /\ limitCount' # 0 /\ OpenIds' = OpenIds \cup {limitCount'}
         /\ active'[limitCount'].side = side /\ active'[limitCount'].volume = volume
         /\ \A id \in OpenIds : active'[id] = active[id]
<1>1. /\ limitCount' = limitCount + 1 /\ limitCount \in Nat /\ DOMAIN active \subseteq 1..limitCount
      /\ UNCHANGED <<stops, position, phase, bar, allowShort>>
  BY DEF SendLimitOrder, accountVars, BrokerInv, BooksTyped
<1>2. PICK o : o = [side |-> side, price |-> price, volume |-> volume, status |-> "SUBMITTING"]
  OBVIOUS
<1>3. active' = BookWith(active, limitCount', o)
  BY <1>2 DEF SendLimitOrder
<1>4. limitCount' \notin DOMAIN active /\ limitCount' # 0
  BY <1>1
<1>5. /\ DOMAIN active' = DOMAIN active \cup {limitCount'} /\ active'[limitCount'] = o
      /\ \A id \in DOMAIN active : active'[id] = active[id]
  BY <1>3, <1>4 DEF BookWith
<1>6. IsOrder(o) /\ o.status # "ALLTRADED"
  BY <1>2 DEF IsOrder
<1>7. LimitsOnly'
  <2>1. \A id \in DOMAIN active' : IsOrder(active'[id])
    BY <1>5, <1>6 DEF LimitsOnly
  <2> QED BY <1>1, <2>1 DEF LimitsOnly, PositionTyped, IsOrder
<1>8. OpenIds' = OpenIds \cup {limitCount'}
  BY <1>4, <1>5, <1>6 DEF OpenIds
<1> QED BY <1>1, <1>2, <1>4, <1>5, <1>7, <1>8 DEF OpenIds

\* Orders that leave the book leave the rest as it was.
LEMMA RemovalLeaves ==
  ASSUME LimitsOnly, NEW ids, active' = BookWithout(active, ids),
         UNCHANGED <<stops, position, bar>>, phase' = phase \/ phase' # "limits"
  PROVE  /\ LimitsOnly' /\ DOMAIN active' = DOMAIN active \ ids /\ OpenIds' = OpenIds \ ids
         /\ \A id \in DOMAIN active' : active'[id] = active[id]
<1>1. DOMAIN active' = DOMAIN active \ ids /\ \A id \in DOMAIN active' : active'[id] = active[id]
  BY DEF BookWithout
<1>2. OpenIds' = OpenIds \ ids
  BY <1>1 DEF OpenIds
<1>3. LimitsOnly'
  BY <1>1 DEF LimitsOnly, PositionTyped, IsOrder
<1> QED BY <1>1, <1>2, <1>3

\* The walk passes an order that the bar does not reach.
LEMMA OrderPassed ==
  ASSUME BrokerInv, LimitsOnly, NEW id \in DOMAIN active, CrossLimitOrder(id),
         ~LimitCrosses(active[id])
  PROVE  /\ LimitsOnly' /\ position' = position /\ DOMAIN active' = DOMAIN active
         /\ OpenIds' = OpenIds /\ id \in OpenIds /\ active'[id].status = "NOTTRADED"
         /\ \A i \in DOMAIN active :
              active'[i].side = active[i].side /\ active'[i].volume = active[i].volume
<1>1. /\ active' = [active EXCEPT ![id].status = "NOTTRADED"]
      /\ phase = "limits" /\ id \notin walked /\ UNCHANGED <<stops, position, phase, bar>>
  BY DEF CrossLimitOrder, accountVars
<1>2. OrderShape(active[id]) /\ active[id].status # "ALLTRADED"
  BY <1>1 DEF BrokerInv, BooksTyped, EntriesFilledInWalk
<1>3. /\ DOMAIN active' = DOMAIN active
      /\ \A i \in DOMAIN active : i # id => active'[i] = active[i]
      /\ active'[id].side = active[id].side /\ active'[id].price = active[id].price
      /\ active'[id].volume = active[id].volume /\ active'[id].status = "NOTTRADED"
  BY <1>1, <1>2 DEF OrderShape
<1>4. LimitsOnly'
  <2>1. \A i \in DOMAIN active' : IsOrder(active'[i])
    BY <1>3 DEF LimitsOnly, IsOrder
  <2> QED BY <1>1, <2>1 DEF LimitsOnly, PositionTyped, IsOrder
<1>5. OpenIds' = OpenIds /\ id \in OpenIds
  BY <1>2, <1>3 DEF OpenIds
<1> QED BY <1>1, <1>3, <1>4, <1>5

\* The walk fills an order that the bar reaches, at a price of the bar or a better one.
LEMMA OrderFills ==
  ASSUME BrokerInv, LimitsOnly, NEW id \in DOMAIN active, CrossLimitOrder(id),
         LimitCrosses(active[id])
  PROVE  /\ LimitsOnly' /\ DOMAIN active' = DOMAIN active
         /\ id \in OpenIds /\ OpenIds' = OpenIds \ {id} /\ active'[id].status = "ALLTRADED"
         /\ \A i \in OpenIds' : active'[i] = active[i]
         /\ IsOrder(active[id]) /\ LimitFillPrice(active[id]) \in Int
         /\ LimitFillPrice(active[id]) >= 1
         /\ position' = NewPosition(active[id].side, LimitFillPrice(active[id]), active[id].volume)
<1>1. /\ active' = [active EXCEPT ![id].status = "ALLTRADED"]
      /\ phase = "limits" /\ id \notin walked /\ UNCHANGED <<stops, phase, bar>>
      /\ position' = NewPosition(active[id].side, LimitFillPrice(active[id]), active[id].volume)
  BY DEF CrossLimitOrder, ExecuteTrade
<1>2. OrderShape(active[id]) /\ active[id].status # "ALLTRADED" /\ IsOrder(active[id])
  BY <1>1 DEF BrokerInv, BooksTyped, EntriesFilledInWalk, LimitsOnly
<1>3. LimitFillPrice(active[id]) \in Int /\ LimitFillPrice(active[id]) >= 1
  <2>1. bar \in BarShapes
    BY <1>1 DEF LimitsOnly
  <2>2. bar.low \in Nat \ {0} /\ bar.open \in Nat \ {0}
    BY <2>1, BacktestAssumption
  <2> QED BY <1>2, <2>2 DEF LimitFillPrice, LimitCrosses, Smaller, Larger, IsOrder
<1>4. PositionTyped'
  <2>1. active[id].side \in {"LONG", "SHORT"} /\ active[id].volume \in Nat \ {0}
    BY <1>2 DEF IsOrder
  <2>2. PositionTyped
    BY DEF LimitsOnly
  <2> QED BY <1>1, <1>3, <2>1, <2>2, TradeIs
<1>5. /\ DOMAIN active' = DOMAIN active
      /\ \A i \in DOMAIN active : i # id => active'[i] = active[i]
      /\ active'[id].side = active[id].side /\ active'[id].price = active[id].price
      /\ active'[id].volume = active[id].volume /\ active'[id].status = "ALLTRADED"
  BY <1>1, <1>2 DEF OrderShape
<1>6. LimitsOnly'
  <2>1. \A i \in DOMAIN active' : IsOrder(active'[i])
    BY <1>5 DEF LimitsOnly, IsOrder
  <2> QED BY <1>1, <1>4, <2>1 DEF LimitsOnly
<1>7. OpenIds' = OpenIds \ {id} /\ id \in OpenIds
  BY <1>2, <1>5 DEF OpenIds
<1>8. \A i \in OpenIds' : active'[i] = active[i]
  BY <1>5, <1>7 DEF OpenIds
<1> QED BY <1>1, <1>2, <1>3, <1>5, <1>6, <1>7, <1>8

\* Between the walks no open order changes.
LEMMA WalkEnds ==
  ASSUME BrokerInv, LimitsOnly, LimitOrdersDone \/ StopOrdersDone \/ NextBar
  PROVE  /\ LimitsOnly' /\ position' = position /\ OpenIds' = OpenIds
         /\ DOMAIN active' \subseteq DOMAIN active
         /\ \A id \in DOMAIN active' : active'[id] = active[id]
         /\ \A id \in OpenIds : active'[id] = active[id]
<1>1. CASE LimitOrdersDone
  <2> DEFINE done == {id \in DOMAIN active : active[id].status = "ALLTRADED"}
  <2>1. active' = BookWithout(active, done) /\ UNCHANGED <<stops, position, bar>>
        /\ phase' # "limits"
    BY <1>1 DEF LimitOrdersDone, accountVars
  <2>2. /\ LimitsOnly' /\ DOMAIN active' = DOMAIN active \ done /\ OpenIds' = OpenIds \ done
        /\ \A id \in DOMAIN active' : active'[id] = active[id]
    BY <2>1, RemovalLeaves
  <2>3. OpenIds \cap done = {}
    BY DEF OpenIds
  <2>4. OpenIds' = OpenIds
    BY <2>2, <2>3
  <2>5. \A id \in OpenIds : id \in DOMAIN active'
    BY <2>4 DEF OpenIds
  <2> QED BY <2>1, <2>2, <2>4, <2>5
<1>2. CASE StopOrdersDone
  <2>1. /\ stops' = BookWithout(stops, {id \in DOMAIN stops : stops[id].status = "TRIGGERED"})
        /\ UNCHANGED <<active, position, bar>> /\ phase' # "limits"
    BY <1>2 DEF StopOrdersDone, accountVars
  <2>2. DOMAIN stops' = {}
    BY <2>1 DEF BookWithout, LimitsOnly
  <2> QED BY <2>1, <2>2 DEF LimitsOnly, PositionTyped, IsOrder, OpenIds
<1>3. CASE NextBar
  <2>1. UNCHANGED <<active, stops, position>> /\ bar' \in BarShapes
    BY <1>3 DEF NextBar, bookVars, accountVars
  <2> QED BY <2>1 DEF LimitsOnly, PositionTyped, IsOrder, OpenIds
<1> QED BY <1>1, <1>2, <1>3

LEMMA NoStopsToCross ==
  ASSUME LimitsOnly, MatchStep
  PROVE  \/ \E id \in DOMAIN active : CrossLimitOrder(id)
         \/ LimitOrdersDone \/ StopOrdersDone \/ NextBar
  BY DEF MatchStep, LimitsOnly

LEMMA LimitsStand ==
  ASSUME LimitsOnly, UNCHANGED btVars
  PROVE  LimitsOnly' /\ OpenIds' = OpenIds
  BY DEF btVars, bookVars, accountVars, walkVars, LimitsOnly, PositionTyped, IsOrder, OpenIds

---------------------------------------------------------------------------
(* The target template.  A position that only grows from zero and shrinks to it *)
(* is a long one, and what is open cannot take it below zero.                    *)
TargetAims ==
  ~everShort =>
    /\ target >= 0 /\ sentFor >= 0
    /\ position.volume > 0 => position.side = "LONG"
    /\ OpenIds \subseteq activeIds /\ \A i, j \in activeIds : i = j
    /\ \A id \in OpenIds :
         sentFor = position.volume + (IF active[id].side = "LONG" THEN 1 ELSE -1) * active[id].volume
    /\ OpenIds = {} /\ cancelIds \subseteq {0} => position.volume = sentFor
    /\ activeIds \ OpenIds \subseteq cancelIds \cup {0}
TargetInv ==
  /\ LimitsOnly /\ target \in Int /\ sentFor \in Int /\ everShort \in BOOLEAN
  /\ TargetAims

LEMMA InitTarget == TargetInit => TargetInv
<1> SUFFICES ASSUME TargetInit PROVE TargetInv
  OBVIOUS
<1>1. /\ DOMAIN stops = {} /\ DOMAIN active = {} /\ position = Flat /\ bar = NoBar /\ phase = "bar"
      /\ sentFor = 0 /\ cancelIds = {}
  BY DEF TargetInit, BacktestInit, EmptyBook
<1>2. target \in Int /\ \A id \in activeIds : id = 0
  <2>1. (target = 0 /\ activeIds = {}) \/ (target \in Targets \ {0} /\ activeIds = {0})
    BY DEF TargetInit
  <2>2. CASE target = 0 /\ activeIds = {}
    BY <2>2
  <2>3. CASE target \in Targets \ {0} /\ activeIds = {0}
    BY <2>3, TargetAssumption
  <2> QED BY <2>1, <2>2, <2>3
<1>3. everShort \in BOOLEAN /\ (~everShort => target >= 0)
  <2>1. everShort = (target < 0)
    BY DEF TargetInit
  <2>2. everShort \in BOOLEAN
    BY <1>2, <2>1
  <2>3. ~everShort => ~(target < 0)
    BY <2>1
  <2>4. ~(target < 0) => target >= 0
    BY <1>2
  <2> QED BY <2>2, <2>3, <2>4
<1>4. LimitsOnly
  BY <1>1 DEF LimitsOnly, PositionTyped, Flat
<1>5. OpenIds = {} /\ position.volume = 0
  BY <1>1 DEF OpenIds, Flat
<1>6. TargetAims
  BY <1>1, <1>2, <1>3, <1>5 DEF TargetAims
<1> QED BY <1>1, <1>2, <1>3, <1>4, <1>6 DEF TargetInv

LEMMA TargetGives == ASSUME TargetInv PROVE TargetAgrees
<1> SUFFICES ASSUME ~everShort PROVE Cardinality(activeIds) <= 1
  BY DEF TargetInv, TargetAims, TargetAgrees
<1>1. CASE activeIds = {}
  BY <1>1, FS_EmptySet
<1>2. ASSUME NEW x \in activeIds PROVE Cardinality(activeIds) <= 1
  <2>1. activeIds = {x}
    BY <1>2 DEF TargetInv, TargetAims
  <2>2. Cardinality(activeIds) = 1
    BY <2>1, FS_Singleton
  <2> QED BY <2>2
<1> QED BY <1>1, <1>2

LEMMA TargetMatchKeeps == ASSUME BrokerInv, TargetInv, Match PROVE TargetInv'
<1>1. /\ UNCHANGED <<target, cancelIds, sentFor, everShort>>
      /\ activeIds' = {id \in activeIds : id \in DOMAIN active' => active'[id].status # "ALLTRADED"}
  BY DEF Match
<1>2. LimitsOnly
  BY DEF TargetInv
<1>3. ASSUME NEW id \in DOMAIN active, CrossLimitOrder(id), LimitCrosses(active[id]) PROVE TargetInv'
  <2>1. /\ LimitsOnly' /\ DOMAIN active' = DOMAIN active
        /\ id \in OpenIds /\ OpenIds' = OpenIds \ {id} /\ active'[id].status = "ALLTRADED"
        /\ \A i \in OpenIds' : active'[i] = active[i]
        /\ IsOrder(active[id])
    BY <1>2, <1>3, OrderFills
  <2>2. PICK side \in {"LONG", "SHORT"}, volume \in Nat \ {0}, price \in Int :
          /\ side = active[id].side /\ volume = active[id].volume /\ price >= 1
          /\ position' = NewPosition(side, price, volume)
    BY <1>2, <1>3, OrderFills DEF IsOrder
  <2>3. PositionTyped
    BY <1>2 DEF LimitsOnly
  <2>4. ASSUME ~everShort PROVE OpenIds' = {} /\ activeIds' = {}
    <3>1. OpenIds \subseteq {id} /\ activeIds \subseteq {id}
      BY <2>1, <2>4 DEF TargetInv, TargetAims
    <3> QED BY <1>1, <2>1, <3>1
  <2>5. ASSUME ~everShort
        PROVE  position'.volume = sentFor /\ (position'.volume > 0 => position'.side = "LONG")
    <3>1. /\ sentFor = position.volume + (IF side = "LONG" THEN 1 ELSE -1) * volume
          /\ sentFor >= 0 /\ sentFor \in Int /\ (position.volume > 0 => position.side = "LONG")
      BY <2>1, <2>2, <2>5 DEF TargetInv, TargetAims
    <3>2. position.volume \in Nat
      BY <2>3 DEF PositionTyped
    <3>3. CASE side = "LONG"
      <4>1. Opposite(side) = "SHORT"
        BY <3>3 DEF Opposite
      <4>2. position.side # Opposite(side) \/ position.volume = 0
        BY <3>1, <3>2, <4>1
      <4>3. position'.side = side /\ position'.volume = position.volume + volume
        BY <2>2, <2>3, <4>2, TradeIs
      <4> QED BY <3>1, <3>2, <3>3, <4>3
    <3>4. CASE side = "SHORT"
      <4>1. Opposite(side) = "LONG"
        BY <3>4 DEF Opposite
      <4>2. sentFor = position.volume - volume /\ volume <= position.volume
            /\ position.side = Opposite(side)
        BY <3>1, <3>2, <3>4, <4>1
      <4>3. CASE volume = position.volume
        <5>1. position' = Flat
          BY <2>2, <2>3, <4>2, <4>3, TradeIs
        <5> QED BY <3>2, <4>2, <4>3, <5>1 DEF Flat
      <4>4. CASE volume < position.volume
        <5>1. position'.side = position.side /\ position'.volume = position.volume - volume
          BY <2>2, <2>3, <4>2, <4>4, TradeIs
        <5> QED BY <4>1, <4>2, <5>1
      <4> QED BY <3>2, <4>2, <4>3, <4>4
    <3> QED BY <3>3, <3>4
  <2>6. TargetAims'
    BY <1>1, <2>4, <2>5 DEF TargetInv, TargetAims
  <2> QED BY <1>1, <2>1, <2>6 DEF TargetInv
<1>4. ASSUME NEW id \in DOMAIN active, CrossLimitOrder(id), ~LimitCrosses(active[id]) PROVE TargetInv'
  <2>1. /\ LimitsOnly' /\ position' = position /\ DOMAIN active' = DOMAIN active
        /\ OpenIds' = OpenIds
        /\ \A i \in DOMAIN active :
             active'[i].side = active[i].side /\ active'[i].volume = active[i].volume
    BY <1>2, <1>4, OrderPassed
  <2>2. ASSUME ~everShort PROVE OpenIds \subseteq activeIds' /\ activeIds' \subseteq activeIds
    <3>1. OpenIds \subseteq activeIds
      BY <2>2 DEF TargetInv, TargetAims
    <3>2. \A i \in OpenIds : active'[i].status # "ALLTRADED"
      BY <2>1 DEF OpenIds
    <3> QED BY <1>1, <3>1, <3>2
  <2>3. TargetAims'
    BY <1>1, <2>1, <2>2 DEF TargetInv, TargetAims, OpenIds
  <2> QED BY <1>1, <2>1, <2>3 DEF TargetInv
<1>5. ASSUME LimitOrdersDone \/ StopOrdersDone \/ NextBar PROVE TargetInv'
  <2>1. /\ LimitsOnly' /\ position' = position /\ OpenIds' = OpenIds
        /\ \A id \in OpenIds : active'[id] = active[id]
    BY <1>2, <1>5, WalkEnds
  <2>2. ASSUME ~everShort PROVE OpenIds \subseteq activeIds' /\ activeIds' \subseteq activeIds
    <3>1. OpenIds \subseteq activeIds
      BY <2>2 DEF TargetInv, TargetAims
    <3>2. \A i \in OpenIds : active'[i].status # "ALLTRADED"
      BY <2>1 DEF OpenIds
    <3> QED BY <1>1, <3>1, <3>2
  <2>3. TargetAims'
    BY <1>1, <2>1, <2>2 DEF TargetInv, TargetAims
  <2> QED BY <1>1, <2>1, <2>3 DEF TargetInv
<1> QED BY <1>2, <1>3, <1>4, <1>5, NoStopsToCross DEF Match

\* A negative target ends what TargetAgrees promises.
LEMMA TargetSetKeeps ==
  ASSUME BrokerInv, TargetInv, NEW t \in Targets, SetTargetPos(t)
  PROVE  TargetInv'
<1>1. /\ target' = t /\ everShort' = (everShort \/ t < 0) /\ t \in Int /\ phase = "bar"
      /\ everShort \in BOOLEAN /\ everShort' \in BOOLEAN
  BY TargetAssumption DEF SetTargetPos, TargetInv
<1>2. LimitsOnly /\ PositionTyped /\ position.volume \in Nat
  BY DEF TargetInv, LimitsOnly, PositionTyped
<1>3. 0 \notin OpenIds
  BY DEF OpenIds, BrokerInv, BooksTyped
<1>4. ~everShort' => ~everShort /\ t >= 0
  <2>1. ~everShort' => ~everShort /\ ~(t < 0)
    BY <1>1
  <2>2. ~(t < 0) => t >= 0
    BY <1>1
  <2> QED BY <2>1, <2>2
<1>5. CASE CancelOldOrders
  <2>1. cancelIds' = cancelIds \cup activeIds /\ UNCHANGED <<activeIds, sentFor>>
    BY <1>5 DEF CancelOldOrders
  <2>2. CASE UNCHANGED btVars
    <3>1. LimitsOnly' /\ OpenIds' = OpenIds /\ active' = active /\ position' = position
      BY <1>2, <2>2, LimitsStand DEF btVars, bookVars, accountVars
    <3>2. TargetAims'
      BY <1>3, <1>4, <1>1, <2>1, <3>1 DEF TargetInv, TargetAims
    <3> QED BY <1>1, <2>1, <3>1, <3>2 DEF TargetInv
  <2>3. ASSUME NEW id \in activeIds, id \in DOMAIN active, CancelOrder("limit", id)
        PROVE  TargetInv'
    <3>1. active' = BookWithout(active, {id}) /\ UNCHANGED <<stops, position, bar, phase>>
      BY <2>3 DEF CancelOrder, accountVars, walkVars
    <3>2. /\ LimitsOnly' /\ OpenIds' = OpenIds \ {id}
          /\ \A i \in DOMAIN active' : active'[i] = active[i]
      BY <1>2, <3>1, RemovalLeaves
    <3>3. \A i \in OpenIds' : active'[i] = active[i]
      BY <3>2 DEF OpenIds
    <3>4. id # 0 /\ id \in cancelIds'
      BY <2>1, <2>3 DEF BrokerInv, BooksTyped
    <3>5. TargetAims'
      BY <1>4, <1>1, <2>1, <3>1, <3>2, <3>3, <3>4 DEF TargetInv, TargetAims
    <3> QED BY <1>1, <2>1, <3>2, <3>5 DEF TargetInv
  <2> QED BY <1>5, <2>2, <2>3 DEF CancelOldOrders
<1>6. CASE SendNewOrders(t)
  <2>1. activeIds = {} /\ cancelIds' = cancelIds
    BY <1>6 DEF SendNewOrders
  <2>2. PICK change \in Int : change = t - position.volume
    BY <1>1, <1>2
  <2>3. ~everShort => OpenIds = {}
    BY <2>1 DEF TargetInv, TargetAims
  <2>4. CASE UNCHANGED btVars /\ sentFor' = sentFor /\ activeIds' \in {{}, {0}}
    <3>1. LimitsOnly' /\ OpenIds' = OpenIds /\ active' = active /\ position' = position
      BY <1>2, <2>4, LimitsStand DEF btVars, bookVars, accountVars
    <3>2. TargetAims'
      BY <1>4, <1>1, <2>1, <2>3, <2>4, <3>1 DEF TargetInv, TargetAims
    <3> QED BY <1>1, <2>4, <3>1, <3>2 DEF TargetInv
  <2>5. ASSUME NEW side \in {"LONG", "SHORT"}, NEW sign \in {1, -1}, NEW volume \in Nat \ {0},
               SendLimitOrder(side, TRUE, Price(sign), volume),
               activeIds' = {limitCount'}, sentFor' = t,
               t = position.volume + (IF side = "LONG" THEN 1 ELSE -1) * volume
        PROVE  TargetInv'
    <3>1. Price(sign) \in Int
      <4>1. bar \in BarShapes \/ bar = NoBar
        BY <1>2 DEF LimitsOnly
      <4>2. bar # NoBar => bar.close \in Int
        BY <4>1, BacktestAssumption
      <4>3. TickAdd \in Int /\ sign * TickAdd \in Int
        BY <2>5, TargetAssumption
      <4> QED BY <4>2, <4>3 DEF Price
    <3>2. PICK price \in Int : price = Price(sign)
      BY <3>1
    <3>3. SendLimitOrder(side, TRUE, price, volume)
      BY <2>5, <3>2
    <3>4. PICK new : new = limitCount'
      OBVIOUS
    <3>5. /\ LimitsOnly' /\ position' = position
          /\ new # 0 /\ OpenIds' = OpenIds \cup {new}
          /\ active'[new].side = side /\ active'[new].volume = volume
      BY <1>2, <2>5, <3>3, <3>4, SendOpens
    <3>6. TargetAims'
      BY <1>1, <1>4, <2>3, <2>5, <3>4, <3>5 DEF TargetInv, TargetAims
    <3> QED BY <1>1, <2>5, <3>5, <3>6 DEF TargetInv
  <2>6. CASE change > 0 /\ SendLimitOrder("LONG", TRUE, Price(1), change)
             /\ activeIds' = {limitCount'} /\ sentFor' = t
    <3>1. change \in Nat \ {0} /\ t = position.volume + (IF "LONG" = "LONG" THEN 1 ELSE -1) * change
      BY <1>1, <1>2, <2>2, <2>6
    <3> QED BY Zenon, <2>5, <2>6, <3>1
  <2>7. CASE change < 0 /\ SendLimitOrder("SHORT", TRUE, Price(-1), - change)
             /\ activeIds' = {limitCount'} /\ sentFor' = t
    <3>1. PICK volume \in Nat \ {0} :
            volume = - change /\ t = position.volume + (IF "SHORT" = "LONG" THEN 1 ELSE -1) * volume
      <4>1. - change \in Nat \ {0}
            /\ t = position.volume + (IF "SHORT" = "LONG" THEN 1 ELSE -1) * (- change)
        BY <1>1, <1>2, <2>2, <2>7
      <4> QED BY <4>1
    <3>2. SendLimitOrder("SHORT", TRUE, Price(-1), volume)
      BY <2>7, <3>1
    <3> QED BY Zenon, <2>5, <2>7, <3>1, <3>2
  <2> QED BY <1>6, <2>1, <2>2, <2>4, <2>6, <2>7 DEF SendNewOrders
<1> QED BY <1>5, <1>6 DEF SetTargetPos

LEMMA TargetStep == ASSUME BrokerInv, TargetInv, TargetNext PROVE TargetInv'
  BY TargetMatchKeeps, TargetSetKeeps DEF TargetNext

LEMMA TargetStands ==
  ASSUME TargetInv, UNCHANGED targetVars
  PROVE  TargetInv'
<1>1. LimitsOnly' /\ OpenIds' = OpenIds
  BY LimitsStand DEF TargetInv, targetVars
<1> QED BY <1>1 DEF TargetInv, TargetAims, targetVars, templateVars, btVars, bookVars, accountVars

---------------------------------------------------------------------------
(* The validation strategy.  While its position was never negative, the price    *)
(* it keeps is the average the broker keeps.                                      *)
KeptBooks ==
  /\ currentPosition = SignedVolume
  /\ ~wasShort => entryPrice = position.avg /\ currentPosition >= 0
ValidationInv ==
  /\ LimitsOnly /\ KeptBooks /\ OpenIds \subseteq activeOrders
  /\ ~tradingOn => active = EmptyBook /\ phase = "bar" /\ ~barDue

LEMMA InitValidation == BacktestInit /\ ValidationInit => ValidationInv
<1> SUFFICES ASSUME BacktestInit, ValidationInit PROVE ValidationInv
  OBVIOUS
<1>1. /\ DOMAIN stops = {} /\ DOMAIN active = {} /\ position = Flat /\ bar = NoBar /\ phase = "bar"
      /\ tradingOn /\ currentPosition = 0 /\ entryPrice = 0
  BY DEF BacktestInit, EmptyBook, ValidationInit
<1>2. LimitsOnly
  BY <1>1 DEF LimitsOnly, PositionTyped, Flat
<1>3. KeptBooks
  BY <1>1 DEF KeptBooks, SignedVolume, Flat
<1>4. OpenIds = {}
  BY <1>1 DEF OpenIds
<1> QED BY <1>1, <1>2, <1>3, <1>4 DEF ValidationInv

LEMMA ValidationGives == ASSUME ValidationInv PROVE BooksMatchBroker
  BY DEF ValidationInv, KeptBooks, BooksMatchBroker, OpenIds

\* A trade the strategy is told of moves its books as the broker's moved.
LEMMA TradeReported ==
  ASSUME PositionTyped, KeptBooks, NEW side \in {"LONG", "SHORT"}, NEW price \in Int, price >= 1,
         NEW volume \in Nat \ {0}, position' = NewPosition(side, price, volume),
         OnTradeReport(side, price, volume)
  PROVE  KeptBooks'
<1>1. PICK held \in Nat, s \in {"LONG", "SHORT", "NET"}, avg \in Int :
        /\ held = position.volume /\ s = position.side /\ avg = position.avg
        /\ (held = 0 => s = "NET" /\ avg = 0) /\ (held > 0 => s # "NET" /\ avg >= 1)
  BY DEF PositionTyped, Flat
<1>2. currentPosition = (IF s = "SHORT" THEN - held ELSE held)
  BY <1>1 DEF KeptBooks, SignedVolume
<1>3. currentPosition' = currentPosition + (IF side = "LONG" THEN volume ELSE - volume)
  BY DEF OnTradeReport
<1>4. ~wasShort' => ~wasShort /\ currentPosition' >= 0
  <2>1. ~wasShort' => ~wasShort /\ ~(currentPosition' < 0)
    BY DEF OnTradeReport
  <2>2. currentPosition' \in Int
    BY <1>1, <1>2, <1>3
  <2>3. ~(currentPosition' < 0) => currentPosition' >= 0
    BY <2>2
  <2> QED BY <2>1, <2>3
<1>5. ~wasShort => entryPrice = avg /\ s # "SHORT"
  <2>1. ~wasShort => entryPrice = avg /\ currentPosition >= 0
    BY <1>1 DEF KeptBooks
  <2>2. s = "SHORT" => ~(currentPosition >= 0)
    BY <1>1, <1>2
  <2> QED BY <2>1, <2>2
<1>6. CASE side = "LONG"
  <2>1. Opposite(side) = "SHORT"
    BY <1>6 DEF Opposite
  <2>2. CASE s = "SHORT"
    <3>1. currentPosition' = - held + volume /\ held > 0
      BY <1>1, <1>2, <1>3, <1>6, <2>2
    <3>2. CASE volume < held
      <4>1. position'.side = "SHORT" /\ position'.volume = held - volume
        BY <1>1, <2>1, <2>2, <3>2, TradeIs
      <4>2. currentPosition' = SignedVolume'
        BY <1>1, <3>1, <4>1 DEF SignedVolume
      <4> QED BY <1>4, <1>5, <2>2, <4>2 DEF KeptBooks
    <3>3. CASE volume = held
      <4>1. position' = Flat
        BY <1>1, <2>1, <2>2, <3>3, TradeIs
      <4>2. currentPosition' = SignedVolume'
        BY <1>1, <3>1, <3>3, <4>1 DEF SignedVolume, Flat
      <4> QED BY <1>4, <1>5, <2>2, <4>2 DEF KeptBooks
    <3>4. CASE volume > held
      <4>1. position'.side = side /\ position'.volume = volume - held
        BY <1>1, <2>1, <2>2, <3>1, <3>4, TradeIs
      <4>2. currentPosition' = SignedVolume'
        BY <1>1, <1>6, <3>1, <4>1 DEF SignedVolume
      <4> QED BY <1>4, <1>5, <2>2, <4>2 DEF KeptBooks
    <3> QED BY <3>2, <3>3, <3>4
  <2>3. CASE s # "SHORT"
    <3>1. PICK mean : mean = (avg * held + price * volume) \div (held + volume)
      OBVIOUS
    <3>2. position'.side = side /\ position'.volume = held + volume /\ position'.avg = mean
      BY <1>1, <2>1, <2>3, <3>1, TradeIs
    <3>3. currentPosition = held /\ currentPosition' = held + volume
      BY <1>1, <1>2, <1>3, <1>6, <2>3
    <3>4. currentPosition' = SignedVolume'
      BY <1>1, <1>6, <3>2, <3>3 DEF SignedVolume
    <3>5. ASSUME ~wasShort' PROVE entryPrice' = mean
      <4>1. entryPrice = avg /\ entryPrice' = EntryAfterBuy(price, volume)
        BY <1>4, <1>5, <1>6, <3>5 DEF OnTradeReport
      <4>2. CASE held = 0
        <5>1. mean = price
          BY <1>1, <3>1, <4>2, AverageIsPrice
        <5>2. entryPrice = 0
          BY <1>1, <4>1, <4>2
        <5> QED BY <4>1, <5>1, <5>2 DEF EntryAfterBuy
      <4>3. CASE held > 0
        <5>1. entryPrice # 0 /\ entryPrice # NotANumber
          BY <1>1, <4>1, <4>3 DEF NotANumber
        <5>2. currentPosition + volume # 0 /\ ~(currentPosition + volume < 0)
          BY <1>1, <3>3
        <5>3. entryPrice' = (entryPrice * currentPosition + price * volume)
                              \div (currentPosition + volume)
          BY <4>1, <5>1, <5>2 DEF EntryAfterBuy, Quotient
        <5> QED BY <3>1, <3>3, <4>1, <5>3
      <4> QED BY <1>1, <4>2, <4>3
    <3> QED BY <1>4, <3>2, <3>4, <3>5 DEF KeptBooks
  <2> QED BY <2>2, <2>3
<1>7. CASE side = "SHORT"
  <2>1. Opposite(side) = "LONG"
    BY <1>7 DEF Opposite
  <2>2. CASE s = "LONG"
    <3>1. currentPosition' = held - volume /\ held > 0
      BY <1>1, <1>2, <1>3, <1>7, <2>2
    <3>2. CASE volume < held
      <4>1. position'.side = "LONG" /\ position'.volume = held - volume /\ position'.avg = avg
        BY <1>1, <2>1, <2>2, <3>2, TradeIs
      <4>2. currentPosition' = SignedVolume' /\ currentPosition' # 0
        BY <1>1, <3>1, <3>2, <4>1 DEF SignedVolume
      <4>3. entryPrice' = entryPrice
        BY <1>7, <4>2 DEF OnTradeReport
      <4> QED BY <1>4, <1>5, <4>1, <4>2, <4>3 DEF KeptBooks
    <3>3. CASE volume = held
      <4>1. position' = Flat
        BY <1>1, <2>1, <2>2, <3>3, TradeIs
      <4>2. currentPosition' = SignedVolume' /\ currentPosition' = 0
        BY <1>1, <3>1, <3>3, <4>1 DEF SignedVolume, Flat
      <4>3. entryPrice' = 0
        BY <1>7, <4>2 DEF OnTradeReport
      <4> QED BY <1>4, <4>1, <4>2, <4>3 DEF KeptBooks, Flat
    <3>4. CASE volume > held
      <4>1. position'.side = side /\ position'.volume = volume - held
        BY <1>1, <2>1, <2>2, <3>1, <3>4, TradeIs
      <4>2. currentPosition' = SignedVolume' /\ ~(currentPosition' >= 0)
        BY <1>1, <1>7, <3>1, <3>4, <4>1 DEF SignedVolume
      <4> QED BY <1>4, <4>2 DEF KeptBooks
    <3> QED BY <3>2, <3>3, <3>4
  <2>3. CASE s # "LONG"
    <3>1. position'.side = side /\ position'.volume = held + volume
      BY <1>1, <2>1, <2>3, TradeIs
    <3>2. currentPosition = - held /\ currentPosition' = - held - volume
      BY <1>1, <1>2, <1>3, <1>7, <2>3
    <3>3. currentPosition' = SignedVolume' /\ ~(currentPosition' >= 0)
      BY <1>1, <1>7, <3>1, <3>2 DEF SignedVolume
    <3> QED BY <1>4, <3>3 DEF KeptBooks
  <2> QED BY <2>2, <2>3
<1> QED BY <1>6, <1>7

LEMMA WalkedKeepsValidation ==
  ASSUME BrokerInv, ValidationInv, NEW id \in DOMAIN active, OrderWalked(id)
  PROVE  ValidationInv'
<1>1. /\ CrossLimitOrder(id) /\ UNCHANGED <<tradingOn, barDue>>
      /\ current' = 0 => UNCHANGED bookkeepingVars
      /\ current' # 0 =>
           /\ OnOrderReport(id, active'[id].status)
           /\ filled' = filled => UNCHANGED <<currentPosition, entryPrice, wasShort>>
           /\ filled' # filled =>
                OnTradeReport(active[id].side, LimitFillPrice(active[id]), active[id].volume)
  BY DEF OrderWalked
<1>2. LimitsOnly /\ KeptBooks /\ OpenIds \subseteq activeOrders
  BY DEF ValidationInv
<1>3. tradingOn
  BY DEF ValidationInv, EmptyBook
<1>4. CASE LimitCrosses(active[id])
  <2>1. /\ LimitsOnly' /\ OpenIds' = OpenIds \ {id} /\ active'[id].status = "ALLTRADED"
        /\ IsOrder(active[id]) /\ LimitFillPrice(active[id]) \in Int
        /\ LimitFillPrice(active[id]) >= 1
        /\ position' = NewPosition(active[id].side, LimitFillPrice(active[id]), active[id].volume)
    BY <1>1, <1>2, <1>4, OrderFills
  <2>2. current' = id /\ filled' = [filled EXCEPT ![id] = @ + 1]
    BY <1>1, <1>4 DEF CrossLimitOrder
  <2>3. id \in 1..MaxSent /\ filled \in [1..MaxSent -> Nat] /\ id # 0
    BY IdsBounded, BacktestConstants DEF BrokerInv, BooksTyped
  <2>4. filled'[id] = filled[id] + 1 /\ filled[id] \in Nat
    BY <2>2, <2>3
  <2>5. filled' # filled
    BY <2>4
  <2>6. KeptBooks'
    <3>1. PICK side \in {"LONG", "SHORT"}, volume \in Nat \ {0}, price \in Int :
            /\ side = active[id].side /\ volume = active[id].volume
            /\ price = LimitFillPrice(active[id])
      BY <2>1 DEF IsOrder
    <3>2. OnTradeReport(side, price, volume) /\ position' = NewPosition(side, price, volume)
      BY <1>1, <2>1, <2>2, <2>3, <2>5, <3>1
    <3> QED BY <1>2, <2>1, <3>1, <3>2, TradeReported DEF LimitsOnly
  <2>7. activeOrders' = activeOrders \ {id}
    BY <1>1, <2>1, <2>2, <2>3 DEF OnOrderReport
  <2> QED BY <1>1, <1>2, <1>3, <2>1, <2>6, <2>7 DEF ValidationInv
<1>5. CASE ~LimitCrosses(active[id])
  <2>1. /\ LimitsOnly' /\ position' = position /\ OpenIds' = OpenIds
        /\ active'[id].status = "NOTTRADED"
    BY <1>1, <1>2, <1>5, OrderPassed
  <2>2. filled' = filled
    BY <1>1, <1>5 DEF CrossLimitOrder
  <2>3. UNCHANGED <<currentPosition, entryPrice, wasShort>>
    BY <1>1, <2>2 DEF bookkeepingVars
  <2>4. activeOrders \subseteq activeOrders'
    BY <1>1, <2>1 DEF bookkeepingVars, OnOrderReport
  <2>5. KeptBooks'
    BY <1>2, <2>1, <2>3 DEF KeptBooks, SignedVolume
  <2> QED BY <1>1, <1>2, <1>3, <2>1, <2>4, <2>5 DEF ValidationInv
<1> QED BY <1>4, <1>5

LEMMA BarsKeepValidation ==
  ASSUME BrokerInv, ValidationInv, WalksDone \/ BarArrives
  PROVE  ValidationInv'
<1>1. /\ LimitOrdersDone \/ StopOrdersDone \/ NextBar
      /\ UNCHANGED <<tradingOn, currentPosition, entryPrice, activeOrders, wasShort>>
  BY DEF WalksDone, BarArrives, bookkeepingVars, validationVars
<1>2. LimitsOnly' /\ position' = position /\ OpenIds' = OpenIds
  BY <1>1, WalkEnds DEF ValidationInv
<1>3. KeptBooks'
  BY <1>1, <1>2 DEF ValidationInv, KeptBooks, SignedVolume
<1>4. tradingOn
  BY DEF ValidationInv, WalksDone, BarArrives, LimitOrdersDone, StopOrdersDone
<1> QED BY <1>1, <1>2, <1>3, <1>4 DEF ValidationInv

\* Exits and the subclass's orders are noted as they are sent.
LEMMA SentKeepsValidation ==
  ASSUME BrokerInv, ValidationInv, tradingOn, NEW side \in {"LONG", "SHORT"}, NEW opens,
         NEW price \in Int, NEW volume \in Nat \ {0}, SendLimitOrder(side, opens, price, volume),
         activeOrders' = activeOrders \cup {limitCount'},
         UNCHANGED <<tradingOn, currentPosition, entryPrice, wasShort>>
  PROVE  ValidationInv'
<1>1. LimitsOnly' /\ position' = position /\ OpenIds' = OpenIds \cup {limitCount'}
  BY SendOpens DEF ValidationInv
<1>2. KeptBooks'
  BY <1>1 DEF ValidationInv, KeptBooks, SignedVolume
<1>3. OpenIds' \subseteq activeOrders'
  BY <1>1 DEF ValidationInv
<1> QED BY <1>1, <1>2, <1>3 DEF ValidationInv

LEMMA OnBarKeepsValidation == ASSUME BrokerInv, ValidationInv, ValidationOnBar PROVE ValidationInv'
<1>1. barDue /\ ~barDue' /\ UNCHANGED <<tradingOn, currentPosition, entryPrice, wasShort>>
  BY DEF ValidationOnBar
<1>2. tradingOn /\ LimitsOnly
  BY <1>1 DEF ValidationInv
<1>3. CASE Exits
  <2>1. SendExit /\ activeOrders' = activeOrders \cup {limitCount'}
    BY <1>3 DEF ValidationOnBar
  <2>2. PICK price \in Int : price = bar.close
    <3>1. bar \in BarShapes \/ bar = NoBar
      BY <1>2 DEF LimitsOnly
    <3>2. bar.close \in Int
      BY <3>1, BacktestAssumption DEF NoBar
    <3> QED BY <3>2
  <2>3. currentPosition \in Int /\ currentPosition # 0
    BY <1>2, <1>3 DEF Exits, ValidationInv, KeptBooks, SignedVolume, LimitsOnly, PositionTyped
  <2>4. CASE currentPosition > 0
    <3>1. SendLimitOrder("SHORT", FALSE, price, currentPosition)
      BY <2>1, <2>2, <2>4 DEF SendExit
    <3>2. currentPosition \in Nat \ {0}
      BY <2>3, <2>4
    <3> QED BY <1>1, <1>2, <2>1, <3>1, <3>2, SentKeepsValidation
  <2>5. CASE ~(currentPosition > 0)
    <3>1. PICK volume \in Nat \ {0} : volume = - currentPosition
      BY <2>3, <2>5
    <3>2. SendLimitOrder("LONG", FALSE, price, volume)
      BY <2>1, <2>2, <2>5, <3>1 DEF SendExit
    <3> QED BY <1>1, <1>2, <2>1, <3>2, SentKeepsValidation
  <2> QED BY <2>4, <2>5
<1>4. CASE ~Exits
  <2>1. UNCHANGED <<btVars, activeOrders>>
    BY <1>4 DEF ValidationOnBar
  <2>2. LimitsOnly' /\ OpenIds' = OpenIds /\ position' = position
    BY <1>2, <2>1, LimitsStand DEF btVars, accountVars
  <2>3. KeptBooks'
    BY <1>1, <2>2 DEF ValidationInv, KeptBooks, SignedVolume
  <2> QED BY <1>1, <1>2, <2>1, <2>2, <2>3 DEF ValidationInv
<1> QED BY <1>3, <1>4

LEMMA CancelKeepsValidation ==
  ASSUME BrokerInv, ValidationInv, NEW id \in DOMAIN active, CancelOrderById(id)
  PROVE  ValidationInv'
<1>1. /\ active' = BookWithout(active, {id}) /\ UNCHANGED <<stops, position, bar, phase>>
      /\ UNCHANGED validationVars /\ tradingOn
  BY DEF CancelOrderById, Free, CancelOrder, accountVars, walkVars
<1>2. LimitsOnly' /\ OpenIds' = OpenIds \ {id}
  BY <1>1, RemovalLeaves DEF ValidationInv
<1>3. KeptBooks'
  BY <1>1 DEF ValidationInv, KeptBooks, SignedVolume, validationVars, bookkeepingVars
<1> QED BY <1>1, <1>2, <1>3 DEF ValidationInv, validationVars, bookkeepingVars

\* Whatever is open is in active_orders_, so that nothing stays open after on_stop.
LEMMA OnStopKeepsValidation == ASSUME BrokerInv, ValidationInv, OnStop PROVE ValidationInv'
<1>1. /\ active' = BookWithout(active, activeOrders) /\ UNCHANGED <<stops, position, bar, phase>>
      /\ UNCHANGED bookkeepingVars /\ phase = "bar" /\ ~barDue'
  BY DEF OnStop, Free, accountVars, walkVars
<1>2. LimitsOnly' /\ OpenIds' = OpenIds \ activeOrders /\ DOMAIN active' = DOMAIN active \ activeOrders
  BY <1>1, RemovalLeaves DEF ValidationInv
<1>3. DOMAIN active = OpenIds
  BY <1>1 DEF OpenIds, BrokerInv, EntriesFilledInWalk
<1>4. DOMAIN active \ activeOrders = {}
  BY <1>3 DEF ValidationInv
<1>5. active' = EmptyBook
  <2>1. active' = [id \in {} |-> active[id]]
    BY <1>1, <1>4 DEF BookWithout
  <2>2. [id \in {} |-> active[id]] = EmptyBook
    BY DEF EmptyBook
  <2> QED BY <2>1, <2>2
<1>6. KeptBooks'
  BY <1>1 DEF ValidationInv, KeptBooks, SignedVolume, bookkeepingVars
<1> QED BY <1>1, <1>2, <1>5, <1>6 DEF ValidationInv, bookkeepingVars

LEMMA ValidationStep == ASSUME BrokerInv, ValidationInv, ValidationNext PROVE ValidationInv'
<1>1. ASSUME NEW price \in OrderPrices, NEW volume \in Lots,
             SendBuy(price, volume) \/ SendSell(price, volume)
               \/ SendShort(price, volume) \/ SendCover(price, volume)
      PROVE  ValidationInv'
  <2>1. PICK side \in {"LONG", "SHORT"}, opens \in BOOLEAN : Sends(side, opens, price, volume)
    BY <1>1 DEF SendBuy, SendSell, SendShort, SendCover
  <2>2. price \in Int /\ volume \in Nat \ {0}
    BY BacktestAssumption
  <2> QED BY <2>1, <2>2, SentKeepsValidation DEF Sends, Free
<1>2. ASSUME NEW price \in ExitPrices, SetStopLoss(price) \/ SetTakeProfit(price)
      PROVE  ValidationInv'
  <2>1. UNCHANGED <<btVars, tradingOn, bookkeepingVars, barDue>>
    BY <1>2 DEF SetStopLoss, SetTakeProfit
  <2>2. LimitsOnly' /\ OpenIds' = OpenIds
    BY <2>1, LimitsStand DEF ValidationInv
  <2> QED BY <2>1, <2>2 DEF ValidationInv, KeptBooks, SignedVolume, bookkeepingVars, btVars, bookVars,
          accountVars, walkVars
<1> QED
  BY <1>1, <1>2, WalkedKeepsValidation, BarsKeepValidation, OnBarKeepsValidation,
     CancelKeepsValidation, OnStopKeepsValidation DEF ValidationNext

LEMMA ValidationStands ==
  ASSUME ValidationInv, UNCHANGED <<btVars, validationVars>>
  PROVE  ValidationInv'
<1>1. LimitsOnly' /\ OpenIds' = OpenIds
  BY LimitsStand DEF ValidationInv
<1> QED BY <1>1 DEF ValidationInv, KeptBooks, SignedVolume, validationVars, bookkeepingVars, btVars,
        bookVars, accountVars, walkVars

---------------------------------------------------------------------------
(* Each strategy has the broker to itself. *)
DeskInv ==
  /\ BrokerInv
  /\ desk = "target" => TargetInv
  /\ desk = "validation" => ValidationInv

LEMMA DeskStep == ASSUME DeskInv, [DeskNext]_deskVars PROVE DeskInv'
<1>1. BrokerInv /\ BrokerInv'
  BY DeskKeepsBroker DEF DeskInv
<1>2. desk' = desk
  BY DEF DeskNext, deskVars, GridTrades, BacktestTrades, TargetTrades, ValidationTrades, BuiltinTrades,
     OffsetTrades, AccountTrades, ContextTrades, Optimizes, Judges, NoBrokerage, NoLedger
<1>3. ASSUME desk = "target" PROVE TargetInv'
  <2>1. TargetTrades \/ UNCHANGED targetVars
    BY <1>3 DEF DeskNext, deskVars, brokerageVars, strategyVars, targetVars, GridTrades, BacktestTrades,
       ValidationTrades, BuiltinTrades, OffsetTrades, AccountTrades, ContextTrades, Optimizes, Judges
  <2> QED BY <1>1, <1>3, <2>1, TargetStep, TargetStands DEF DeskInv, TargetTrades
<1>4. ASSUME desk = "validation" PROVE ValidationInv'
  <2>1. ValidationTrades \/ UNCHANGED <<btVars, validationVars>>
    BY <1>4 DEF DeskNext, deskVars, brokerageVars, strategyVars, GridTrades, BacktestTrades,
       TargetTrades, BuiltinTrades, OffsetTrades, AccountTrades, ContextTrades, Optimizes, Judges
  <2> QED BY <1>1, <1>4, <2>1, ValidationStep, ValidationStands DEF DeskInv, ValidationTrades
<1> QED BY <1>1, <1>2, <1>3, <1>4 DEF DeskInv

\* The template and the validation strategy agree with the broker through fills,
\* exits sent again and cancels that are never reported, for any prices, volumes
\* and targets.
THEOREM StrategiesAgreeEver == DeskSpec => []StrategiesAgree
<1>1. DeskInit => DeskInv
  BY InitBroker, InitTarget, InitValidation DEF DeskInit, DeskInv, TargetInit
<1>2. DeskInv /\ [DeskNext]_deskVars => DeskInv'
  BY DeskStep
<1>3. DeskInv => StrategiesAgree
  BY TargetGives, ValidationGives DEF DeskInv, StrategiesAgree
<1> QED BY <1>1, <1>2, <1>3, PTL DEF DeskSpec
=============================================================================
