-------------------------- MODULE PerformanceStats --------------------------
(* PerformanceCalculator (statistics/performance.cpp): what calculate() makes of *)
(* the trades and the equity curve of a backtest.  Trades are paired into round  *)
(* trips by average cost.  Ratios of returns (Sharpe, Sortino, annualized) are   *)
(* left out.  Prices are multiples that the averages divide.                     *)
EXTENDS Integers, SequencesExt

CONSTANTS
  LogPrices,      \* prices of the trades
  LogVolumes,     \* and volumes
  LogCommission,  \* commission of a trade
  EquityValues,   \* values of the equity curve
  MaxLogTrades,   \* bound: trades
  MaxRecorded     \* bound: trades and values together
ASSUME PerformanceAssumption ==
  /\ LogPrices \subseteq Nat \ {0} /\ LogVolumes \subseteq Nat \ {0} /\ LogCommission \in Nat
  /\ EquityValues \subseteq Nat \ {0} /\ MaxLogTrades \in Nat /\ MaxRecorded \in Nat

VARIABLES
  tradeLog,     \* trades_ of the broker
  equityCurve   \* equity_curve_, a value per bar

performanceVars == <<tradeLog, equityCurve>>

PerformanceInit == tradeLog = << >> /\ equityCurve = << >>

\* What a backtest hands over: any trades of the broker, and a value at every bar.
MoreRecords == Len(tradeLog) + Len(equityCurve) < MaxRecorded
LogTrade(side, price, volume) ==
  /\ MoreRecords /\ Len(tradeLog) < MaxLogTrades
  /\ tradeLog' = Append(tradeLog, [side |-> side, price |-> price, volume |-> volume])
  /\ UNCHANGED equityCurve
LogEquity(value) ==
  MoreRecords /\ equityCurve' = Append(equityCurve, value) /\ UNCHANGED tradeLog

PerformanceNext ==
  \/ \E side \in {"LONG", "SHORT"}, price \in LogPrices, volume \in LogVolumes : LogTrade(side, price, volume)
  \/ \E value \in EquityValues : LogEquity(value)

-----------------------------------------------------------------------------
(* calculate().                                                                *)

\* Mutant: the average of a position that is gone stays.
WithSellKeepsCost(p, t) ==
  LET closes == IF t.volume < p.position THEN t.volume ELSE p.position
      pnls == IF closes > 0 /\ p.avg > 0
              THEN Append(p.pnls, (t.price - p.avg) * closes - LogCommission) ELSE p.pnls IN
  [p EXCEPT !.position = @ - closes, !.pnls = pnls]

\* One trade of the pairing.  A buy adds to the total cost, a sell takes nothing
\* from it until the position is gone; what a sell has beyond the position is
\* dropped.
WithBuy(p, t) ==
  LET cost == p.cost + t.price * t.volume + LogCommission IN
  [p EXCEPT !.position = @ + t.volume, !.cost = cost, !.avg = cost \div (p.position + t.volume)]
WithSell(p, t) ==
  LET closes == IF t.volume < p.position THEN t.volume ELSE p.position
      pnls == IF closes > 0 /\ p.avg > 0
              THEN Append(p.pnls, (t.price - p.avg) * closes - LogCommission) ELSE p.pnls IN
  IF closes = p.position THEN [position |-> 0, avg |-> 0, cost |-> 0, pnls |-> pnls]
  ELSE [p EXCEPT !.position = @ - closes, !.pnls = pnls]

Unpaired == [position |-> 0, avg |-> 0, cost |-> 0, pnls |-> << >>]
PairWith(p, t) == IF t.side = "LONG" THEN WithBuy(p, t) ELSE WithSell(p, t)
Paired(log) == FoldLeft(PairWith, Unpaired, log)
RoundTripPnls == Paired(tradeLog).pnls

\* The statistics of the round trips: a pnl of zero is a loss.
NoStats == [profit |-> 0, loss |-> 0, wins |-> 0, losses |-> 0,
            inRow |-> 0, lostInRow |-> 0, mostWins |-> 0, mostLosses |-> 0]
Most(a, b) == IF a < b THEN b ELSE a
CountPnl(s, pnl) ==
  IF pnl > 0
  THEN [s EXCEPT !.profit = @ + pnl, !.wins = @ + 1, !.inRow = @ + 1,
                 !.mostWins = Most(@, s.inRow + 1), !.lostInRow = 0]
  ELSE [s EXCEPT !.loss = @ - pnl, !.losses = @ + 1, !.lostInRow = @ + 1,
                 !.mostLosses = Most(@, s.lostInRow + 1), !.inRow = 0]
\* Without an equity curve calculate() returns at once.
Stats == IF equityCurve = << >> THEN NoStats ELSE FoldLeft(CountPnl, NoStats, RoundTripPnls)

\* One share against another.
Exceeds(a, b) == a[1] * b[2] > b[1] * a[2]

\* Mutant: the fall is taken from the value before.
FallFromLast(d, value) ==
  [peak |-> value,
   worst |-> IF Exceeds(<<d.peak - value, d.peak>>, d.worst) THEN <<d.peak - value, d.peak>> ELSE d.worst]

\* calculate_max_drawdown: the running peak, and the greatest fall below it as a
\* share of it, a pair of numerator and denominator.
FallFrom(d, value) ==
  LET peak == Most(d.peak, value) IN
  [peak |-> peak, worst |-> IF Exceeds(<<peak - value, peak>>, d.worst) THEN <<peak - value, peak>> ELSE d.worst]

MaxDrawdown(curve) ==
  IF curve = << >> THEN <<0, 1>>
  ELSE FoldLeft(FallFrom, [peak |-> Head(curve), worst |-> <<0, 1>>], curve).worst

-----------------------------------------------------------------------------
SideSign(t) == IF t.side = "LONG" THEN 1 ELSE -1
PositionAfter(n) == FoldLeft(LAMBDA sum, t : sum + SideSign(t) * t.volume, 0, SubSeq(tradeLog, 1, n))
CashFlow == FoldLeft(LAMBDA sum, t : sum - SideSign(t) * t.price * t.volume - LogCommission, 0, tradeLog)

\* Long only, and no buy between a partial close and the end of the position: a
\* buy there takes the whole total cost into the average, also of what was sold.
Simple ==
  /\ \A n \in DOMAIN tradeLog : PositionAfter(n) >= 0
  /\ \A i, j \in DOMAIN tradeLog :
       i < j /\ tradeLog[i].side = "SHORT" /\ tradeLog[j].side = "LONG" =>
         \E n \in i..(j - 1) : PositionAfter(n) = 0

\* The longest run of wins (or of losses) by its definition.
LongestRun(wins) ==
  LET pnls == RoundTripPnls
      runs == {r \in (1..Len(pnls)) \X (1..Len(pnls)) :
                 r[1] <= r[2] /\ \A i \in r[1]..r[2] : (pnls[i] > 0) = wins} IN
  CHOOSE n \in 0..Len(pnls) :
    (\A r \in runs : r[2] - r[1] + 1 <= n) /\ (n = 0 \/ \E r \in runs : r[2] - r[1] + 1 = n)

\* The statistics say what the trades and the curve are.  A flat account of simple
\* long trades earned in round trips exactly what its cash gained, commissions and
\* all; the counts of wins and losses are those of its sells, their longest runs the
\* longest there are; and the drawdown is the worst fall between any two points of
\* the curve.
StatisticsAgree ==
  equityCurve # << >> =>
    /\ Simple /\ PositionAfter(Len(tradeLog)) = 0 => Stats.profit - Stats.loss = CashFlow
    /\ Simple => Stats.wins + Stats.losses = Len(SelectSeq(tradeLog, LAMBDA t : t.side = "SHORT"))
    /\ Stats.mostWins = LongestRun(TRUE) /\ Stats.mostLosses = LongestRun(FALSE)
    /\ \A i, j \in DOMAIN equityCurve : i <= j =>
         ~Exceeds(<<equityCurve[i] - equityCurve[j], equityCurve[i]>>, MaxDrawdown(equityCurve))
    /\ MaxDrawdown(equityCurve) = <<0, 1>> \/
         \E i, j \in DOMAIN equityCurve :
           i < j /\ MaxDrawdown(equityCurve) = <<equityCurve[i] - equityCurve[j], equityCurve[i]>>
=============================================================================
