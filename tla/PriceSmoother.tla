---------------------------- MODULE PriceSmoother ----------------------------
(* PriceSmoother (data/price_smoother.cpp): an average of the prices that      *)
(* leaves outliers out.  Prices are integers, averages are rounded down; what  *)
(* process() returns is left out, but for what it shows of the state.          *)
EXTENDS RingBuffer

CONSTANTS
  RawPrices,    \* prices of the market; one of 0 is invalid
  Alpha,        \* ema_alpha in tenths
  Threshold,    \* outlier_threshold_pct
  MaxMoves      \* bound: moves of the market, and calls of reset()
ASSUME SmootherAssumption ==
  RawPrices \subseteq Nat /\ Alpha \in 1..10 /\ Threshold \in 1..99 /\ MaxMoves \in Nat

VARIABLES
  confirms,                   \* config_.require_confirmation
  priceBuffer,                \* price_buffer_
  currentEma, lastSmoothed,   \* current_ema_, last_smoothed_price_
  anomalyState, pendingPrice, \* anomaly_state_, pending_outlier_price_
  marketPrice, moves          \* the price of the next tick; its moves and the resets so far

smootherVars == <<confirms, priceBuffer, currentEma, lastSmoothed, anomalyState, pendingPrice, marketPrice, moves>>

SmootherInit ==
  /\ confirms \in BOOLEAN /\ priceBuffer = EmptyRing
  /\ currentEma = 0 /\ lastSmoothed = 0 /\ anomalyState = FALSE /\ pendingPrice = 0
  /\ marketPrice \in RawPrices /\ moves = 0

Distance(a, b) == IF a > b THEN a - b ELSE b - a
IsOutlier(price, reference) == reference > 0 /\ Distance(price, reference) * 100 > Threshold * reference
Averaged(price) == (Alpha * price + (10 - Alpha) * currentEma) \div 10

\* price_buffer_, current_ema_ and last_smoothed_price_ follow an accepted price.
Accept(price, ema) ==
  priceBuffer' = Push(priceBuffer, price) /\ currentEma' = ema /\ lastSmoothed' = ema

ColdStart(price) ==
  /\ priceBuffer.count < Capacity
  /\ Accept(price, IF priceBuffer.count = 0 THEN price ELSE Averaged(price))
  /\ UNCHANGED <<anomalyState, pendingPrice>>

Normal(price) ==
  /\ priceBuffer.count = Capacity /\ ~IsOutlier(price, lastSmoothed)
  /\ Accept(price, Averaged(price)) /\ anomalyState' = FALSE /\ pendingPrice' = 0

FirstOutlier(price) ==
  /\ priceBuffer.count = Capacity /\ IsOutlier(price, lastSmoothed) /\ confirms /\ ~anomalyState
  /\ anomalyState' = TRUE /\ pendingPrice' = price
  /\ UNCHANGED <<priceBuffer, currentEma, lastSmoothed>>

\* Mutant: the blend is not kept.
ConfirmedOutlierKeepsSmoothed(price) ==
  /\ priceBuffer.count = Capacity /\ IsOutlier(price, lastSmoothed) /\ confirms /\ anomalyState
  /\ priceBuffer' = Push(priceBuffer, price) /\ currentEma' = (7 * lastSmoothed + 3 * price) \div 10
  /\ UNCHANGED <<lastSmoothed, anomalyState, pendingPrice>>

\* Whatever the first outlier's price was, this one is blended in.
ConfirmedOutlier(price) ==
  /\ priceBuffer.count = Capacity /\ IsOutlier(price, lastSmoothed) /\ confirms /\ anomalyState
  /\ Accept(price, (7 * lastSmoothed + 3 * price) \div 10)
  /\ UNCHANGED <<anomalyState, pendingPrice>>

\* process().  An invalid price, and an outlier when none is confirmed, change nothing.
Process ==
  /\ marketPrice > 0
  /\ \/ ColdStart(marketPrice) \/ Normal(marketPrice)
     \/ FirstOutlier(marketPrice) \/ ConfirmedOutlier(marketPrice)
  /\ UNCHANGED <<confirms, marketPrice, moves>>

ResetSmoother ==
  /\ priceBuffer.count > 0 /\ moves < MaxMoves /\ moves' = moves + 1
  /\ priceBuffer' = Clear(priceBuffer)
  /\ currentEma' = 0 /\ lastSmoothed' = 0 /\ anomalyState' = FALSE /\ pendingPrice' = 0
  /\ UNCHANGED <<confirms, marketPrice>>

MarketMoves ==
  /\ moves < MaxMoves /\ moves' = moves + 1 /\ marketPrice' \in RawPrices \ {marketPrice}
  /\ UNCHANGED <<confirms, priceBuffer, currentEma, lastSmoothed, anomalyState, pendingPrice>>

SmootherNext == Process \/ ResetSmoother \/ MarketMoves

\* Ticks keep coming.
SmootherFairness == WF_smootherVars(Process)
-----------------------------------------------------------------------------
\* Once the market stays at a price, however it got there, the smoothed price comes
\* within the threshold of it and stays there ("to avoid staying stuck forever"),
\* if outliers are confirmed; without confirmation they are refused for ever.
SmootherCatchesUp ==
  confirms => <>[](marketPrice > 0 => lastSmoothed > 0 /\ ~IsOutlier(marketPrice, lastSmoothed))
=============================================================================
