----------------------------- MODULE GridMartin -----------------------------
(* GridMartinStrategy (strategy/grid_martin_strategy.cpp): a grid of price     *)
(* levels around a base price, a buy per level the price falls through, the    *)
(* oldest position sold per level it rises through, everything sold below the  *)
(* bottom level or when the market starts to trend.                            *)
(*                                                                             *)
(* Prices are integers and neighbouring levels one apart; a position is one    *)
(* unit.  Each operator says what the strategy does to its own state and which *)
(* orders it places.                                                           *)
EXTENDS MarketStateAnalyzer, PaperBroker

CONSTANTS GridCount, BasePrice, Prices
ASSUME GridAssumption ==
  GridCount \in Nat \ {0} /\ Prices \subseteq Nat /\ BasePrice \in Prices

VARIABLES
  base,           \* base_price_
  gridPositions,  \* grid_positions_
  buyQueue,       \* buy_queue_
  total,          \* total_position_
  lastGrid,       \* last_grid_index_
  market,         \* current_market_state_
  inited, trading,
  abandoned       \* history: volume reset without being sold

gridVars == <<base, gridPositions, buyQueue, total, lastGrid, market, inited, trading, abandoned>>

Grids == 0 .. GridCount - 1
EmptyGrid == [g \in Grids |-> 0]

GridInit ==
  /\ base = BasePrice /\ gridPositions = EmptyGrid /\ buyQueue = <<>> /\ total = 0
  /\ lastGrid = -1 /\ market = "WAITING" /\ inited = FALSE /\ trading = FALSE
  /\ abandoned = 0

\* calculate_grid_levels
Level(b, g) == b + g - GridCount \div 2

\* get_grid_index
GridIndex(b, price) ==
  IF price < Level(b, 0) THEN 0
  ELSE IF price >= Level(b, GridCount - 1) THEN GridCount - 1
  ELSE price - Level(b, 0)

\* The strategy holds nothing any more.
Cleared == gridPositions' = EmptyGrid /\ buyQueue' = <<>> /\ total' = 0

---------------------------------------------------------------------------
(* execute_grid_trade *)

Buys(from, to) == {g \in to .. from - 1 : gridPositions[g] = 0}
\* The grids of a set, the highest first.
FromTheTop(grids) ==
  CHOOSE order \in SetToSeqs(grids) : \A i, j \in DOMAIN order : i < j => order[i] > order[j]

\* Mutant: a level that is held already is bought again.
GridDownAgain(from, to, price) ==
  LET bought == FromTheTop(to .. from - 1) IN
    /\ gridPositions' = [g \in Grids |-> gridPositions[g] + (IF g \in to .. from - 1 THEN 1 ELSE 0)]
    /\ buyQueue' = buyQueue \o bought
    /\ total' = total + Len(bought)
    /\ Place([i \in DOMAIN bought |-> Buy(price, 1)])

\* The price fell: one buy per level it crossed that is not held, from the top.
GridDown(from, to, price) ==
  LET bought == FromTheTop(Buys(from, to)) IN
    /\ gridPositions' = [g \in Grids |-> IF g \in Buys(from, to) THEN 1 ELSE gridPositions[g]]
    /\ buyQueue' = buyQueue \o bought
    /\ total' = total + Len(bought)
    /\ Place([i \in DOMAIN bought |-> Buy(price, 1)])

\* The grids at the head of the queue that are still held, a unit each.
Sells(n) == {g \in Range(SubSeq(buyQueue, 1, n)) : gridPositions[g] > 0}

\* Mutant: the positions sold stay in the queue.
GridUpKeepsQueue(from, to, price) ==
  LET sold == Sells(Min({to - from, Len(buyQueue)})) IN
    /\ gridPositions' = [g \in Grids |-> IF g \in sold THEN 0 ELSE gridPositions[g]]
    /\ total' = total - Cardinality(sold)
    /\ Place([i \in 1 .. Cardinality(sold) |-> Sell(price, 1)])
    /\ UNCHANGED buyQueue

\* The price rose: one position per level it crossed is sold, the oldest first.
GridUp(from, to, price) ==
  LET n == Min({to - from, Len(buyQueue)})
      sold == Sells(n) IN
    /\ buyQueue' = SubSeq(buyQueue, n + 1, Len(buyQueue))
    /\ gridPositions' = [g \in Grids |-> IF g \in sold THEN 0 ELSE gridPositions[g]]
    /\ total' = total - Cardinality(sold)
    /\ Place([i \in 1 .. Cardinality(sold) |-> Sell(price, 1)])

---------------------------------------------------------------------------
(* on_bar *)

\* check_stop_loss
StopLoss(price) ==
  /\ Place(<<Sell(price, total)>>)
  /\ Cleared
  /\ trading' = FALSE
  /\ UNCHANGED <<base, lastGrid, market, inited, abandoned>>

\* Mutant: the sale is sent and nothing is reset.
TransitionToTrendingHolds(price) ==
  /\ Place(IF total > 0 THEN <<Sell(price, total)>> ELSE <<>>)
  /\ market' = "TRENDING" /\ trading' = FALSE
  /\ lastGrid' = GridIndex(base, price)
  /\ UNCHANGED <<base, gridPositions, buyQueue, total, inited, abandoned>>

\* transition_to_trending
TransitionToTrending(price) ==
  /\ IF total > 0 THEN Place(<<Sell(price, total)>>) /\ Cleared
     ELSE UNCHANGED <<brokerVars, gridPositions, buyQueue, total>>
  /\ market' = "TRENDING" /\ trading' = FALSE
  /\ lastGrid' = GridIndex(base, price)
  /\ UNCHANGED <<base, inited, abandoned>>

\* transition_to_consolidation: a new grid around the price; what is held is
\* forgotten, not sold.  on_bar sets last_grid_index_ after it.
TransitionToConsolidation(price) ==
  /\ base' = price
  /\ Cleared
  /\ abandoned' = abandoned + total
  /\ market' = "CONSOLIDATION" /\ trading' = TRUE
  /\ lastGrid' = GridIndex(price, price)
  /\ UNCHANGED <<brokerVars, inited>>

GridTrade(price) ==
  LET current == GridIndex(base, price) IN
    /\ IF lastGrid >= 0 /\ current > lastGrid THEN GridUp(lastGrid, current, price)
       ELSE IF lastGrid >= 0 /\ current < lastGrid THEN GridDown(lastGrid, current, price)
       ELSE UNCHANGED <<brokerVars, gridPositions, buyQueue, total>>
    /\ lastGrid' = current
    /\ UNCHANGED <<base, market, inited, trading, abandoned>>

\* The part of on_bar after the analyzer's update; price is the smoothed price.
OnState(price) ==
  IF state' # market
  THEN CASE state' = "TRENDING"      -> TransitionToTrending(price)
         [] state' = "CONSOLIDATION" -> TransitionToConsolidation(price)
         [] OTHER -> /\ lastGrid' = GridIndex(base, price)
                     /\ UNCHANGED <<brokerVars, base, gridPositions, buyQueue, total, market,
                                    inited, trading, abandoned>>
  ELSE IF market = "TRENDING" THEN UNCHANGED <<brokerVars, gridVars>>
  ELSE IF price < Level(base, 0) /\ total > 0 THEN StopLoss(price)
  ELSE GridTrade(price)

\* on_bar: nothing at all happens while trading_ is false, the analyzer's update
\* included.
OnBar(price, verdict) ==
  IF ~inited \/ ~trading THEN UNCHANGED <<brokerVars, gridVars, analyzerVars>>
  ELSE AnalyzerUpdate(verdict) /\ OnState(price)

\* on_init: the vectors keep what they hold, the analyzer is a new one.
OnInit ==
  /\ inited' = TRUE
  /\ AnalyzerReset
  /\ UNCHANGED <<brokerVars, base, gridPositions, buyQueue, total, lastGrid, market, trading, abandoned>>

OnStart ==
  /\ trading' = TRUE
  /\ UNCHANGED <<brokerVars, analyzerVars, base, gridPositions, buyQueue, total, lastGrid, market,
                 inited, abandoned>>
============================================================================
