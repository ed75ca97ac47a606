-------------------------- MODULE ValidationStrategy --------------------------
(* ValidationStrategy (strategy/validation_strategy.cpp) on the backtesting    *)
(* broker: a template whose subclasses send through send_buy() and the like,   *)
(* with a stop loss and a take profit that it checks at every bar.  It keeps   *)
(* its own books of position, price and orders from the broker's reports.      *)
(* Statistics, reports and the self tests are left out: nothing reads them.    *)
EXTENDS BacktestBroker

CONSTANTS
  MaxPosition,  \* config_.max_position
  ExitPrices    \* prices of a stop loss or a take profit
ASSUME ValidationAssumption == MaxPosition \in Nat /\ ExitPrices \subseteq Nat \ {0}

VARIABLES
  tradingOn,              \* trading_
  currentPosition,        \* current_position_
  entryPrice,             \* entry_price_
  activeOrders,           \* active_orders_, where an id may be twice
  stopLoss, takeProfit,   \* the two prices, 0 while they are not active
  barDue,                 \* on_bar has still to run
  wasShort                \* history: the position was negative once

bookkeepingVars == <<currentPosition, entryPrice, activeOrders, wasShort>>
exitVars == <<stopLoss, takeProfit>>
validationVars == <<tradingOn, bookkeepingVars, exitVars, barDue>>

\* on_init and on_start come first; the sizes of the orders leave max_position room.
ValidationInit ==
  /\ tradingOn = TRUE /\ currentPosition = 0 /\ entryPrice = 0 /\ activeOrders = {}
  /\ stopLoss = 0 /\ takeProfit = 0 /\ barDue = FALSE /\ wasShort = FALSE

-----------------------------------------------------------------------------
(* The reports of the broker.                                                  *)

\* on_order: a pending order is noted, one that is filled forgotten.
OnOrderReport(id, status) ==
  activeOrders' = IF status = "ALLTRADED" THEN activeOrders \ {id} ELSE activeOrders \cup {id}

\* What 0.0 / 0.0 or x / 0.0 leaves in entry_price_: no number, until a sell to
\* exactly zero.
NotANumber == -1
Quotient(a, b) == IF b < 0 THEN (- a) \div (- b) ELSE a \div b
EntryAfterBuy(price, volume) ==
  IF entryPrice = 0 THEN price
  ELSE IF entryPrice = NotANumber \/ currentPosition + volume = 0 THEN NotANumber
  ELSE Quotient(entryPrice * currentPosition + price * volume, currentPosition + volume)

OnTradeReport(side, price, volume) ==
  /\ currentPosition' = currentPosition + (IF side = "LONG" THEN volume ELSE - volume)
  /\ entryPrice' = IF side = "LONG" THEN EntryAfterBuy(price, volume)
                   ELSE IF currentPosition' = 0 THEN 0 ELSE entryPrice
  /\ wasShort' = (wasShort \/ currentPosition' < 0)

\* The broker takes the next order of its walk and reports what happened to it.
OrderWalked(id) ==
  /\ CrossLimitOrder(id)
  /\ IF current' = 0 THEN UNCHANGED bookkeepingVars
     ELSE /\ OnOrderReport(id, active'[id].status)
          /\ IF filled' = filled THEN UNCHANGED <<currentPosition, entryPrice, wasShort>>
             ELSE OnTradeReport(active[id].side, LimitFillPrice(active[id]), active[id].volume)
  /\ UNCHANGED <<tradingOn, exitVars, barDue>>

\* The strategy sends no stop orders: the second walk has nothing to do.
WalksDone ==
  /\ LimitOrdersDone \/ StopOrdersDone
  /\ barDue' = (phase' = "bar") /\ UNCHANGED <<tradingOn, bookkeepingVars, exitVars>>

BarArrives ==
  tradingOn /\ ~barDue /\ NextBar /\ UNCHANGED validationVars

-----------------------------------------------------------------------------
(* on_bar.                                                                     *)
CheckStopLoss ==
  stopLoss # 0 /\ (IF currentPosition > 0 THEN bar.close <= stopLoss ELSE bar.close >= stopLoss)
CheckTakeProfit ==
  takeProfit # 0 /\ (IF currentPosition > 0 THEN bar.close >= takeProfit ELSE bar.close <= takeProfit)
Exits == currentPosition # 0 /\ (CheckStopLoss \/ CheckTakeProfit)

\* send_sell() and send_cover() with the whole position, at every bar anew.
SendExit ==
  IF currentPosition > 0 THEN SendLimitOrder("SHORT", FALSE, bar.close, currentPosition)
                         ELSE SendLimitOrder("LONG", FALSE, bar.close, - currentPosition)

ValidationOnBar ==
  /\ barDue /\ barDue' = FALSE
  /\ IF Exits THEN SendExit /\ activeOrders' = activeOrders \cup {limitCount'}
              ELSE UNCHANGED <<btVars, activeOrders>>
  /\ UNCHANGED <<tradingOn, currentPosition, entryPrice, wasShort, exitVars>>

-----------------------------------------------------------------------------
(* What a subclass calls.                                                      *)
Free == tradingOn /\ ~barDue
WithinLimit(volume) ==
  (IF currentPosition < 0 THEN - currentPosition ELSE currentPosition) + volume <= MaxPosition

Sends(side, opens, price, volume) ==
  /\ Free /\ SendLimitOrder(side, opens, price, volume)
  /\ activeOrders' = activeOrders \cup {limitCount'}
  /\ UNCHANGED <<tradingOn, currentPosition, entryPrice, wasShort, exitVars, barDue>>

\* The limit counts the position and not what is already sent.
SendBuy(price, volume) == WithinLimit(volume) /\ Sends("LONG", TRUE, price, volume)
SendSell(price, volume) == Sends("SHORT", FALSE, price, volume)
SendShort(price, volume) == WithinLimit(volume) /\ Sends("SHORT", TRUE, price, volume)
SendCover(price, volume) == Sends("LONG", FALSE, price, volume)

\* A cancel is not reported: the id stays in active_orders_.
CancelOrderById(id) == Free /\ CancelOrder("limit", id) /\ UNCHANGED validationVars

SetStopLoss(price) ==
  /\ Free /\ phase = "bar" /\ stopLoss # price /\ stopLoss' = price
  /\ UNCHANGED <<btVars, tradingOn, bookkeepingVars, takeProfit, barDue>>
SetTakeProfit(price) ==
  /\ Free /\ phase = "bar" /\ takeProfit # price /\ takeProfit' = price
  /\ UNCHANGED <<btVars, tradingOn, bookkeepingVars, stopLoss, barDue>>

\* Mutant: the orders stay open.
OnStopLeavesOrders ==
  /\ Free /\ phase = "bar" /\ tradingOn' = FALSE
  /\ UNCHANGED <<btVars, bookkeepingVars, exitVars, barDue>>

\* on_stop, after the last bar: cancel_all_active_orders() goes by active_orders_.
OnStop ==
  /\ Free /\ phase = "bar" /\ tradingOn' = FALSE
  /\ active' = BookWithout(active, activeOrders)
  /\ asked' = asked \cup ({"limit"} \X (DOMAIN active \cap activeOrders))
  /\ UNCHANGED <<stops, limitCount, stopCount, accountVars, walkVars, sent, filled>>
  /\ UNCHANGED <<bookkeepingVars, exitVars, barDue>>

ValidationNext ==
  \/ \E id \in DOMAIN active : OrderWalked(id) \/ CancelOrderById(id)
  \/ WalksDone \/ BarArrives \/ ValidationOnBar \/ OnStop
  \/ \E price \in OrderPrices, volume \in Lots :
       SendBuy(price, volume) \/ SendSell(price, volume) \/ SendShort(price, volume) \/ SendCover(price, volume)
  \/ \E price \in ExitPrices : SetStopLoss(price) \/ SetTakeProfit(price)
-----------------------------------------------------------------------------
\* The strategy's books are the broker's, through fills in the walks, flips, exits
\* that are sent again and cancels nobody reports: its signed position is the
\* broker's, active_orders_ misses no open order, so that on_stop leaves none, and
\* the entry price is the broker's average until the position was short once.
BooksMatchBroker ==
  /\ currentPosition = SignedVolume
  /\ {id \in DOMAIN active : active[id].status # "ALLTRADED"} \subseteq activeOrders
  /\ tradingOn \/ active = EmptyBook
  /\ ~wasShort => entryPrice = position.avg
=============================================================================
