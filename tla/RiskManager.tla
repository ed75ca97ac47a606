---------------------------- MODULE RiskManager ----------------------------
(* RiskManager (engine/risk_manager.cpp) for one symbol: the checks before an  *)
(* order is sent and the counters they read.  It has no lock of its own; each  *)
(* operation is one step here.                                                 *)
EXTENDS OrderTypes, FiniteSets, FiniteSetsExt

CONSTANTS
  OrderFlowLimit,     \* RiskConfig, in the order check_risk reads it
  OrderFlowClear,
  OrderSizeLimit,
  TradeLimit,
  ActiveOrderLimit,
  OrderCancelLimit,
  PreventSelfTrade

ASSUME LimitsAssumption ==
  {OrderFlowLimit, OrderFlowClear, OrderSizeLimit, TradeLimit, ActiveOrderLimit,
   OrderCancelLimit} \subseteq Nat
ASSUME PreventAssumption == PreventSelfTrade \in BOOLEAN

VARIABLES
  flowCount,    \* order_flow_count_
  flowTimer,    \* order_flow_timer_
  tradeCount,   \* trade_count_
  cancelCount,  \* order_cancel_counts_[symbol]
  bids,         \* bid_prices_ of the symbol's book: a function of the vt_orderids in it
  asks          \* ask_prices_

bookVars == <<bids, asks>>
riskVars == <<flowCount, flowTimer, tradeCount, cancelCount, bids, asks>>

EmptyBook == [v \in {} |-> 0]

RiskInit ==
  /\ flowCount = 0 /\ flowTimer = 0 /\ tradeCount = 0 /\ cancelCount = 0
  /\ bids = EmptyBook /\ asks = EmptyBook

---------------------------------------------------------------------------
(* ActiveOrderBook *)

Without(book, v) == [u \in DOMAIN book \ {v} |-> book[u]]
With(book, v, price) == [u \in DOMAIN book \cup {v} |-> IF u = v THEN price ELSE book[u]]
Prices(book) == {book[v] : v \in DOMAIN book}
Booked == DOMAIN bids \cup DOMAIN asks

BestBid == IF bids = EmptyBook THEN 0 ELSE Max(Prices(bids))
BestAsk == IF asks = EmptyBook THEN 0 ELSE Min(Prices(asks))

\* update_order: an active order is on its side only, a finished one on neither.
UpdateOrder(v, long, price, isActive) ==
  /\ bids' = IF isActive /\ long THEN With(bids, v, price) ELSE Without(bids, v)
  /\ asks' = IF isActive /\ ~long THEN With(asks, v, price) ELSE Without(asks, v)

---------------------------------------------------------------------------
(* check_risk *)

\* Mutant: a price that meets the other side exactly is let through.
CrossesStrict(long, price) ==
  \/ long /\ BestAsk > 0 /\ price > BestAsk
  \/ ~long /\ BestBid > 0 /\ price < BestBid

\* The order would trade with one of our own.
Crosses(long, price) ==
  \/ long /\ BestAsk > 0 /\ price >= BestAsk
  \/ ~long /\ BestBid > 0 /\ price <= BestBid

\* Mutants: one more order than the flow limit, or the active limit, allows.
RiskPassesOneMoreFlow(long, price, volume) ==
  /\ volume > 0 /\ volume <= OrderSizeLimit
  /\ tradeCount < TradeLimit
  /\ flowCount <= OrderFlowLimit
  /\ Cardinality(DOMAIN bids) + Cardinality(DOMAIN asks) < ActiveOrderLimit
  /\ cancelCount < OrderCancelLimit
  /\ PreventSelfTrade => ~Crosses(long, price)
RiskPassesOneMoreActive(long, price, volume) ==
  /\ volume > 0 /\ volume <= OrderSizeLimit
  /\ tradeCount < TradeLimit
  /\ flowCount < OrderFlowLimit
  /\ Cardinality(DOMAIN bids) + Cardinality(DOMAIN asks) <= ActiveOrderLimit
  /\ cancelCount < OrderCancelLimit
  /\ PreventSelfTrade => ~Crosses(long, price)

RiskPasses(long, price, volume) ==
  /\ volume > 0 /\ volume <= OrderSizeLimit
  /\ tradeCount < TradeLimit
  /\ flowCount < OrderFlowLimit
  /\ Cardinality(DOMAIN bids) + Cardinality(DOMAIN asks) < ActiveOrderLimit
  /\ cancelCount < OrderCancelLimit
  /\ PreventSelfTrade => ~Crosses(long, price)

CheckRisk(long, price, volume) ==
  /\ RiskPasses(long, price, volume)
  /\ flowCount' = flowCount + 1
  /\ UNCHANGED <<flowTimer, tradeCount, cancelCount, bookVars>>

---------------------------------------------------------------------------
(* The callbacks *)

\* on_timer
RiskOnTimer ==
  /\ IF flowTimer + 1 >= OrderFlowClear
     THEN flowCount' = 0 /\ flowTimer' = 0
     ELSE flowTimer' = flowTimer + 1 /\ UNCHANGED flowCount
  /\ UNCHANGED <<tradeCount, cancelCount, bookVars>>

\* on_order: every update with CANCELLED counts.
RiskOnOrder(v, long, price, status) ==
  /\ UpdateOrder(v, long, price, status \in ActiveStatus)
  /\ cancelCount' = IF status = "CANCELLED" THEN cancelCount + 1 ELSE cancelCount

\* on_trade
RiskOnTrade(volume) == tradeCount' = tradeCount + volume
===========================================================================
