--------------------------- MODULE TradingEngine ---------------------------
(* TradingEngine (engine/trading_engine.cpp) in LIVE mode on the spot gateway: *)
(* one application thread connects and sends orders through check_risk, and    *)
(* the gateway's callbacks keep the risk manager's counters and book.          *)
(*                                                                             *)
(* The book is keyed by vt_orderid(), gateway_name + "." + orderid.  The order *)
(* of a REST reply carries the gateway's name; the one built from an execution *)
(* report does not, so the two paths use different keys for one order.         *)
(*                                                                             *)
(* cancel_order(vt_orderid) hands its argument on as an exchange id, which the *)
(* REST client cannot parse: it never reaches the exchange and is no action.   *)
EXTENDS SpotGateway, RiskManager

CONSTANTS
  Long,     \* Long[r]: is request r a buy
  PriceOf   \* PriceOf[r]: the prices request r can be sent with

ASSUME RequestsAssumption ==
  /\ Long \in [Requests -> BOOLEAN]
  /\ PriceOf \in [Requests -> SUBSET (Nat \ {0})]

\* No earlier run left an order open: connect() has none to load.
ASSUME NothingLeftAssumption == Left = {}

VARIABLES
  price,       \* the price each request was sent with, 0 before
  registered   \* connect() has set the callbacks

tradingVars == <<vars, riskVars, price, registered>>

\* The caller is between two calls of the engine.
CallerFree == registered /\ \A s \in Ids : call[s] # "inflight"

VtOrderId(gateway, k) == <<gateway, k>>

\* Mutant: only what the REST reply reports is handed to the risk manager.
CallbacksReplyOnly(gateway, k, o) ==
  IF registered /\ Accepts(k, o) /\ gateway # ""
  THEN /\ RiskOnTrade(TradeVolume(k, o))
       /\ RiskOnOrder(VtOrderId(gateway, k), Long[k[2]], price[k[2]], o.status)
       /\ UNCHANGED <<flowCount, flowTimer>>
  ELSE UNCHANGED riskVars

\* on_trade and on_order, for what process_order_update reports of o.
Callbacks(gateway, k, o) ==
  IF registered /\ Accepts(k, o)
  THEN /\ RiskOnTrade(TradeVolume(k, o))
       /\ RiskOnOrder(VtOrderId(gateway, k), Long[k[2]], price[k[2]], o.status)
       /\ UNCHANGED <<flowCount, flowTimer>>
  ELSE UNCHANGED riskVars

---------------------------------------------------------------------------

\* connect(): exchange_->connect() ...
TradingConnect ==
  /\ QueryOpenOrders \/ StartUserStream
  /\ UNCHANGED <<riskVars, price, registered>>

\* ... and only afterwards the callbacks.
RegisterCallbacks ==
  /\ phase = "up" /\ ~registered
  /\ registered' = TRUE
  /\ UNCHANGED <<vars, riskVars, price>>

TradingSendOrder(r) ==
  /\ CallerFree /\ price[r] = 0
  /\ \E p \in PriceOf[r] :
       /\ price' = [price EXCEPT ![r] = p]
       /\ CheckRisk(Long[r], p, MaxVolume)
  /\ SendOrder(r)
  /\ UNCHANGED registered

\* Before connect() there is no exchange_: send_order returns "", and the order
\* counts.  When check_risk refuses nothing changes at all.
TradingSendUnconnected(r) ==
  /\ phase = "down"
  /\ \E p \in PriceOf[r] : CheckRisk(Long[r], p, MaxVolume)
  /\ UNCHANGED <<vars, price, registered>>

TradingSendReturns(r) ==
  /\ \/ /\ HandleReply(r)
        /\ Callbacks("BINANCE_SPOT", ExchangeId(r), [status |-> "NOTTRADED", traded |-> 0])
     \/ /\ HandleFailure(r)
        /\ Callbacks("BINANCE_SPOT", LocalId(r), [status |-> "REJECTED", traded |-> 0])
  /\ UNCHANGED <<price, registered>>

TradingReceive ==
  /\ ReceiveReport
  /\ Callbacks("", ExchangeId(Head(stream).id), Update(Head(stream)))
  /\ UNCHANGED <<price, registered>>

\* cancel_all_orders asks the exchange what is open and cancels each.
CancelAllOrders ==
  /\ CallerFree
  /\ \E r \in Ids : exch[r].status \in Open /\ ExchangeMoves(r, [exch[r] EXCEPT !.status = "CANCELED"])
  /\ UNCHANGED <<riskVars, price, registered>>

\* on_tick: the risk manager's timer runs on market data.
OnTick ==
  /\ registered
  /\ RiskOnTimer
  /\ UNCHANGED <<vars, price, registered>>

\* A limit order is good till cancelled: it does not expire.
Environment ==
  /\ \/ StreamDrop \/ StreamReconnect
     \/ \E r \in Ids : ExchangeAccept(r) \/ ExchangeRefuse(r) \/ ExchangeFill(r)
  /\ UNCHANGED <<riskVars, price, registered>>

---------------------------------------------------------------------------

TradingInit ==
  /\ Init /\ RiskInit
  /\ price = [r \in Ids |-> 0]
  /\ registered = FALSE

TradingNext ==
  \/ TradingConnect \/ RegisterCallbacks \/ CancelAllOrders \/ OnTick
  \/ \E r \in Requests : TradingSendOrder(r) \/ TradingSendUnconnected(r) \/ TradingSendReturns(r)
  \/ TradingReceive \/ Environment

TradingSpec == TradingInit /\ [][TradingNext]_tradingVars

---------------------------------------------------------------------------
(* Properties *)

AcknowledgedOpen == {r \in Requests : call[r] = "ok" /\ exch[r].status \in Open}
BooksOf(r) == {v \in Booked : v[2] = ExchangeId(r)}

\* Every order the exchange acknowledged and still holds open is in the active
\* order book, whatever the stream lost and whichever of REST reply and report
\* came first: check_risk never works on too small a book.
BookCoversOpen == \A r \in AcknowledgedOpen : BooksOf(r) # {}

\* prevent_self_trade: no order is sent that would trade with an acknowledged
\* order of ours that is still open.
CrossesOwn(r, p, s) ==
  /\ Long[r] # Long[s]
  /\ IF Long[r] THEN p >= price[s] ELSE p <= price[s]
NoSelfTrade ==
  [][\A r \in Requests : price'[r] # price[r] =>
       \A s \in AcknowledgedOpen : ~CrossesOwn(r, price'[r], s)]_tradingVars

\* The two limits the application cannot see past: never more acknowledged orders
\* open than active_order_limit ("Max active orders"), and never more orders let
\* through between two clears of the counter than order_flow_limit.
ActiveOrdersBounded ==
  /\ Cardinality(AcknowledgedOpen) <= ActiveOrderLimit
  /\ flowCount <= OrderFlowLimit /\ flowTimer <= OrderFlowClear

\* What the class comment of ActiveOrderBook says, "Tracks active orders": an order
\* the gateway has cached as finished is not in the book.
BookHoldsOnlyActive ==
  \A r \in Requests : BooksOf(r) # {} => IsActive(orders[ExchangeId(r)])
============================================================================
