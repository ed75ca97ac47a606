----------------------------- MODULE PaperAccount -----------------------------
(* PaperBroker (engine/paper_broker.cpp) whole: its orders, its fills and the   *)
(* account they move.  orders_mutex_ makes each operation atomic; a walk of     *)
(* open_orders_ takes them in any order.  Orders are numbered by themselves:    *)
(* that trades take numbers of the same counter is left out.  Rates are one     *)
(* part in CostPart, and prices are integers that rates and averages divide.    *)
EXTENDS Integers, FiniteSets, Sequences, SequencesExt

CONSTANTS
  PaperSymbols,    \* symbols of the quotes and of the requests
  DefaultSymbol,   \* the symbol buy() and sell() put into every order: BTCUSDT
  QuotePrices,     \* prices of the bars and the orders of each symbol
  QuoteTicks,      \* ticks: last, bid and ask price, 0 when there is none
  PaperVolumes,    \* volumes of orders
  CostPart,        \* 1 / commission_rate and 1 / slippage_rate
  MaxPaperOrders   \* bound: orders sent
ASSUME PaperAssumption ==
  /\ DefaultSymbol \in PaperSymbols /\ QuotePrices \in [PaperSymbols -> SUBSET (Nat \ {0})]
  /\ QuoteTicks \subseteq [last : Nat \ {0}, bid : Nat, ask : Nat]
  /\ PaperVolumes \subseteq Nat \ {0} /\ CostPart \in Nat \ {0} /\ MaxPaperOrders \in Nat

VARIABLES
  paperBook,     \* cash_, total_commission_, positions_ and avg_cost_
  allOrders,     \* all_orders_: the status of each order sent
  pendingOrders, \* open_orders_: id -> order
  lastPrices,    \* last_prices_: 0 when there is none
  gains, unheldSales, \* history: what sales earned over cost; paid for volume not held
  fills, cancelAsked  \* history: fills of each order; ids a cancel was asked for

paperOrderVars == <<allOrders, pendingOrders, cancelAsked>>
paperAccountVars == <<paperOrderVars, paperBook, lastPrices, gains, unheldSales, fills>>

PaperAccountInit ==
  /\ paperBook = [cash |-> 0, commission |-> 0,
                   position |-> [s \in PaperSymbols |-> 0], avgCost |-> [s \in PaperSymbols |-> 0]]
  /\ allOrders = <<>> /\ pendingOrders = [id \in {} |-> 0]
  /\ lastPrices = [s \in PaperSymbols |-> 0]
  /\ gains = 0 /\ unheldSales = 0 /\ fills = <<>> /\ cancelAsked = {}

-----------------------------------------------------------------------------
(* Orders.                                                                     *)
SendPaperOrder(o) ==
  /\ Len(allOrders) < MaxPaperOrders
  /\ allOrders' = Append(allOrders, "NOTTRADED") /\ fills' = Append(fills, 0)
  /\ pendingOrders' = [id \in DOMAIN pendingOrders \cup {Len(allOrders')} |->
                        IF id = Len(allOrders') THEN o ELSE pendingOrders[id]]
  /\ UNCHANGED <<paperBook, lastPrices, gains, unheldSales, cancelAsked>>

PaperOrder(symbol, type, long, price, volume) ==
  [symbol |-> symbol, type |-> type, long |-> long, price |-> price, volume |-> volume]

\* buy, cover and a buy stop, which is a limit order at once; sell, short_order and
\* a sell stop.  Whatever symbol the strategy trades, the order is for DefaultSymbol.
PaperBuy(price, volume) == SendPaperOrder(PaperOrder(DefaultSymbol, "LIMIT", TRUE, price, volume))
PaperSell(price, volume) == SendPaperOrder(PaperOrder(DefaultSymbol, "LIMIT", FALSE, price, volume))
PaperMarket(long, volume) == SendPaperOrder(PaperOrder(DefaultSymbol, "TAKER", long, 0, volume))

OpenWithout(ids) == [id \in DOMAIN pendingOrders \ ids |-> pendingOrders[id]]
Become(ids, status) == [id \in DOMAIN allOrders |-> IF id \in ids THEN status ELSE allOrders[id]]

\* cancel_order, by id or by number, and cancel_all_orders.
Cancelled(ids) ==
  /\ pendingOrders' = OpenWithout(ids) /\ allOrders' = Become(ids, "CANCELLED")
  /\ cancelAsked' = cancelAsked \cup ids
  /\ UNCHANGED <<paperBook, lastPrices, gains, unheldSales, fills>>
PaperCancel(id) == id \in DOMAIN pendingOrders /\ Cancelled({id})
PaperCancelAll == DOMAIN pendingOrders # {} /\ Cancelled(DOMAIN pendingOrders)

-----------------------------------------------------------------------------
(* Fills.                                                                      *)
Above(price) == price + price \div CostPart
Below(price) == price - price \div CostPart
LeastOf(a, b) == IF a < b THEN a ELSE b
MostOf(a, b) == IF a < b THEN b ELSE a

Fillable(o, bid, ask) == o.type = "TAKER" \/ (IF o.long THEN ask <= o.price ELSE bid >= o.price)
PaperFillPrice(o, bid, ask) ==
  CASE o.type = "TAKER" -> IF o.long THEN Above(ask) ELSE Below(bid)
    [] o.long           -> LeastOf(o.price, Above(ask))
    [] OTHER            -> MostOf(o.price, Below(bid))

Charged(a, value) ==
  [a EXCEPT !.cash = @ + value - (IF value < 0 THEN -value ELSE value) \div CostPart,
            !.commission = @ + (IF value < 0 THEN -value ELSE value) \div CostPart]

\* Mutant: the cost of the last buy is the cost of all.
BoughtLastCost(a, s, price, volume) ==
  [Charged(a, - price * volume) EXCEPT !.avgCost[s] = price, !.position[s] = @ + volume]

Bought(a, s, price, volume) ==
  [Charged(a, - price * volume) EXCEPT
     !.avgCost[s] = IF a.position[s] > 0
                    THEN (@ * a.position[s] + price * volume) \div (a.position[s] + volume)
                    ELSE price,
     !.position[s] = @ + volume]

\* A sale is filled whole, whatever is held; the position is cut at zero.
Sold(a, s, price, volume) ==
  [Charged(a, price * volume) EXCEPT
     !.avgCost[s] = IF a.position[s] <= volume THEN 0 ELSE @,
     !.position[s] = MostOf(@ - volume, 0)]

\* execute_fill on the account and what this model adds to it.
Settled(b, o, price) ==
  LET held == b.paperBook.position[o.symbol]
      covered == LeastOf(held, o.volume) IN
  IF o.long THEN [b EXCEPT !.paperBook = Bought(@, o.symbol, price, o.volume)]
  ELSE [paperBook |-> Sold(b.paperBook, o.symbol, price, o.volume),
        gains |-> b.gains + covered * (price - b.paperBook.avgCost[o.symbol]),
        unheldSales |-> b.unheldSales + (o.volume - covered) * price]

Fillables(symbol, bid, ask) ==
  {id \in DOMAIN pendingOrders :
     pendingOrders[id].symbol = symbol /\ Fillable(pendingOrders[id], bid, ask)}

\* Mutant: filled orders stay among the open ones.
FillOrdersKeepsFilled(symbol, bid, ask) ==
  LET done == Fillables(symbol, bid, ask) IN
  /\ allOrders' = Become(done, "ALLTRADED")
  /\ fills' = [id \in DOMAIN fills |-> IF id \in done THEN fills[id] + 1 ELSE fills[id]]
  /\ UNCHANGED <<pendingOrders, paperBook, gains, unheldSales, cancelAsked>>

FillOrders(symbol, bid, ask) ==
  LET done == Fillables(symbol, bid, ask) IN
  /\ pendingOrders' = OpenWithout(done) /\ allOrders' = Become(done, "ALLTRADED")
  /\ fills' = [id \in DOMAIN fills |-> IF id \in done THEN fills[id] + 1 ELSE fills[id]]
  /\ \E walk \in SetToSeqs(done) :
       LET Settle(b, id) == Settled(b, pendingOrders[id], PaperFillPrice(pendingOrders[id], bid, ask))
           books == FoldLeft(Settle, [paperBook |-> paperBook, gains |-> gains, unheldSales |-> unheldSales], walk)
       IN paperBook' = books.paperBook /\ gains' = books.gains /\ unheldSales' = books.unheldSales
  /\ UNCHANGED cancelAsked

\* A tick without a bid or an ask, as of a ticker stream, has the last price for it.
PaperOnTick(symbol, t) ==
  /\ lastPrices' = [lastPrices EXCEPT ![symbol] = t.last]
  /\ FillOrders(symbol, IF t.bid > 0 THEN t.bid ELSE t.last, IF t.ask > 0 THEN t.ask ELSE t.last)
PaperOnBar(symbol, close) ==
  /\ lastPrices' = [lastPrices EXCEPT ![symbol] = close]
  /\ FillOrders(symbol, close, close)

PaperAccountNext ==
  \/ \E price \in QuotePrices[DefaultSymbol], volume \in PaperVolumes :
       PaperBuy(price, volume) \/ PaperSell(price, volume)
  \/ \E long \in BOOLEAN : PaperMarket(long, 1)
  \/ \E symbol \in PaperSymbols \ {DefaultSymbol} : \E price \in QuotePrices[symbol] :
       SendPaperOrder(PaperOrder(symbol, "LIMIT", TRUE, price, 1))
  \/ \E id \in DOMAIN pendingOrders : PaperCancel(id)
  \/ PaperCancelAll
  \/ \E t \in QuoteTicks : PaperOnTick(DefaultSymbol, t)
  \/ \E s \in PaperSymbols : \E close \in QuotePrices[s] : PaperOnBar(s, close)
-----------------------------------------------------------------------------
\* get_equity
Equity ==
  FoldLeft(LAMBDA e, s : e + paperBook.position[s] * lastPrices[s], paperBook.cash, SetToSeq(PaperSymbols))

\* The equity of the account, marked to the last prices, is what sales earned over
\* cost, less commission, and what the held positions gained since they were bought,
\* whatever was averaged, sold in part or sold out before.  Only a sale of more than
\* was held brings money from nowhere.
PaperAccountBalances ==
  Equity = FoldLeft(LAMBDA e, s : e + paperBook.position[s] * (lastPrices[s] - paperBook.avgCost[s]),
                    gains + unheldSales - paperBook.commission, SetToSeq(PaperSymbols))

\* Every order sent is open, or was filled exactly once, or was cancelled because it
\* was asked for, and both books say so.
PaperOrdersSettle ==
  \A id \in DOMAIN allOrders :
    CASE id \in DOMAIN pendingOrders -> allOrders[id] = "NOTTRADED" /\ fills[id] = 0
      [] fills[id] = 1            -> allOrders[id] = "ALLTRADED" /\ id \notin cancelAsked
      [] OTHER                    -> allOrders[id] = "CANCELLED" /\ fills[id] = 0 /\ id \in cancelAsked
=============================================================================
