--------------------------- MODULE BacktestBroker ---------------------------
(* Broker (engine/broker.cpp): the order matching of a backtest.  Each bar     *)
(* walks the limit orders, then the stop orders, then calls on_bar; the        *)
(* strategy's callbacks send and cancel orders while a walk is in progress.    *)
(* The books are unordered maps: a walk takes them in any order.  With more    *)
(* than 13 entries they rehash, and a walk goes on in another order: MaxSent   *)
(* stays below.  Commission is left out; prices are integers whose averages    *)
(* divide.                                                                     *)
EXTENDS Integers, FiniteSets

CONSTANTS
  BarShapes,    \* records of a bar's open, low, high and close price
  OrderPrices,  \* prices the strategy sends orders at
  Lots,         \* volumes of its orders
  Slip,         \* what slippage adds to or takes from a close price
  MaxSent,      \* bound: orders the strategy sends
  MaxBars       \* bound: bars of the data
ASSUME BacktestAssumption ==
  /\ BarShapes \subseteq [open : Nat \ {0}, low : Nat \ {0}, high : Nat \ {0}, close : Nat \ {0}]
  /\ \A b \in BarShapes : b.low <= b.open /\ b.open <= b.high /\ b.low <= b.close /\ b.close <= b.high
  /\ OrderPrices \subseteq Int /\ Lots \subseteq Nat \ {0}
  /\ Slip \in Nat /\ MaxSent \in 0..13 /\ MaxBars \in Nat

VARIABLES
  allowShort,             \* config_.allow_short
  active, stops,          \* active_orders_, active_stop_orders_: id -> order
  limitCount, stopCount,  \* the two id counters
  position,               \* side, volume and average price
  realized, cash, asset,  \* realized_pnl, cash_ less its initial value, asset_value_
  bar, bars,              \* current_bar_, and how many bars there were
  phase,    \* "limits", "stops", or "bar": on_bar (at first on_init, on_start) is running
  walked,   \* ids the walk in progress has passed
  current,  \* the entry of the walk whose callbacks run, 0 when none
  sent, filled, asked  \* history: orders sent, trades per id, cancels asked for

bookVars == <<active, stops, limitCount, stopCount>>
accountVars == <<position, realized, cash, asset>>
walkVars == <<allowShort, bar, bars, phase, walked, current>>
btVars == <<bookVars, accountVars, walkVars, sent, filled, asked>>

Flat == [side |-> "NET", volume |-> 0, avg |-> 0]
EmptyBook == [id \in {} |-> [side |-> "LONG", price |-> 0, volume |-> 0, status |-> "SUBMITTING"]]
BookWithout(book, ids) == [id \in DOMAIN book \ ids |-> book[id]]
BookWith(book, id, o) == [i \in DOMAIN book \cup {id} |-> IF i = id THEN o ELSE book[i]]

\* run() starts with nothing open and calls on_init and on_start, which may send
\* orders before there is a bar.
NoBar == [open |-> 0, low |-> 0, high |-> 0, close |-> 0]
BacktestInit ==
  /\ allowShort \in BOOLEAN
  /\ active = EmptyBook /\ stops = EmptyBook /\ limitCount = 0 /\ stopCount = 0
  /\ position = Flat /\ realized = 0 /\ cash = 0 /\ asset = 0
  /\ bar = NoBar /\ bars = 0 /\ phase = "bar" /\ walked = {} /\ current = 0
  /\ sent = 0 /\ filled = [id \in 1..MaxSent |-> 0] /\ asked = {}

-----------------------------------------------------------------------------
(* The account: update_position and execute_trade.                             *)
Opposite(side) == IF side = "LONG" THEN "SHORT" ELSE "LONG"
Smaller(a, b) == IF a < b THEN a ELSE b
Larger(a, b) == IF a < b THEN b ELSE a

\* Mutant: what a trade has beyond the position it closes is forgotten.
NewPositionNoFlip(side, price, volume) ==
  LET p == position IN
  IF p.side = Opposite(side) /\ p.volume > 0
  THEN IF volume < p.volume THEN [p EXCEPT !.volume = @ - volume] ELSE Flat
  ELSE [side |-> side, volume |-> p.volume + volume,
        avg |-> (p.avg * p.volume + price * volume) \div (p.volume + volume)]

NewPosition(side, price, volume) ==
  LET p == position IN
  IF p.side = Opposite(side) /\ p.volume > 0
  THEN IF volume < p.volume THEN [p EXCEPT !.volume = @ - volume]
       ELSE IF volume = p.volume THEN Flat
       ELSE [side |-> side, volume |-> volume - p.volume, avg |-> price]
  ELSE [side |-> side, volume |-> p.volume + volume,
        avg |-> (p.avg * p.volume + price * volume) \div (p.volume + volume)]

RealizedBy(side, price, volume) ==
  IF position.side = Opposite(side) /\ position.volume > 0
  THEN Smaller(position.volume, volume) *
         (IF side = "SHORT" THEN price - position.avg ELSE position.avg - price)
  ELSE 0

ExecuteTrade(side, price, volume) ==
  LET value == price * volume * (IF side = "LONG" THEN 1 ELSE -1) IN
  /\ position' = NewPosition(side, price, volume)
  /\ realized' = realized + RealizedBy(side, price, volume)
  /\ cash' = cash - value /\ asset' = asset + value

-----------------------------------------------------------------------------
(* What the strategy calls, from on_bar or from an order's callbacks.          *)
InCallback == phase = "bar" \/ current # 0

\* buy, sell, short_order and cover.  An order sent while the limit orders are
\* walked is met by that walk or not: the map decides where it goes.
SendLimitOrder(side, opens, price, volume) ==
  /\ InCallback /\ sent < MaxSent /\ sent' = sent + 1
  /\ side = "SHORT" /\ opens => allowShort
  /\ limitCount' = limitCount + 1
  /\ active' = BookWith(active, limitCount',
                 [side |-> side, price |-> price, volume |-> volume, status |-> "SUBMITTING"])
  /\ walked' \in IF phase = "limits" THEN {walked, walked \cup {limitCount'}} ELSE {walked}
  /\ UNCHANGED <<stops, stopCount, accountVars, allowShort, bar, bars, phase, current, filled, asked>>

SendStopOrder(side, price, volume) ==
  /\ InCallback /\ sent < MaxSent /\ sent' = sent + 1
  /\ stopCount' = stopCount + 1
  /\ stops' = BookWith(stops, stopCount',
                [side |-> side, price |-> price, volume |-> volume, status |-> "WAITING"])
  /\ walked' \in IF phase = "stops" THEN {walked, walked \cup {stopCount'}} ELSE {walked}
  /\ UNCHANGED <<active, limitCount, accountVars, allowShort, bar, bars, phase, current, filled, asked>>

MarketOrder(side, volume) ==
  /\ InCallback /\ bar # NoBar /\ sent < MaxSent /\ sent' = sent + 1
  /\ ExecuteTrade(side, IF side = "LONG" THEN bar.close + Slip ELSE bar.close - Slip, volume)
  /\ UNCHANGED <<bookVars, walkVars, filled, asked>>

\* A number names a limit order if one is open, else the stop order of that
\* number.  kind is what the strategy means; the call does not say it.  Erasing
\* the entry whose callbacks run leaves the walk a dangling one: the callers
\* here do not.
CancelOrder(kind, id) ==
  /\ InCallback /\ asked' = asked \cup {<<kind, id>>}
  /\ IF id \in DOMAIN active
     THEN /\ phase = "limits" => current # id
          /\ active' = BookWithout(active, {id}) /\ UNCHANGED stops
     ELSE /\ id \in DOMAIN stops /\ (phase = "stops" => current # id)
          /\ stops' = BookWithout(stops, {id}) /\ UNCHANGED active
  /\ UNCHANGED <<limitCount, stopCount, accountVars, walkVars, sent, filled>>

CancelAllOrders ==
  /\ phase = "bar" /\ DOMAIN active \cup DOMAIN stops # {}
  /\ asked' = asked \cup ({"limit"} \X DOMAIN active) \cup ({"stop"} \X DOMAIN stops)
  /\ active' = EmptyBook /\ stops' = EmptyBook
  /\ UNCHANGED <<limitCount, stopCount, accountVars, walkVars, sent, filled>>

-----------------------------------------------------------------------------
(* run(): the walks over the two books.                                        *)
LimitCrosses(o) == IF o.side = "LONG" THEN o.price >= bar.low ELSE o.price <= bar.high
LimitFillPrice(o) == IF o.side = "LONG" THEN Smaller(o.price, bar.open) ELSE Larger(o.price, bar.open)

\* One step of cross_limit_order: a first sighting makes the order NOTTRADED, a
\* cross fills it whole; then its callbacks run.
CrossLimitOrder(id) ==
  /\ phase = "limits" /\ id \in DOMAIN active \ walked
  /\ walked' = walked \cup {id}
  /\ IF LimitCrosses(active[id])
     THEN /\ active' = [active EXCEPT ![id].status = "ALLTRADED"]
          /\ ExecuteTrade(active[id].side, LimitFillPrice(active[id]), active[id].volume)
          /\ filled' = [filled EXCEPT ![id] = @ + 1]
          /\ current' = id
     ELSE /\ active' = [active EXCEPT ![id].status = "NOTTRADED"]
          /\ current' = IF active[id].status = "SUBMITTING" THEN id ELSE 0
          /\ UNCHANGED <<accountVars, filled>>
  /\ UNCHANGED <<stops, limitCount, stopCount, allowShort, bar, bars, phase, sent, asked>>

\* Mutant: filled orders stay in the book.
LimitOrdersDoneKeepsFilled ==
  /\ phase = "limits" /\ DOMAIN active \subseteq walked
  /\ phase' = "stops" /\ walked' = {} /\ current' = 0
  /\ UNCHANGED <<bookVars, accountVars, allowShort, bar, bars, sent, filled, asked>>

LimitOrdersDone ==
  /\ phase = "limits" /\ DOMAIN active \subseteq walked
  /\ active' = BookWithout(active, {id \in DOMAIN active : active[id].status = "ALLTRADED"})
  /\ phase' = "stops" /\ walked' = {} /\ current' = 0
  /\ UNCHANGED <<stops, limitCount, stopCount, accountVars, allowShort, bar, bars, sent, filled, asked>>

StopCrosses(o) == IF o.side = "LONG" THEN o.price <= bar.high ELSE o.price >= bar.low
StopFillPrice(o) == IF o.side = "LONG" THEN Larger(o.price, bar.open) ELSE Smaller(o.price, bar.open)

\* A triggered stop order takes the next limit order id and fills under it.
CrossStopOrder(id) ==
  /\ phase = "stops" /\ id \in DOMAIN stops \ walked
  /\ walked' = walked \cup {id}
  /\ IF StopCrosses(stops[id])
     THEN /\ limitCount' = limitCount + 1 /\ current' = id
          /\ stops' = [stops EXCEPT ![id].status = "TRIGGERED"]
          /\ ExecuteTrade(stops[id].side, StopFillPrice(stops[id]), stops[id].volume)
          /\ filled' = [filled EXCEPT ![limitCount'] = @ + 1]
     ELSE current' = 0 /\ UNCHANGED <<stops, limitCount, accountVars, filled>>
  /\ UNCHANGED <<active, stopCount, allowShort, bar, bars, phase, sent, asked>>

StopOrdersDone ==
  /\ phase = "stops" /\ DOMAIN stops \subseteq walked
  /\ stops' = BookWithout(stops, {id \in DOMAIN stops : stops[id].status = "TRIGGERED"})
  /\ phase' = "bar" /\ walked' = {} /\ current' = 0
  /\ UNCHANGED <<active, limitCount, stopCount, accountVars, allowShort, bar, bars, sent, filled, asked>>

NextBar ==
  /\ phase = "bar" /\ bars < MaxBars /\ bars' = bars + 1 /\ bar' \in BarShapes
  /\ phase' = "limits"
  /\ UNCHANGED <<bookVars, accountVars, allowShort, walked, current, sent, filled, asked>>

MatchStep ==
  \/ \E id \in DOMAIN active : CrossLimitOrder(id)
  \/ \E id \in DOMAIN stops : CrossStopOrder(id)
  \/ LimitOrdersDone \/ StopOrdersDone \/ NextBar

BacktestNext ==
  \/ MatchStep
  \/ \E side \in {"LONG", "SHORT"}, price \in OrderPrices, volume \in Lots :
       (\E opens \in BOOLEAN : SendLimitOrder(side, opens, price, volume)) \/ SendStopOrder(side, price, volume)
  \/ \E side \in {"LONG", "SHORT"}, volume \in Lots : MarketOrder(side, volume)
  \/ \E id \in DOMAIN active : CancelOrder("limit", id)
  \/ \E id \in DOMAIN stops : CancelOrder("stop", id)
  \/ CancelAllOrders

-----------------------------------------------------------------------------
SignedVolume == IF position.side = "SHORT" THEN - position.volume ELSE position.volume

\* Money and position agree after any sequence of opens, adds, partial closes
\* and flips: what left the cash is what the position cost, less the profit that
\* was realized.
BooksBalance == - cash = position.avg * SignedVolume - realized

\* No order fills twice or is lost, whatever its callbacks put into the books or
\* take out while they are walked: each one is open, filled once, or gone because
\* the strategy cancelled it or a stop order of the same number.
FilledOnce ==
  \A id \in 1..limitCount :
    LET open == id \in DOMAIN active /\ active[id].status # "ALLTRADED"
        cancelled == {<<"limit", id>>, <<"stop", id>>} \cap asked # {} IN
    /\ filled[id] \in {0, 1}
    /\ open => filled[id] = 0
    /\ ~open /\ filled[id] = 0 => cancelled
============================================================================
