--------------------------- MODULE SimulatedGateways ---------------------------
(* BinanceUsdtGateway with its REST and WebSocket objects, and OkxGateway       *)
(* (exchange/binance_usdt_*.cpp, okx_gateway.cpp).  Neither talks to an         *)
(* exchange yet: every order is taken, no cancel reaches anybody, and what a    *)
(* feed would deliver goes in through process_order_update() and its like.      *)
(* Contracts, accounts and positions are passed on as they come.                *)
EXTENDS Naturals, Sequences, FiniteSets, SequencesExt

CONSTANTS
  FeedSymbols,    \* symbols
  IdBlock,        \* order ids of one local second: 1000000 in the code
  MaxClock,       \* bound: local seconds, which a change of the clock repeats
  MaxConnects,    \* bound: calls of connect(), per gateway
  MaxUsdtOrders,  \* bounds: orders sent
  MaxOkxOrders,
  OrderSize,      \* volume of an order
  MaxCounted      \* bound: volume of the trades of an order, where reports are overtaken
ASSUME GatewaysAssumption ==
  /\ IdBlock \in Nat \ {0} /\ OrderSize \in Nat \ {0}
  /\ MaxClock \in Nat /\ MaxConnects \in Nat /\ MaxUsdtOrders \in Nat
  /\ MaxOkxOrders \in Nat /\ MaxCounted \in Nat

VARIABLES
  \* The USDT gateway.
  clock,             \* the local time, in seconds
  usdtUp,            \* connected_
  rest,              \* rest_api_: connect_time_ and order_count_
  subscriptions,     \* subscriptions_ of ws_api_: symbol -> streams
  tickCached,        \* symbols in last_ticks_
  usdtOrders,        \* orders_: id -> traded
  usdtTrades,        \* history: trades made
  usdtConnects,      \* connects so far
  usdtSent,          \* history: the ids sent, and the connection of each
  wanted,            \* history: the streams asked for and not unsubscribed
  \* The OKX gateway.
  okxUp, okxConnects,
  okxOrders,         \* orders_: id -> traded, which is 0 of an order just sent
  okxTraded,         \* history: the volume of the trades made of each order
  executed,          \* what OKX has executed of each
  newest, overtaken  \* history: the most a report has said of each; a later one said less

restVars == <<clock, usdtUp, rest, usdtConnects, usdtSent>>
feedVars == <<subscriptions, tickCached, wanted>>
usdtVars == <<restVars, feedVars, usdtOrders, usdtTrades>>
okxVars == <<okxUp, okxConnects, okxOrders, okxTraded, executed, newest, overtaken>>
gatewayVars == <<usdtVars, okxVars>>

GatewaysInit ==
  /\ clock = 0 /\ usdtUp = FALSE /\ rest = [time |-> 0, count |-> 0]
  /\ subscriptions = [s \in {} |-> <<>>] /\ tickCached = {} /\ wanted = {}
  /\ usdtOrders = [id \in {} |-> 0] /\ usdtTrades = 0 /\ usdtConnects = 0 /\ usdtSent = <<>>
  /\ okxUp = FALSE /\ okxConnects = 0 /\ okxOrders = <<>> /\ okxTraded = <<>>
  /\ executed = <<>> /\ newest = <<>> /\ overtaken = {}

-----------------------------------------------------------------------------
(* The USDT gateway's connections.                                             *)
ClockMoves ==
  /\ clock' \in 0 .. MaxClock /\ clock' # clock
  /\ UNCHANGED <<usdtUp, rest, usdtConnects, usdtSent, feedVars, usdtOrders, usdtTrades, okxVars>>

\* init_rest_api() and init_ws_api() make new objects; the user stream has no
\* listen key and stays down.  orders_ and last_ticks_ are the gateway's and stay.
UsdtConnect ==
  /\ ~usdtUp /\ usdtUp' = TRUE /\ usdtConnects < MaxConnects /\ usdtConnects' = usdtConnects + 1
  /\ rest' = [time |-> clock * IdBlock, count |-> 0]
  /\ subscriptions' = [s \in {} |-> <<>>]
  /\ UNCHANGED <<clock, usdtSent, tickCached, wanted, usdtOrders, usdtTrades, okxVars>>

\* close() stops the objects and keeps them.
UsdtClose ==
  /\ usdtUp /\ usdtUp' = FALSE
  /\ UNCHANGED <<clock, rest, usdtConnects, usdtSent, feedVars, usdtOrders, usdtTrades, okxVars>>

-----------------------------------------------------------------------------
(* Its orders.                                                                 *)

\* Mutant: the id is taken before the count moves.
SendUsdtOrderSameCount ==
  /\ usdtUp /\ Len(usdtSent) < MaxUsdtOrders
  /\ usdtSent' = Append(usdtSent, [id |-> rest.time + rest.count, second |-> rest.time \div IdBlock,
                                   connection |-> usdtConnects])
  /\ UNCHANGED <<clock, usdtUp, rest, usdtConnects, feedVars, usdtOrders, usdtTrades, okxVars>>

\* generate_order_id() and the simulated send_order(), which reports the order at
\* once; orders_ does not learn of it.
SendUsdtOrder ==
  /\ usdtUp /\ Len(usdtSent) < MaxUsdtOrders
  /\ rest' = [rest EXCEPT !.count = @ + 1]
  /\ usdtSent' = Append(usdtSent, [id |-> rest'.time + rest'.count, second |-> rest.time \div IdBlock,
                                   connection |-> usdtConnects])
  /\ UNCHANGED <<clock, usdtUp, usdtConnects, feedVars, usdtOrders, usdtTrades, okxVars>>

\* A trade is made of what the report says beyond what orders_ knew.
TradedNow(orders, id, traded) ==
  IF id \in DOMAIN orders /\ traded > orders[id] THEN traded - orders[id] ELSE 0
Updated(orders, id, traded) ==
  IF id \in DOMAIN orders THEN [orders EXCEPT ![id] = traded] ELSE orders

\* process_order_update() with what the user stream would report.
UsdtOrderUpdate(id, traded) ==
  /\ usdtTrades' = usdtTrades + TradedNow(usdtOrders, id, traded)
  /\ usdtOrders' = Updated(usdtOrders, id, traded)
  /\ UNCHANGED <<restVars, feedVars, okxVars>>

-----------------------------------------------------------------------------
(* Its market data.                                                            *)
Streams(symbol) == IF symbol \in DOMAIN subscriptions THEN subscriptions[symbol] ELSE <<>>
Listed == UNION {Range(subscriptions[s]) : s \in DOMAIN subscriptions}

Subscribe(symbol, streams) ==
  /\ usdtUp
  /\ subscriptions' = [s \in DOMAIN subscriptions \cup {symbol} |->
                         IF s = symbol THEN Streams(s) \o streams ELSE subscriptions[s]]
  /\ wanted' = wanted \cup {<<stream, usdtConnects>> : stream \in Range(streams)}
  /\ UNCHANGED <<tickCached, restVars, usdtOrders, usdtTrades, okxVars>>

\* A stream is listed once for every call; one call each is enough here.
SubscribeTick(symbol) ==
  <<symbol, "ticker">> \notin Listed /\ Subscribe(symbol, <<<<symbol, "ticker">>, <<symbol, "depth5">>>>)
SubscribeBar(symbol) ==
  <<symbol, "kline">> \notin Listed /\ Subscribe(symbol, <<<<symbol, "kline">>>>)

\* The bars of the symbol go with its ticks.
UnsubscribeTick(symbol) ==
  /\ usdtUp /\ symbol \in DOMAIN subscriptions
  /\ subscriptions' = [s \in DOMAIN subscriptions \ {symbol} |-> subscriptions[s]]
  /\ wanted' = {w \in wanted : w[1][1] # symbol}
  /\ UNCHANGED <<tickCached, restVars, usdtOrders, usdtTrades, okxVars>>

\* process_ticker(), for a symbol of a subscribed stream.
TickerArrives(symbol) ==
  /\ usdtUp /\ <<symbol, "ticker">> \in Listed /\ tickCached' = tickCached \cup {symbol}
  /\ UNCHANGED <<subscriptions, wanted, restVars, usdtOrders, usdtTrades, okxVars>>

-----------------------------------------------------------------------------
(* The OKX gateway.  Its ids are a time and a count that grows: never the same. *)
OkxConnect ==
  /\ ~okxUp /\ okxUp' = TRUE /\ okxConnects < MaxConnects /\ okxConnects' = okxConnects + 1
  /\ UNCHANGED <<usdtVars, okxOrders, okxTraded, executed, newest, overtaken>>

OkxClose ==
  /\ okxUp /\ okxUp' = FALSE
  /\ UNCHANGED <<usdtVars, okxConnects, okxOrders, okxTraded, executed, newest, overtaken>>

\* Both reports of a new order go out at once.  A cancel is answered with true and
\* changes nothing.
SendOkxOrder ==
  /\ okxUp /\ Len(okxOrders) < MaxOkxOrders
  /\ okxOrders' = Append(okxOrders, 0) /\ okxTraded' = Append(okxTraded, 0)
  /\ executed' = Append(executed, 0) /\ newest' = Append(newest, 0)
  /\ UNCHANGED <<usdtVars, okxUp, okxConnects, overtaken>>

OkxExecutes(id) ==
  /\ executed[id] < OrderSize /\ executed' = [executed EXCEPT ![id] = @ + 1]
  /\ UNCHANGED <<usdtVars, okxUp, okxConnects, okxOrders, okxTraded, newest, overtaken>>

\* Mutant: orders_ keeps what the gateway sent.
OkxOrderUpdateKeepsOrder(id, traded) ==
  /\ okxTraded' = [okxTraded EXCEPT ![id] = @ + TradedNow(okxOrders, id, traded)]
  /\ overtaken' = IF traded < newest[id] THEN overtaken \cup {id} ELSE overtaken
  /\ newest' = [newest EXCEPT ![id] = IF traded > @ THEN traded ELSE @]
  /\ UNCHANGED <<usdtVars, okxUp, okxConnects, okxOrders, executed>>

\* process_order_update() with any report there ever was of the order: late, lost
\* or twice, and whether or not the gateway is connected.
OkxOrderUpdate(id, traded) ==
  /\ okxOrders' = Updated(okxOrders, id, traded)
  /\ okxTraded' = [okxTraded EXCEPT ![id] = @ + TradedNow(okxOrders, id, traded)]
  /\ okxTraded'[id] <= MaxCounted
  /\ overtaken' = IF traded < newest[id] THEN overtaken \cup {id} ELSE overtaken
  /\ newest' = [newest EXCEPT ![id] = IF traded > @ THEN traded ELSE @]
  /\ UNCHANGED <<usdtVars, okxUp, okxConnects, executed>>

UsdtNext ==
  \/ ClockMoves \/ UsdtConnect \/ UsdtClose \/ SendUsdtOrder
  \/ \E k \in DOMAIN usdtSent, traded \in 0 .. OrderSize : UsdtOrderUpdate(usdtSent[k].id, traded)
  \/ \E s \in FeedSymbols : SubscribeTick(s) \/ SubscribeBar(s) \/ UnsubscribeTick(s) \/ TickerArrives(s)
OkxNext ==
  \/ OkxConnect \/ OkxClose \/ SendOkxOrder
  \/ \E id \in DOMAIN okxOrders : OkxExecutes(id) \/ \E traded \in 0 .. executed[id] : OkxOrderUpdate(id, traded)
-----------------------------------------------------------------------------
SentIn(connection) == Cardinality({k \in DOMAIN usdtSent : usdtSent[k].connection = connection})

\* Two orders of the USDT gateway share an id only if the gateway reconnected when
\* the local clock was not past the second of the connection before, or after more
\* than a second's block of ids.
IdsUnique ==
  \A i, j \in DOMAIN usdtSent : i < j /\ usdtSent[i].id = usdtSent[j].id =>
    /\ usdtSent[i].connection # usdtSent[j].connection
    /\ usdtSent[j].second <= usdtSent[i].second \/ SentIn(usdtSent[i].connection) > IdBlock

\* Through reconnects, lost and repeated reports the trades OKX orders are reported
\* with add up to the newest report, and to no less if one was overtaken by an
\* older; the USDT gateway, whose orders_ stays empty, makes no trade whatever is
\* reported to it.
FillsAddUp ==
  /\ \A id \in DOMAIN okxOrders :
       IF id \in overtaken THEN okxTraded[id] >= newest[id] ELSE okxTraded[id] = newest[id]
  /\ usdtTrades = 0

\* What was asked for since the last connect() is listed until it is unsubscribed;
\* what was asked for before is not, though nobody unsubscribed it.
FeedsListed == {w[1] : w \in {w \in wanted : w[2] = usdtConnects}} = Listed

GatewaysAgree == IdsUnique /\ FillsAddUp /\ FeedsListed
=============================================================================
