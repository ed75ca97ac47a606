--------------------------- MODULE StrategyRouting ---------------------------
(* StrategyManager (engine/strategy_manager.cpp): which strategies there are,  *)
(* which of them get a symbol's market data, and whose an order is.  mutex_    *)
(* makes every call atomic.  A call that is refused, by the manager or by the  *)
(* risk manager, changes nothing and is left out.  The broker behind it is the *)
(* paper broker or the backtest's; they differ in the orders they refuse.      *)
EXTENDS Naturals, Sequences, SequencesExt

CONSTANTS
  StrategyNames,  \* names of strategies
  DataSymbols,    \* vt_symbols; "" subscribes to none
  MaxRouted,      \* bound: orders sent
  MaxAdded        \* bound: calls of add_strategy()
ASSUME RoutingAssumption == "PAPER" \notin StrategyNames /\ "" \notin StrategyNames /\ MaxRouted \in Nat /\ MaxAdded \in Nat

VARIABLES
  strategies,   \* strategies_: name -> wrapper
  symbolMap,    \* symbol_strategy_map_
  orderMap,     \* orderid_strategy_map_
  brokerOpen,   \* open_orders_ of the broker, by number
  nextOrderId,  \* next_order_id, less one
  added,        \* strategies added so far
  sentBy, unheard  \* history: who sent each order; what the manager never learns of:
                   \* orders cancelled only here, orders finished only at the broker

routingVars == <<strategies, symbolMap, orderMap, brokerOpen, nextOrderId, added, sentBy, unheard>>
orderVars == <<orderMap, brokerOpen, nextOrderId, sentBy, unheard>>

NoStrategies == [n \in {} |-> [symbol |-> "", status |-> "CREATED", inited |-> FALSE, trading |-> FALSE,
                               active |-> {}, trades |-> 0, serial |-> 0]]

RoutingInit ==
  /\ strategies = NoStrategies /\ symbolMap = [s \in {} |-> <<>>] /\ orderMap = [id \in {} |-> ""]
  /\ brokerOpen = {} /\ nextOrderId = 0 /\ added = 0 /\ sentBy = <<>> /\ unheard = {}

With(f, key, value) == [k \in DOMAIN f \cup {key} |-> IF k = key THEN value ELSE f[k]]
WithoutKeys(f, keys) == [k \in DOMAIN f \ keys |-> f[k]]

\* An order has three names: the manager's "name.N", the broker's "PAPER_N", and
\* "PAPER.PAPER_N", the vt_orderid of every report about it.
ManagerId(name, n) == <<name, n>>
BrokerId(n) == <<"", n>>
VtOrderid(n) == <<"PAPER", n>>

-----------------------------------------------------------------------------
(* The life cycle.  on_init, on_start and on_stop may throw.                   *)
AddStrategy(name, symbol) ==
  /\ name \notin DOMAIN strategies /\ added < MaxAdded /\ added' = added + 1
  /\ strategies' = With(strategies, name, [symbol |-> symbol, status |-> "CREATED", inited |-> FALSE,
                          trading |-> FALSE, active |-> {}, trades |-> 0, serial |-> added'])
  /\ symbolMap' = IF symbol = "" THEN symbolMap
                  ELSE With(symbolMap, symbol,
                            Append(IF symbol \in DOMAIN symbolMap THEN symbolMap[symbol] ELSE <<>>, name))
  /\ UNCHANGED orderVars

InitStrategy(name, throws) ==
  /\ strategies[name].status \in {"CREATED", "STOPPED"}
  /\ strategies' = [strategies EXCEPT ![name].inited = @ \/ ~throws,
                                      ![name].status = IF throws THEN "ERROR" ELSE "READY"]
  /\ UNCHANGED <<symbolMap, orderVars, added>>

StartStrategy(name, throws) ==
  /\ strategies[name].inited /\ strategies[name].status # "RUNNING"
  /\ strategies' = [strategies EXCEPT ![name].trading = @ \/ ~throws,
                                      ![name].status = IF throws THEN "ERROR" ELSE "RUNNING"]
  /\ UNCHANGED <<symbolMap, orderVars, added>>

\* When on_stop throws the strategy runs on.
StopStrategy(name) ==
  /\ strategies[name].status = "RUNNING"
  /\ strategies' = [strategies EXCEPT ![name].trading = FALSE, ![name].status = "STOPPED"]
  /\ UNCHANGED <<symbolMap, orderVars, added>>

\* A list names a strategy once (RoutingAgrees), so erase(remove()) takes out one place.
Unlisted(name) ==
  LET symbol == strategies[name].symbol IN
  IF symbol = "" THEN symbolMap
  ELSE LET list == RemoveFirst(symbolMap[symbol], name) IN
       IF list = <<>> THEN WithoutKeys(symbolMap, {symbol}) ELSE With(symbolMap, symbol, list)

\* Mutant: the orders stay in the map.
RemoveStrategyKeepsOrders(name) ==
  /\ strategies' = WithoutKeys(strategies, {name}) /\ symbolMap' = Unlisted(name)
  /\ UNCHANGED <<orderVars, added>>

RemoveStrategy(name) ==
  /\ strategies' = WithoutKeys(strategies, {name}) /\ symbolMap' = Unlisted(name)
  /\ orderMap' = WithoutKeys(orderMap, {id \in DOMAIN orderMap : orderMap[id] = name})
  /\ UNCHANGED <<brokerOpen, nextOrderId, added, sentBy, unheard>>

-----------------------------------------------------------------------------
(* Orders.                                                                     *)

\* Sent to a broker that takes it; what a failed send maps it takes out again.
SendStrategyOrder(name) ==
  /\ strategies[name].trading /\ nextOrderId < MaxRouted /\ nextOrderId' = nextOrderId + 1
  /\ orderMap' = With(With(orderMap, ManagerId(name, nextOrderId'), name), BrokerId(nextOrderId'), name)
  /\ strategies' = [strategies EXCEPT ![name].active = @ \cup {ManagerId(name, nextOrderId')}]
  /\ brokerOpen' = brokerOpen \cup {nextOrderId'}
  /\ sentBy' = Append(sentBy, <<name, strategies[name].serial>>)
  /\ UNCHANGED <<symbolMap, added, unheard>>

\* The broker is asked to cancel an id it does not know: the paper broker does not
\* find it, the backtest's is not asked because stoull throws.
CancelStrategyOrder(name, n) ==
  /\ ManagerId(name, n) \in DOMAIN orderMap /\ orderMap[ManagerId(name, n)] = name
  /\ strategies' = [strategies EXCEPT ![name].active = @ \ {ManagerId(name, n)}]
  /\ unheard' = unheard \cup {n}
  /\ UNCHANGED <<symbolMap, orderMap, brokerOpen, nextOrderId, added, sentBy>>

\* on_order with an order that is no longer active, and on_trade, for whoever the
\* map says.
OnOrderAndTrade(vtOrderid) ==
  strategies' = IF vtOrderid \notin DOMAIN orderMap THEN strategies
                ELSE [strategies EXCEPT ![orderMap[vtOrderid]].active = @ \ {vtOrderid},
                                        ![orderMap[vtOrderid]].trades = @ + 1]

\* The order fills at the broker, and its reports come back.
BrokerFills(n) ==
  /\ n \in brokerOpen /\ brokerOpen' = brokerOpen \ {n}
  /\ OnOrderAndTrade(VtOrderid(n)) /\ unheard' = unheard \cup {n}
  /\ UNCHANGED <<symbolMap, orderMap, nextOrderId, added, sentBy>>

RoutingNext ==
  \/ \E name \in StrategyNames, symbol \in DataSymbols : AddStrategy(name, symbol)
  \/ \E name \in DOMAIN strategies :
       \/ \E throws \in BOOLEAN : InitStrategy(name, throws) \/ StartStrategy(name, throws)
       \/ StopStrategy(name) \/ RemoveStrategy(name) \/ SendStrategyOrder(name)
       \/ \E n \in 1..nextOrderId : CancelStrategyOrder(name, n)
  \/ \E n \in brokerOpen : BrokerFills(n)
-----------------------------------------------------------------------------
Here(sender) == sender[1] \in DOMAIN strategies /\ strategies[sender[1]].serial = sender[2]

\* The manager's maps agree through adds, removals, restarts, callbacks that throw
\* and orders in every order: market data goes once to each strategy of the symbol
\* and to nobody that is gone; both ids of an order name the strategy that sent
\* it, not a later one of the same name, for as long as it is there; and
\* active_orderids holds exactly the orders that were neither cancelled nor filled,
\* or were so without the manager or the broker hearing of it.
RoutingAgrees ==
  /\ \A s \in DataSymbols \ {""} :
       LET list == IF s \in DOMAIN symbolMap THEN symbolMap[s] ELSE <<>> IN
       /\ Range(list) = {n \in DOMAIN strategies : strategies[n].symbol = s}
       /\ IsInjective(list) /\ (s \in DOMAIN symbolMap => list # <<>>)
  /\ \A k \in DOMAIN sentBy :
       LET name == sentBy[k][1]
           ids == {ManagerId(name, k), BrokerId(k)} IN
       /\ Here(sentBy[k]) => \A id \in ids : id \in DOMAIN orderMap /\ orderMap[id] = name
       /\ ids \cap DOMAIN orderMap # {} => Here(sentBy[k])
       /\ Here(sentBy[k]) /\ k \notin unheard => k \in brokerOpen /\ ManagerId(name, k) \in strategies[name].active
  /\ \A n \in DOMAIN strategies :
       /\ strategies[n].trading <=> strategies[n].status = "RUNNING"
       /\ \A id \in strategies[n].active : id \in DOMAIN orderMap /\ orderMap[id] = n
=============================================================================
