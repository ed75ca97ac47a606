----------------------------- MODULE MainEngine -----------------------------
(* MainEngine (engine/main_engine.cpp) with one spot gateway: what the gateway *)
(* reports becomes an event, the event engine's worker applies the events to   *)
(* the OMS, and one application thread starts and stops the engine, connects   *)
(* the gateway and closes it, and sends orders through check_risk.  MainEngine *)
(* gives the risk manager no event, so of its state only order_flow_count_     *)
(* moves.                                                                      *)
(*                                                                             *)
(* EVENT_LOG goes through the same queue to the LogEngine and touches nothing  *)
(* else; it is left out.                                                       *)
EXTENDS SpotGateway, EventEngine

CONSTANTS
  OrderFlowLimit,   \* order_flow_limit
  MaxStarts,        \* bound: calls of start()
  MaxConnects       \* bound: calls of connect()

ASSUME FlowAssumption == OrderFlowLimit \in Nat /\ MaxStarts \in Nat /\ MaxConnects \in Nat

VARIABLES
  flowCount,   \* RiskManager::order_flow_count_
  blocked,     \* the requests check_risk refused
  starts,      \* calls of start() so far
  connects,    \* calls of connect() so far
  tradesSeen,  \* history: volume of the trade events handled, per order id
  told,        \* history: what order_callback_ last said of each order
  omsOrders, omsActive, omsTrades   \* the OMS

INSTANCE OmsEngine WITH OmsKeys <- Keys, OmsNoOrder <- NoOrder

omsState == <<omsOrders, omsActive, omsTrades>>
counters == <<flowCount, blocked, starts, connects, tradesSeen>>
mainVars == <<counters, told>>
allVars == <<vars, engineVars, omsState, mainVars>>

TradeEvent(k, v) == [type |-> "eTrade", key |-> k, data |-> v]
OrderEvent(k, o) == [type |-> "eOrder", key |-> k, data |-> o]
Event ==
  [type : {"eTrade"}, key : Keys, data : 1..MaxVolume] \cup
  [type : {"eOrder"}, key : Keys, data : OrderData]

\* EVENT_TIMER has a type of its own, and holding nothing is no event.
ASSUME EventAssumption == TimerEvent # NoEvent /\ {TimerEvent, NoEvent} \cap Event = {}

\* Mutants: the order event first; only a new order is reported.
EventsOfOrderFirst(k, o) ==
  (IF Accepts(k, o) THEN <<OrderEvent(k, o)>> ELSE <<>>) \o
  (IF TradeVolume(k, o) > 0 THEN <<TradeEvent(k, TradeVolume(k, o))>> ELSE <<>>)
EventsOfNewOnly(k, o) == IF IsNew(k) THEN <<OrderEvent(k, o)>> ELSE <<>>

\* The callbacks process_order_update makes, trade_callback_ before order_callback_.
EventsOf(k, o) ==
  (IF TradeVolume(k, o) > 0 THEN <<TradeEvent(k, TradeVolume(k, o))>> ELSE <<>>) \o
  (IF Accepts(k, o) THEN <<OrderEvent(k, o)>> ELSE <<>>)

Forward(events) == Put(events) /\ UNCHANGED <<active, worker, current, timer, owner, omsState>>
Tell(k, o) == told' = [told EXCEPT ![k] = o]
ForwardUpdate(k, o) ==
  /\ Forward(EventsOf(k, o))
  /\ IF Accepts(k, o) THEN Tell(k, o) ELSE UNCHANGED told

\* The application thread is between two calls.
Idle == owner = "free" /\ phase # "loading" /\ \A r \in Ids : call[r] # "inflight"

---------------------------------------------------------------------------
(* The gateway's steps and the events they put *)

ExchangeStep ==
  /\ \E r \in Ids : ExchangeNext(r)
  /\ UNCHANGED <<engineVars, omsState, mainVars>>

\* The first connection or, after a close(), another.  Meanwhile the old user
\* stream delivers what it still has, until the new one replaces it.
Connect ==
  /\ Idle /\ connects < MaxConnects /\ QueryOpenOrders
  /\ connects' = connects + 1
  /\ UNCHANGED <<flowCount, blocked, starts, tradesSeen, told, engineVars, omsState>>

ConnectLoad(o) ==
  /\ LoadOpenOrder(o)
  /\ Forward(<<OrderEvent(ExchangeId(o.id), Update(o))>>)
  /\ Tell(ExchangeId(o.id), Update(o))
  /\ UNCHANGED counters

ConnectDone ==
  /\ StartUserStream
  /\ UNCHANGED <<engineVars, omsState, mainVars>>

Receive ==
  /\ ReceiveReport
  /\ ForwardUpdate(ExchangeId(Head(stream).id), Update(Head(stream)))
  /\ UNCHANGED counters

\* check_risk with the state MainEngine leaves it: no trade, active order or
\* cancellation was ever counted, so only the volume and the flow can fail.
CheckRisk(volume) == volume > 0 /\ flowCount < OrderFlowLimit

MainSendOrder(r) ==
  /\ Idle /\ r \notin blocked /\ CheckRisk(MaxVolume)
  /\ SendOrder(r)
  /\ flowCount' = flowCount + 1
  /\ UNCHANGED <<blocked, starts, connects, tradesSeen, told, engineVars, omsState>>

\* The gateway is not connected: send_order returns "", and the order counts.
MainSendUnconnected(r) ==
  /\ Idle /\ r \in Requests \ blocked /\ call[r] = "idle" /\ phase # "up"
  /\ CheckRisk(MaxVolume)
  /\ flowCount' = flowCount + 1
  /\ UNCHANGED <<blocked, starts, connects, tradesSeen, told, vars, engineVars, omsState>>

\* check_risk refuses: send_order returns "" and the gateway sees nothing.
MainOrderBlocked(r) ==
  /\ Idle /\ r \in Requests \ blocked /\ call[r] = "idle"
  /\ \E volume \in {0, MaxVolume} : ~CheckRisk(volume)
  /\ blocked' = blocked \cup {r}
  /\ UNCHANGED <<flowCount, starts, connects, tradesSeen, told, vars, engineVars, omsState>>

SendReturns(r) ==
  /\ \/ /\ HandleReply(r)
        /\ ForwardUpdate(ExchangeId(r), [status |-> "NOTTRADED", traded |-> 0])
     \/ /\ HandleFailure(r)
        /\ ForwardUpdate(LocalId(r), [status |-> "REJECTED", traded |-> 0])
  /\ UNCHANGED counters

MainCancelOrder(r) ==
  /\ Idle /\ CancelOrder(r)
  /\ UNCHANGED <<engineVars, omsState, mainVars>>

---------------------------------------------------------------------------
(* start(), stop() and the event engine's threads *)

MainStart ==
  /\ Idle /\ starts < MaxStarts
  /\ Start
  /\ starts' = starts + 1
  /\ UNCHANGED <<flowCount, blocked, connects, tradesSeen, told, vars, omsState>>

MainStopBegin ==
  /\ Idle /\ StopBegin
  /\ UNCHANGED <<vars, omsState, mainVars>>

\* BinanceSpotGateway::close() clears orders_ and gives the listen key back, a
\* REST call that can fail.  ws_api_ is not closed, so what is in flight is still
\* delivered.
CloseGateway ==
  /\ phase = "up" /\ phase' = "closed"
  /\ orders' = [k \in Keys |-> NoOrder]
  /\ userStream' \in {"none", userStream}
  /\ UNCHANGED <<toLoad, call, stream, exch, missed, base, emitted>>

\* disconnect(), with the event engine running or not.
MainDisconnect ==
  /\ Idle /\ CloseGateway
  /\ UNCHANGED <<engineVars, omsState, mainVars>>

\* After the join stop() closes a gateway that is connected.
MainStopEnd ==
  /\ StopEnd
  /\ CloseGateway \/ (phase # "up" /\ UNCHANGED vars)
  /\ UNCHANGED <<omsState, mainVars>>

\* The OMS handlers; nothing is registered for EVENT_TIMER.
HandleCurrent ==
  /\ Handled
  /\ \/ /\ current = TimerEvent
        /\ UNCHANGED <<omsState, tradesSeen>>
     \/ /\ current # TimerEvent /\ current.type = "eOrder"
        /\ ProcessOrderEvent(current.key, current.data)
        /\ UNCHANGED tradesSeen
     \/ /\ current # TimerEvent /\ current.type = "eTrade"
        /\ ProcessTradeEvent("", <<current.key, current.data>>)
        /\ tradesSeen' = [tradesSeen EXCEPT ![current.key] = @ + current.data]
  /\ UNCHANGED <<flowCount, blocked, starts, connects, told, vars>>

EngineThreads ==
  /\ Take \/ WorkerExit \/ TimerTick \/ TimerExit
  /\ UNCHANGED <<vars, omsState, mainVars>>

---------------------------------------------------------------------------

MainInit ==
  /\ Init /\ EngineInit /\ OmsInit
  /\ flowCount = 0 /\ blocked = {} /\ starts = 0 /\ connects = 0
  /\ tradesSeen = [k \in Keys |-> 0] /\ told = [k \in Keys |-> NoOrder]

AppStep ==
  \/ Connect \/ ConnectDone \/ (\E o \in toLoad : ConnectLoad(o))
  \/ \E r \in Requests : MainSendOrder(r) \/ MainSendUnconnected(r) \/ MainOrderBlocked(r)
                          \/ SendReturns(r)
  \/ \E r \in Ids : MainCancelOrder(r)
  \/ MainDisconnect \/ MainStart \/ MainStopBegin \/ MainStopEnd

MainNext == ExchangeStep \/ Receive \/ HandleCurrent \/ EngineThreads \/ AppStep

\* The two threads of the event engine run, the timer ticks, stop() gets its turn
\* once the threads have ended, and a socket that is up delivers.
MainFairness ==
  /\ WF_allVars(HandleCurrent)
  /\ WF_allVars(Take /\ UNCHANGED <<vars, omsState, mainVars>>)
  /\ WF_allVars((WorkerExit \/ TimerExit) /\ UNCHANGED <<vars, omsState, mainVars>>)
  /\ WF_allVars(TimerTick /\ UNCHANGED <<vars, omsState, mainVars>>)
  /\ WF_allVars(MainStopEnd)
  /\ WF_allVars(Receive)

MainSpec == MainInit /\ [][MainNext]_allVars /\ MainFairness

---------------------------------------------------------------------------
(* Properties *)

MainTypeOK ==
  /\ phase \in {"down", "loading", "up", "closed"}
  /\ orders \in [Keys -> OrderData \cup {NoOrder}]
  /\ EngineTypeOK(Event)
  /\ omsOrders \in [Keys -> OrderData \cup {NoOrder}]
  /\ omsActive \in [Keys -> [status : ActiveStatus, traded : 0..MaxVolume] \cup {NoOrder}]
  /\ flowCount \in 0..OrderFlowLimit
  /\ blocked \subseteq Requests
  /\ starts \in 0..MaxStarts /\ connects \in 0..MaxConnects
  /\ tradesSeen \in [Keys -> Nat]
  /\ told \in [Keys -> OrderData \cup {NoOrder}]

\* The line of events to the OMS: place 0 is the one the worker holds, the rest
\* are queued behind it.
At(i) == IF i = 0 THEN current ELSE queue[i]
IsOrderOf(e, k) == e \notin {NoEvent, TimerEvent} /\ e.type = "eOrder" /\ e.key = k
Pending(k) == {i \in 0..Len(queue) : IsOrderOf(At(i), k)}

\* o is what the OMS has of order k once everything in the line is applied.
Latest(k, o) ==
  \/ Pending(k) = {} /\ o = omsOrders[k]
  \/ \E i \in Pending(k) : o = At(i).data /\ \A j \in Pending(k) : j <= i

\* MainEngine::connect forwards every order update and the queue keeps their
\* order, over every stop, start and reconnection: applying what is queued makes
\* the OMS agree with what the gateway last said of each order, and that is what
\* its orders_ hold, except for the orders a close() has made it forget.
OmsFollowsGateway ==
  \A k \in Keys : Latest(k, told[k]) /\ (orders[k] # NoOrder => told[k] = orders[k])

\* With nothing of an order pending, get_all_active_orders() has it exactly when
\* it is active in the gateway's orders_, and as it is there, whatever was queued,
\* stopped and restarted before.  An order a close() has made the gateway forget
\* stays as it was last known: closing tells the OMS nothing, so what was active
\* then stays on the list until a reconnection loads it again.
Known(k) == IF orders[k] # NoOrder THEN orders[k] ELSE told[k]
ActiveOrdersAgree ==
  \A k \in Keys :
    Pending(k) = {} => omsActive[k] = (IF IsActive(Known(k)) THEN Known(k) ELSE NoOrder)

\* Whoever reads a fill from the OMS has been handed the trades it consists of, up
\* to the volume connect() or a first report stored without one: the trade is
\* reported before the order, and the queue keeps it so over stops and starts.
TradesBeforeOrders ==
  \A k \in Keys : omsOrders[k].traded <= base[k] + tradesSeen[k]

\* Once stop() has returned, no handler runs and the OMS stands still until the
\* next start(): stop() joins the worker before it returns.
QuietAfterStop == [][owner = "free" /\ ~active => UNCHANGED omsState]_allVars

\* stop() returns: the worker leaves its loop with events still queued, and the
\* timer thread after its sleep.
StopReturns == owner = "joining" ~> owner = "free"

\* A fill the gateway knows of reaches the OMS unless the engine is stopped.
FillReachesOms ==
  \A r \in Ids : orders[ExchangeId(r)].status = "ALLTRADED" ~>
    (omsOrders[ExchangeId(r)].status = "ALLTRADED" \/ ~active)

\* What RiskConfig says of order_flow_limit, "Max orders per window": while the
\* engine runs and its timer ticks, a window that is used up opens again.
FlowWindowReopens ==
  (active /\ flowCount = OrderFlowLimit) ~> (~active \/ flowCount < OrderFlowLimit)
============================================================================
