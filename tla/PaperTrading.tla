---------------------------- MODULE PaperTrading ----------------------------
(* Paper trading as the application wires it: the market data thread feeds     *)
(* ticks to the paper broker and bars to the broker and then, through the      *)
(* strategy manager (engine/strategy_manager.cpp), to the grid strategy, which *)
(* sends its orders straight to the broker.  The main thread runs the          *)
(* strategy's life cycle; the manager's mutex keeps the two apart.             *)
(*                                                                             *)
(* Nothing tells the strategy what became of its orders: it books a position   *)
(* when it places the order.                                                   *)
EXTENDS GridMartin

CONSTANTS MaxOrders   \* bound: volume the strategy sends in one behaviour
ASSUME OrdersAssumption == MaxOrders \in Nat

VARIABLES
  status,    \* the strategy's StrategyStatus
  running,   \* wrapper->trading
  placedVolume  \* volume sent so far

paperVars == <<analyzerVars, brokerVars, gridVars, status, running, placedVolume>>

PaperInit ==
  /\ AnalyzerInit /\ BrokerInit /\ GridInit
  /\ status = "CREATED" /\ running = FALSE /\ placedVolume = 0

InitStrategy ==
  /\ status \in {"CREATED", "STOPPED"}
  /\ status' = "READY"
  /\ OnInit
  /\ UNCHANGED <<running, placedVolume>>

StartStrategy ==
  /\ inited /\ status # "RUNNING"
  /\ status' = "RUNNING" /\ running' = TRUE
  /\ OnStart
  /\ UNCHANGED placedVolume

\* on_stop is the empty default: the strategy's own trading_ is left as it is.
StopStrategy ==
  /\ status = "RUNNING"
  /\ status' = "STOPPED" /\ running' = FALSE
  /\ UNCHANGED <<analyzerVars, brokerVars, gridVars, placedVolume>>

\* PaperBroker::on_tick, with the bid and the ask of the tick
Tick ==
  /\ \E bid, ask \in Prices : bid <= ask /\ TryFillOrders(bid, ask)
  /\ UNCHANGED <<analyzerVars, gridVars, status, running, placedVolume>>

\* The bar's fills are a Tick with bid and ask at the close; here is what
\* follows, StrategyManager::on_bar.
BarWith(verdict) ==
  /\ running
  /\ \E price \in Prices : OnBar(price, verdict)
  /\ LET sent == SubSeq(openOrders', Len(openOrders) + 1, Len(openOrders'))
     IN placedVolume' = placedVolume + FoldLeft(LAMBDA v, o : v + o.volume, 0, sent)
  /\ placedVolume' <= MaxOrders
  /\ UNCHANGED <<status, running>>

Bar == \E verdict \in Verdict : BarWith(verdict)

PaperNext == InitStrategy \/ StartStrategy \/ StopStrategy \/ Tick \/ Bar

\* Bars keep coming, and the market does not trend for ever.
PaperSpec == PaperInit /\ [][PaperNext]_paperVars /\ WF_paperVars(BarWith("CONSOLIDATION"))

---------------------------------------------------------------------------
(* Properties *)

\* The strategy's four records of what it holds agree: buy_queue_ names each held
\* grid exactly once, no grid is held twice, and total_position_ is their sum.
HoldingsAgree ==
  /\ gridPositions \in [Grids -> {0, 1}]
  /\ Range(buyQueue) = {g \in Grids : gridPositions[g] = 1}
  /\ IsInjective(buyQueue)
  /\ total = Len(buyQueue)

\* Whenever trading_ is off, after a stop loss, a transition to TRENDING or before
\* the first start, the strategy believes to hold nothing: it never pauses on a
\* position it would not watch.
PausedIsFlat == ~trading => total = 0 /\ buyQueue = <<>>

\* What the broker holds, once the open orders are filled, is what the strategy
\* books, but for two leaks: a transition to CONSOLIDATION forgets what is held,
\* and a sell that fills before its buy sells what the account has not got.
HoldingsExplained ==
  heldVolume + NetVolume(openOrders) = total + abandoned + conjured

\* A market state other than WAITING is entered only after confirmation_bars bars
\* in a row with that verdict, though the buffer fills up and on_init starts over.
Confirmed ==
  [][state' # state /\ state' # "WAITING" =>
       streak'.verdict = state' /\ streak'.length >= ConfirmationBars]_paperVars

\* What transition_to_trending logs, "Trading paused, waiting for consolidation":
\* with narrow bars arriving for ever, a strategy that runs trades again.
PauseEnds == (running /\ market = "TRENDING") ~> (~running \/ trading)
============================================================================
