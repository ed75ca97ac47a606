-------------------------- MODULE MCSimulatedTrading --------------------------
(* What trades without an exchange, one part at a time: `desk` says which.  The *)
(* grid strategy on the paper broker, the backtesting broker alone, with its    *)
(* two templates and with the built-in strategies, the offset converter, the    *)
(* paper account, a strategy's context, the optimizer and the statistics.       *)
EXTENDS PaperTrading, TargetPosition, OffsetConverter, ValidationStrategy, BuiltinStrategies,
        PaperAccount, StrategyContext, OptimizerRuns, PerformanceStats

VARIABLE desk
Desks == {"grid", "backtest", "target", "validation", "builtin",
          "offset", "paper", "context", "optimizer", "statistics"}
strategyVars == <<templateVars, validationVars, builtinVars>>
brokerageVars == <<btVars, strategyVars>>
ledgerVars == <<offsetVars, paperAccountVars, contextVars>>
judgeVars == <<optimizerVars, performanceVars>>
deskVars == <<desk, paperVars, brokerageVars, ledgerVars, judgeVars>>

\* A desk that does not trade starts in one of its initial states only.
DeskInit ==
  /\ desk \in Desks
  /\ PaperInit /\ TargetInit /\ ValidationInit /\ BuiltinInit
  /\ OffsetInit /\ PaperAccountInit /\ ContextInit /\ OptimizerInit /\ PerformanceInit
  /\ desk \notin {"backtest", "target", "validation", "builtin"} => ~allowShort
  /\ desk # "target" => target = 0
  /\ desk # "builtin" => builtin = "Rsi"
  /\ desk # "offset" => splitsToday
  /\ desk # "optimizer" => metric = [c \in Combinations |-> 1]

P(n) == 27720 * n
LowClose == [open |-> P(2), low |-> P(1), high |-> P(2), close |-> P(1)]

NoStrategy == UNCHANGED strategyVars
NoLedger == UNCHANGED <<desk, paperVars, brokerageVars, judgeVars>>
NoBrokerage == UNCHANGED <<desk, paperVars, ledgerVars, judgeVars>>

\* Bound: only the built-in strategies, which send nothing, have the full number
\* of bars and the bar that closes low.
FewBars == bars' <= 3 /\ bar' # LowClose

GridTrades == desk = "grid" /\ PaperNext /\ UNCHANGED <<desk, brokerageVars, ledgerVars, judgeVars>>
BacktestTrades == desk = "backtest" /\ BacktestNext /\ FewBars /\ NoStrategy /\ NoBrokerage
TargetTrades ==
  desk = "target" /\ TargetNext /\ FewBars /\ UNCHANGED <<validationVars, builtinVars>> /\ NoBrokerage
ValidationTrades ==
  desk = "validation" /\ ValidationNext /\ FewBars /\ UNCHANGED <<templateVars, builtinVars>> /\ NoBrokerage
BuiltinTrades ==
  desk = "builtin" /\ BuiltinNext /\ UNCHANGED <<templateVars, validationVars>> /\ NoBrokerage
OffsetTrades == desk = "offset" /\ OffsetNext /\ NoLedger /\ UNCHANGED <<paperAccountVars, contextVars>>
AccountTrades == desk = "paper" /\ PaperAccountNext /\ NoLedger /\ UNCHANGED <<offsetVars, contextVars>>
ContextTrades == desk = "context" /\ ContextNext /\ NoLedger /\ UNCHANGED <<offsetVars, paperAccountVars>>
Optimizes ==
  /\ desk = "optimizer" /\ OptimizerNext
  /\ UNCHANGED <<desk, paperVars, brokerageVars, ledgerVars, performanceVars>>
Judges ==
  /\ desk = "statistics" /\ PerformanceNext
  /\ UNCHANGED <<desk, paperVars, brokerageVars, ledgerVars, optimizerVars>>

DeskNext ==
  \/ GridTrades \/ BacktestTrades \/ TargetTrades \/ ValidationTrades \/ BuiltinTrades
  \/ OffsetTrades \/ AccountTrades \/ ContextTrades \/ Optimizes \/ Judges

DeskSpec == DeskInit /\ [][DeskNext]_deskVars

\* The desk of the built-in strategies alone.
BuiltinSpec == (DeskInit /\ desk = "builtin") /\ [][DeskNext]_deskVars

\* The books of the backtest, of the paper account and of a strategy's context.
AccountsBalance == BooksBalance /\ PaperAccountBalances /\ ContextBalances

\* No order is filled twice or lost, by either broker.
OrdersSettle == FilledOnce /\ PaperOrdersSettle

\* Each strategy on the backtesting broker agrees with it while nobody else sends
\* orders: the template's ids and target, the validation strategy's books.
StrategiesAgree ==
  /\ desk = "target" => TargetAgrees
  /\ desk = "validation" => BooksMatchBroker

\* What a backtest and an optimization return is what ran.
ResultsAgree == OptimizerKeepsBest /\ StatisticsAgree

MCPrices == 0..3
MCBarShapes == {[open |-> P(2), low |-> P(1), high |-> P(3), close |-> P(2)],
                [open |-> P(3), low |-> P(2), high |-> P(4), close |-> P(4)], LowClose}
MCOrderPrices == {P(1), P(3)}
MCTargets == {-1, 0, 1, 3}
MCExitPrices == {P(2)}
MCQuotePrices == [s \in {"BTCUSDT", "ETHUSDT"} |-> IF s = "BTCUSDT" THEN {42000, 84000} ELSE {42000}]
MCParamValues == [fast |-> {1, 2, 3}, slow |-> {4}]
MCMetricValues == {-1, 1, 2}
MCQuoteTicks == {[last |-> 42000, bid |-> 0, ask |-> 0], [last |-> 84000, bid |-> 42000, ask |-> 84000]}
=============================================================================
