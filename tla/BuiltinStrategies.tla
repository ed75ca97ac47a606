--------------------------- MODULE BuiltinStrategies ---------------------------
(* The built-in strategies (strategy/builtin_strategies.cpp) on the backtesting  *)
(* broker: each bar moves an indicator, and a crossing of its levels reverses    *)
(* the position with limit orders at the close.  An indicator is the zone its    *)
(* values are in: any zone may follow any other, but for the turtle's, which is  *)
(* computed from the bar alone.                                                  *)
(*                                                                               *)
(* buy() and the other calls of IStrategy (engine/strategy.cpp) send nothing     *)
(* while trading_ is false.  A strategy has to set it in on_start; the built-in  *)
(* ones have no on_start, and neither the broker nor the managers set it.        *)
EXTENDS BacktestBroker, Sequences

CONSTANTS
  Unit,        \* the volume 1.0 of an entry
  ScaledUnits  \* the volumes 0.1 to 1.0 an ATR scales an entry to
ASSUME BuiltinAssumption == Unit \in Nat \ {0} /\ ScaledUnits \subseteq 1..Unit

VARIABLES
  builtin,         \* the name StrategyFactory made the strategy by
  builtinTrading,  \* IStrategy::trading_
  zone,            \* where the indicator was at the last bar
  plan,            \* what on_bar has still to send
  signalDue        \* on_bar has still to run

builtinVars == <<builtin, builtinTrading, zone, plan, signalDue>>

Builtins == {"DoubleMa", "Rsi", "Bollinger", "AtrRsi", "Turtle"}

\* fast_ma0_ and slow_ma0_ start equal, current_rsi_ between its levels.
BuiltinInit ==
  /\ builtin \in Builtins /\ builtinTrading = FALSE /\ zone = "between"
  /\ plan = << >> /\ signalDue = FALSE

-----------------------------------------------------------------------------
(* What each strategy makes of a new zone: "up", "down", "leave" or "none".      *)

\* The fast average against the slow one: "below", "between" when equal, "above".
DoubleMaSignal(new) ==
  IF new = "above" /\ zone # "above" THEN "up"
  ELSE IF new = "below" /\ zone # "below" THEN "down" ELSE "none"

\* The RSI against the oversold and the overbought level: entering a zone counts.
RsiSignal(new) ==
  IF new = "below" /\ zone # "below" THEN "up"
  ELSE IF new = "above" /\ zone # "above" THEN "down" ELSE "none"

\* The same without the previous value: every bar in a zone counts.
AtrRsiSignal(new) == CASE new = "below" -> "up" [] new = "above" -> "down" [] OTHER -> "none"

\* The close against the three bands; "between" is what a long exits at.
BollingerSignal(new) ==
  CASE new = "above" -> "up" [] new = "below" -> "down" [] new = "between" -> "leave" [] OTHER -> "none"

\* The close against this bar's own high and low, else against its open, less or
\* plus an ATR.
TurtleSignal(new) ==
  IF 100 * bar.close > 99 * bar.high THEN "up"
  ELSE IF 100 * bar.close < 101 * bar.low THEN "down"
  ELSE IF new = "between" /\ bar.close < bar.open THEN "leave" ELSE "none"

SignalOf(new) ==
  CASE builtin = "DoubleMa" -> DoubleMaSignal(new)
    [] builtin = "Rsi" -> RsiSignal(new)
    [] builtin = "Bollinger" -> BollingerSignal(new)
    [] builtin = "AtrRsi" -> AtrRsiSignal(new)
    [] builtin = "Turtle" -> TurtleSignal(new)

\* What on_bar sends: a limit order at the close.
Order(side, opens, volume) == [side |-> side, opens |-> opens, volume |-> volume]

\* The orders of a signal.  position() is the broker's unsigned volume, so that no
\* strategy ever finds itself short: it covers nothing, and a short looks long.
\* short_order() of a broker that refuses shorts does nothing.
Orders(signal, entry) ==
  LET pos == position.volume
      exits == IF pos > 0 THEN <<Order("SHORT", FALSE, pos)>> ELSE << >>
      entries == IF allowShort THEN <<Order("SHORT", TRUE, entry)>> ELSE << >> IN
  CASE signal = "up" /\ pos = 0 -> <<Order("LONG", TRUE, entry)>>
    [] signal = "down" -> exits \o entries
    [] signal = "leave" -> exits
    [] OTHER -> << >>

BuiltinOnBar ==
  /\ signalDue /\ signalDue' = FALSE
  /\ \E new \in {"below", "between", "betweenAbove", "above"},
        entry \in IF builtin = "AtrRsi" THEN ScaledUnits ELSE {Unit} :
       zone' = new /\ plan' = Orders(SignalOf(new), entry)
  /\ UNCHANGED <<btVars, builtin, builtinTrading>>

\* The calls of one on_bar follow each other at once.
SendPlanned ==
  /\ plan # << >> /\ plan' = Tail(plan)
  /\ IF builtinTrading
     THEN SendLimitOrder(Head(plan).side, Head(plan).opens, bar.close, Head(plan).volume)
     ELSE UNCHANGED btVars
  /\ UNCHANGED <<builtin, builtinTrading, zone, signalDue>>

\* No callback of theirs does anything: the walks are the broker's alone.
BrokerMatches ==
  /\ plan = << >> /\ ~signalDue
  /\ MatchStep
  /\ signalDue' = (phase' = "bar" /\ phase # "bar")
  /\ UNCHANGED <<builtin, builtinTrading, zone, plan>>

BuiltinNext == BuiltinOnBar \/ SendPlanned \/ BrokerMatches
-----------------------------------------------------------------------------
\* What IStrategy says of on_start, "Strategy is ready to trade after this
\* callback": what the signal of a bar makes on_bar send is an order in the book.
SignalsAreSent ==
  [][plan # << >> /\ plan' = Tail(plan) =>
       limitCount' = limitCount + 1 /\ limitCount' \in DOMAIN active']_<<btVars, builtinVars>>
=============================================================================
