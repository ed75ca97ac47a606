--------------------------- MODULE TargetPosition ---------------------------
(* TargetPosTemplate (engine/strategy.cpp): a strategy that names a target     *)
(* position and lets the template trade towards it, on the backtesting broker. *)
(* position() is the broker's volume, which has no sign.                       *)
EXTENDS BacktestBroker

CONSTANTS
  Targets,  \* positions the strategy asks for
  TickAdd   \* tick_add_
ASSUME TargetAssumption == Targets \subseteq Int /\ TickAdd \in Nat

VARIABLES
  target,                \* target_pos_
  activeIds, cancelIds,  \* active_orderids_, cancel_orderids_
  sentFor, everShort     \* history: the target of the last order; some target was negative

templateVars == <<target, activeIds, cancelIds, sentFor, everShort>>
targetVars == <<btVars, templateVars>>

\* A target named in on_init finds trading_ false: buy() returns 0, which is
\* kept as the id of an order.
TargetInit ==
  /\ BacktestInit
  /\ \/ target = 0 /\ activeIds = {}
     \/ target \in Targets \ {0} /\ activeIds = {0}
  /\ cancelIds = {} /\ sentFor = 0 /\ everShort = (target < 0)

CancelOldOrders ==
  /\ activeIds # {} /\ cancelIds' = cancelIds \cup activeIds
  /\ LET live == (activeIds \ cancelIds) \cap DOMAIN active IN
     IF live = {} THEN UNCHANGED btVars ELSE \E id \in live : CancelOrder("limit", id)
  /\ UNCHANGED <<activeIds, sentFor>>

\* Before the first bar there is no price to take.
Price(sign) == IF bar = NoBar THEN 0 ELSE bar.close + sign * TickAdd

\* A refused short_order() returns 0 as well.
SendNewOrders(t) ==
  LET change == t - position.volume IN
  /\ activeIds = {}
  /\ \/ change = 0 /\ UNCHANGED <<btVars, activeIds, sentFor>>
     \/ change > 0 /\ SendLimitOrder("LONG", TRUE, Price(1), change)
        /\ activeIds' = {limitCount'} /\ sentFor' = t
     \/ change < 0 /\ allowShort /\ SendLimitOrder("SHORT", TRUE, Price(-1), - change)
        /\ activeIds' = {limitCount'} /\ sentFor' = t
     \/ change < 0 /\ ~allowShort /\ activeIds' = {0} /\ UNCHANGED <<btVars, sentFor>>
  /\ UNCHANGED cancelIds

\* Called from on_start and on_bar; trade() cancels what is open or sends what is missing.
SetTargetPos(t) ==
  /\ phase = "bar" /\ target' = t /\ everShort' = (everShort \/ t < 0)
  /\ CancelOldOrders \/ SendNewOrders(t)

\* Mutant: on_order() drops the order at any update.
MatchDropsAny ==
  /\ MatchStep
  /\ activeIds' = activeIds \ (IF phase = "limits" THEN {current'} ELSE {})
  /\ UNCHANGED <<target, cancelIds, sentFor, everShort>>

\* on_order() drops an order that is filled; a cancel is never reported.
Match ==
  /\ MatchStep
  /\ activeIds' = {id \in activeIds : id \in DOMAIN active' => active'[id].status # "ALLTRADED"}
  /\ UNCHANGED <<target, cancelIds, sentFor, everShort>>

TargetNext == Match \/ \E t \in Targets : SetTargetPos(t)
TargetSpec == TargetInit /\ [][TargetNext]_targetVars
-----------------------------------------------------------------------------
OpenIds == {id \in DOMAIN active : active[id].status # "ALLTRADED"}

\* While no target is negative, an open order brings the position exactly to the
\* target it was sent for, and with none open or cancelled the position is there.
\* The template waits for an order that is gone only if it cancelled it or never
\* got an id: then it is stuck, since neither is ever reported to it.
TargetAgrees ==
  ~everShort =>
    /\ OpenIds \subseteq activeIds /\ Cardinality(activeIds) <= 1
    /\ \A id \in OpenIds :
         sentFor = position.volume + (IF active[id].side = "LONG" THEN 1 ELSE -1) * active[id].volume
    /\ OpenIds = {} /\ cancelIds \subseteq {0} => position.volume = sentFor
    /\ activeIds \ OpenIds \subseteq cancelIds \cup {0}
============================================================================
