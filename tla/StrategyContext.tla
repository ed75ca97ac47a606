---------------------------- MODULE StrategyContext ----------------------------
(* StrategyContext (engine/strategy_context.cpp): what one strategy holds and    *)
(* earned, kept from its trades, and saved and loaded over a restart.  Orders    *)
(* and trades are only remembered.  Prices are multiples that every average      *)
(* divides: total_cost_ is a sum of trade values.                                *)
EXTENDS Integers

CONSTANTS
  ContextPrices,   \* prices of the trades
  ContextVolumes,  \* and volumes
  MaxContextTrades, MaxLoads  \* bounds
ASSUME ContextAssumption ==
  /\ ContextPrices \subseteq Nat \ {0} /\ ContextVolumes \subseteq Nat \ {0}
  /\ MaxContextTrades \in Nat /\ MaxLoads \in Nat

VARIABLES
  context,     \* position_direction_, position_, avg_price_, total_cost_, realized_pnl_
  savedState,  \* what save_state() wrote last, with the history of then
  contextTrades, loads,  \* trades and loads so far
  paid,        \* history: what was paid for buys less what sells brought
  phantom,     \* history: the part of the profit that is not there
  turned       \* history: the position of a loaded state has another side than it had

contextVars == <<context, savedState, contextTrades, loads, paid, phantom, turned>>

NoContext == [direction |-> "NET", position |-> 0, avg |-> 0, cost |-> 0, pnl |-> 0]
ContextInit ==
  /\ context = NoContext
  /\ savedState = [position |-> 0, avg |-> 0, pnl |-> 0, direction |-> "NET", paid |-> 0, phantom |-> 0]
  /\ contextTrades = 0 /\ loads = 0 /\ paid = 0 /\ phantom = 0 /\ turned = FALSE

OtherSide(direction) == IF direction = "LONG" THEN "SHORT" ELSE "LONG"
SignOf(direction) == IF direction = "LONG" THEN 1 ELSE -1

\* Mutant: a trade for the rest of the position and more opens with all its volume.
ClosedByOpensAll(c, direction, price, volume) ==
  LET closes == IF volume < c.position THEN volume ELSE c.position
      pnl == c.pnl + closes * SignOf(c.direction) * (price - c.avg) IN
  IF volume > c.position
  THEN [direction |-> direction, position |-> volume, avg |-> price, cost |-> price * volume, pnl |-> pnl]
  ELSE IF volume = c.position THEN [NoContext EXCEPT !.pnl = pnl]
  ELSE [c EXCEPT !.position = @ - closes, !.pnl = pnl]

\* A trade against the position closes the smaller of the two volumes and opens the
\* rest at its price.  A partial close leaves total_cost_ as it is.
ClosedBy(c, direction, price, volume) ==
  LET closes == IF volume < c.position THEN volume ELSE c.position
      pnl == c.pnl + closes * SignOf(c.direction) * (price - c.avg) IN
  IF volume > c.position
  THEN [direction |-> direction, position |-> volume - closes, avg |-> price,
        cost |-> price * (volume - closes), pnl |-> pnl]
  ELSE IF volume = c.position THEN [NoContext EXCEPT !.pnl = pnl]
  ELSE [c EXCEPT !.position = @ - closes, !.pnl = pnl]

AddedBy(c, direction, price, volume) ==
  [c EXCEPT !.direction = direction, !.position = @ + volume, !.cost = @ + price * volume,
            !.avg = (c.cost + price * volume) \div (c.position + volume)]

\* What total_cost_ has beyond the cost of the position when a trade adds to it.
StaleCost(c) == c.cost - c.avg * c.position

UpdatePositionByTrade(direction, price, volume) ==
  LET closing == context.direction = OtherSide(direction) /\ context.position > 0 IN
  /\ contextTrades < MaxContextTrades /\ contextTrades' = contextTrades + 1
  /\ context' = IF closing THEN ClosedBy(context, direction, price, volume)
                ELSE AddedBy(context, direction, price, volume)
  /\ paid' = paid + SignOf(direction) * price * volume
  /\ phantom' = IF closing THEN phantom ELSE phantom + SignOf(direction) * StaleCost(context)
  /\ UNCHANGED <<savedState, loads, turned>>

\* The volume is saved without its side, and total_cost_ is not saved.
SaveState ==
  /\ savedState' = [position |-> context.position, avg |-> context.avg, pnl |-> context.pnl,
                    direction |-> context.direction, paid |-> paid, phantom |-> phantom]
  /\ UNCHANGED <<context, contextTrades, loads, paid, phantom, turned>>

\* A new context after a restart, and load_state() on it.
LoadState ==
  /\ loads < MaxLoads /\ loads' = loads + 1
  /\ context' = [direction |-> IF savedState.position > 0 THEN "LONG" ELSE "NET",
                 position |-> savedState.position, avg |-> savedState.avg, cost |-> 0, pnl |-> savedState.pnl]
  /\ paid' = savedState.paid /\ phantom' = savedState.phantom
  /\ turned' = (turned \/ savedState.direction = "SHORT")
  /\ UNCHANGED <<savedState, contextTrades>>

ContextNext ==
  \/ \E direction \in {"LONG", "SHORT"}, price \in ContextPrices, volume \in ContextVolumes :
       UpdatePositionByTrade(direction, price, volume)
  \/ SaveState \/ LoadState
-----------------------------------------------------------------------------
UnrealizedPnl(price) ==
  IF context.position <= 0 THEN 0
  ELSE IF context.direction = "LONG" THEN (price - context.avg) * context.position
  ELSE (context.avg - price) * context.position
TotalPnl(price) == context.pnl + UnrealizedPnl(price)

SignedPosition == IF context.direction = "LONG" THEN context.position ELSE - context.position

\* At any price the profit the context tells is what its position is worth less what
\* was paid for it, through adds, partial closes, flips and a restart, but for two
\* flaws: a position that was closed in part, or loaded, has a stale total cost, which
\* the next trade that adds to it takes into the average; a short loads as a long.
ContextBalances ==
  turned \/ \A price \in ContextPrices : TotalPnl(price) = price * SignedPosition - paid - phantom
=============================================================================
