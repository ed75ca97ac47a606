-------------------------- MODULE MCTradingEngine --------------------------
(* The instance of TradingEngine TLC checks: a buy and a sell that can rest     *)
(* side by side, and a second buy that may cross the sell.                      *)
EXTENDS TradingEngine

CONSTANTS b1, b2, s1

MCLong == [r \in Requests |-> r # s1]
MCPriceOf == [r \in Requests |-> CASE r = b1 -> {1} [] r = s1 -> {2} [] OTHER -> {1, 2}]
=============================================================================
