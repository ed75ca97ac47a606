----------------------------- MODULE OmsEngine -----------------------------
(* OmsEngine (engine/main_engine.cpp): the last order and trade events by id.  *)
(* Every handler and every query takes data_mutex_, so each is atomic.         *)
EXTENDS OrderTypes

CONSTANTS OmsKeys, OmsNoOrder

VARIABLES
  omsOrders,   \* orders_
  omsActive,   \* active_orders_
  omsTrades    \* trades_, keyed by tradeid

OmsInit ==
  /\ omsOrders = [k \in OmsKeys |-> OmsNoOrder]
  /\ omsActive = [k \in OmsKeys |-> OmsNoOrder]
  /\ omsTrades = <<>>

\* Mutants: every order is put on the active list; a finished one stays there.
ProcessOrderEventAllActive(k, o) ==
  /\ omsOrders' = [omsOrders EXCEPT ![k] = o]
  /\ omsActive' = [omsActive EXCEPT ![k] = o]
  /\ UNCHANGED omsTrades

ProcessOrderEventKeepActive(k, o) ==
  /\ omsOrders' = [omsOrders EXCEPT ![k] = o]
  /\ omsActive' = IF IsActive(o) THEN [omsActive EXCEPT ![k] = o] ELSE omsActive
  /\ UNCHANGED omsTrades

ProcessOrderEvent(k, o) ==
  /\ omsOrders' = [omsOrders EXCEPT ![k] = o]
  /\ omsActive' = [omsActive EXCEPT ![k] = IF IsActive(o) THEN o ELSE OmsNoOrder]
  /\ UNCHANGED omsTrades

\* trades_[trade.tradeid] = trade
ProcessTradeEvent(tradeid, t) ==
  /\ omsTrades' = [i \in DOMAIN omsTrades \cup {tradeid} |->
                     IF i = tradeid THEN t ELSE omsTrades[i]]
  /\ UNCHANGED <<omsOrders, omsActive>>
============================================================================
