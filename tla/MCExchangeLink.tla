--------------------------- MODULE MCExchangeLink ---------------------------
(* The two parts that talk to an exchange, one of them at a time: `side` says   *)
(* which.  The spot gateway has one order a previous run left open and one      *)
(* request of this run, so that connect(), the REST reply and the reports of    *)
(* two orders interleave on the one stream; the WebSocket client two ticker     *)
(* streams and a depth stream, which do_subscribe does not know.                *)
EXTENDS SpotGateway, WebSocketClient

VARIABLE side   \* "gateway" or "client"
linkVars == <<side, vars, wsVars>>

GatewaySide(step) == side = "gateway" /\ step /\ UNCHANGED <<side, wsVars>>
ClientSide(step) == side = "client" /\ step /\ UNCHANGED <<side, vars>>

LinkInit == side \in {"gateway", "client"} /\ Init /\ ConnectionInit
LinkNext == GatewaySide(Next) \/ ClientSide(ConnectionNext)

\* The fairness of the two parts, Fairness and ConnectionFairness.
LinkFairness ==
  /\ WF_linkVars(GatewaySide(QueryOpenOrders \/ StartUserStream \/ ReceiveReport) \/ ClientSide(MonitorStep))
  /\ WF_linkVars(GatewaySide(\E o \in toLoad : LoadOpenOrder(o)) \/ ClientSide(AppStep))
  /\ WF_linkVars(ClientSide(IoStops))
  /\ WF_linkVars(ClientSide(Served = {} /\ MessageTimeout))

LinkSpec == LinkInit /\ [][LinkNext]_linkVars /\ LinkFairness

CONSTANTS r1, l1, btcTicker, ethTicker, btcDepth
MCStream == {btcTicker, ethTicker, btcDepth}
MCSupported == {btcTicker, ethTicker}
=============================================================================
