---------------------------- MODULE MCComponents ----------------------------
(* The components that stand alone, one of them at a time: `unit` says which.  *)
EXTENDS ThreadPool, AsyncLogger, BarGenerator, StrategyRouting, PriceSmoother,
        DatabaseStore, SimulatedGateways, OmsRecords

VARIABLE unit
Units == {"pool", "logger", "bars", "routing", "ring", "smoother", "database", "usdt", "okx", "oms"}
workerVars == <<poolVars, logVars>>
dataVars == <<barVars, ringVars, smootherVars, databaseVars>>
tradingVars == <<routingVars, gatewayVars, recordVars>>
mcVars == <<unit, workerVars, dataVars, tradingVars>>

\* A unit that does not run starts in one of its initial states only.
Init ==
  /\ unit \in Units
  /\ PoolInit /\ LoggerInit
  /\ BarInit /\ RingInit /\ SmootherInit /\ DatabaseInit
  /\ RoutingInit /\ GatewaysInit /\ RecordsInit
  /\ unit # "bars" => starts = CHOOSE s \in Starts : TRUE
  /\ unit # "smoother" => ~confirms /\ marketPrice = 0

OthersThanThreads == UNCHANGED <<unit, dataVars, tradingVars>>
OthersThanData == UNCHANGED <<unit, workerVars, tradingVars>>
OthersThanTrading == UNCHANGED <<unit, workerVars, dataVars>>

Pool(step) == unit = "pool" /\ step /\ UNCHANGED logVars /\ OthersThanThreads
Logger(step) == unit = "logger" /\ step /\ UNCHANGED poolVars /\ OthersThanThreads
BarsRun == unit = "bars" /\ BarNext /\ UNCHANGED <<ringVars, smootherVars, databaseVars>> /\ OthersThanData
RingRuns == unit = "ring" /\ RingNext /\ UNCHANGED <<barVars, smootherVars, databaseVars>> /\ OthersThanData
Smoother(step) == unit = "smoother" /\ step /\ UNCHANGED <<barVars, ringVars, databaseVars>> /\ OthersThanData
DatabaseRuns ==
  unit = "database" /\ DatabaseNext /\ UNCHANGED <<barVars, ringVars, smootherVars>> /\ OthersThanData
RoutingRuns == unit = "routing" /\ RoutingNext /\ UNCHANGED <<gatewayVars, recordVars>> /\ OthersThanTrading
UsdtRuns == unit = "usdt" /\ UsdtNext /\ UNCHANGED <<routingVars, recordVars>> /\ OthersThanTrading
OkxRuns == unit = "okx" /\ OkxNext /\ UNCHANGED <<routingVars, recordVars>> /\ OthersThanTrading
OmsRuns == unit = "oms" /\ RecordsNext /\ UNCHANGED <<routingVars, gatewayVars>> /\ OthersThanTrading

Next ==
  \/ Pool(PoolNext) \/ Logger(LoggerNext)
  \/ BarsRun \/ RingRuns \/ Smoother(SmootherNext) \/ DatabaseRuns
  \/ RoutingRuns \/ UsdtRuns \/ OkxRuns \/ OmsRuns

\* The fairness of the components with threads, PoolFairness and LoggerFairness, and
\* of the ticks of a live market, SmootherFairness.
Fairness ==
  /\ \A w \in Workers : WF_mcVars(Pool(WorkerStep(w)))
  /\ WF_mcVars(Pool(CallerStep)) /\ WF_mcVars(Pool(ResumeNotifies))
  /\ WF_mcVars(Logger(LogWorkerStep)) /\ WF_mcVars(Logger(LogOwnerStep))
  /\ WF_mcVars(Smoother(Process))

Spec == Init /\ [][Next]_mcVars /\ Fairness

\* What the simulated gateways and the OMS answer is what was reported to them.
ReportsAgree == GatewaysAgree /\ OmsAnswers

MCStarts == {{0, 2, 4, 6}, {0, 3, 5}}
CONSTANTS w1, w2, t1, t2, c1, c2
MCWorkers == {w1, w2}
MCClients == {c1, c2}
MCLogThreads == {t1, t2}
============================================================================
