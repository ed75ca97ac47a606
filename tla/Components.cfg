SPECIFICATION Spec
CONSTANTS
  w1 = w1
  w2 = w2
  Workers <- MCWorkers
  MaxTasks = 2
  MaxPauses = 1
  MaxPoolStops = 1
  t1 = t1
  t2 = t2
  LogThreads <- MCLogThreads
  MaxLogged = 2
  MaxSwitches = 3
  TickTimes = {0, 2, 3, 4, 6}
  TickPrices = {1, 2}
  Starts <- MCStarts
  BarLength = 2
  WindowSize = 2
  MaxTicks = 4
  StrategyNames = {"a", "b"}
  DataSymbols = {"BTC"}
  MaxRouted = 2
  MaxAdded = 3
  Capacity = 3
  BarValues = {1, 2}
  MaxUpdates = 5
  RawPrices = {0, 1000, 1040, 2000}
  Alpha = 1
  Threshold = 5
  MaxMoves = 2
  c1 = c1
  c2 = c2
  Clients <- MCClients
  RowTimes = {1, 2}
  MaxSaves = 2
  MaxCrashes = 1
  FeedSymbols = {"BTC"}
  IdBlock = 2
  MaxClock = 1
  MaxConnects = 2
  MaxUsdtOrders = 3
  MaxOkxOrders = 2
  OrderSize = 2
  MaxCounted = 4
  OmsKeys = {"id1"}
  OmsNoOrder = OmsNoOrder
  GatewayNames = {"A", "B"}
  RecordSymbol = "BTC"
  ReportedKinds = {"order", "trade", "position"}
  MaxAddedGateways = 2
  MaxReported = 3
INVARIANTS BarsMatchTicks RoutingAgrees BuffersAgree StoreSurvives ReportsAgree
PROPERTIES PoolReturns LoggerDrains SmootherCatchesUp
CHECK_DEADLOCK FALSE
