SPECIFICATION BuiltinSpec
CONSTANTS
  Period = 2
  ConfirmationBars = 2
  GridCount = 3
  BasePrice = 2
  Prices <- MCPrices
  MaxOrders = 3
  BarShapes <- MCBarShapes
  OrderPrices <- MCOrderPrices
  Lots = {1, 2}
  Slip = 27720
  MaxSent = 2
  MaxBars = 5
  Targets <- MCTargets
  TickAdd = 27720
  MaxPosition = 2
  ExitPrices <- MCExitPrices
  RequestVolumes = {1, 2}
  HeldTd = 1
  HeldYd = 1
  MaxOffsetOrders = 2
  PaperSymbols = {"BTCUSDT", "ETHUSDT"}
  DefaultSymbol = "BTCUSDT"
  QuotePrices <- MCQuotePrices
  QuoteTicks <- MCQuoteTicks
  PaperVolumes = {1, 2}
  CostPart = 10
  MaxPaperOrders = 3
  ContextPrices = {840, 1680}
  ContextVolumes = {1, 2}
  MaxContextTrades = 4
  MaxLoads = 1
  Unit = 2
  ScaledUnits = {1, 2}
  ParamValues <- MCParamValues
  NumThreads = 2
  MetricValues <- MCMetricValues
  MaxOptimizations = 2
  LogPrices = {840, 1680}
  LogVolumes = {1, 2}
  LogCommission = 840
  EquityValues = {1, 2, 3}
  MaxLogTrades = 4
  MaxRecorded = 5
PROPERTY SignalsAreSent
CHECK_DEADLOCK FALSE
