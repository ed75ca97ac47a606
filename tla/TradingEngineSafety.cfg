CONSTANTS
  b1 = b1
  b2 = b2
  s1 = s1
  Requests = {b1, b2, s1}
  Left = {}
  MaxVolume = 1
  UserStreamBound = TRUE
  OrderFlowLimit = 1
  OrderFlowClear = 1
  OrderSizeLimit = 1
  TradeLimit = 3
  ActiveOrderLimit = 2
  OrderCancelLimit = 3
  PreventSelfTrade = TRUE
  Long <- MCLong
  PriceOf <- MCPriceOf
SPECIFICATION TradingSpec
CHECK_DEADLOCK FALSE
INVARIANTS BookCoversOpen ActiveOrdersBounded
PROPERTIES NoSelfTrade
