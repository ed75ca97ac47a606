CONSTANTS
  r1 = r1
  r2 = r2
  Requests = {r1}
  Left = {}
  MaxVolume = 1
  UserStreamBound = TRUE
  TimerEvent = TimerEvent
  NoEvent = NoEvent
  TimerBacklog = 1
  OrderFlowLimit = 1
  MaxStarts = 2
  MaxConnects = 2
SPECIFICATION MainSpec
CHECK_DEADLOCK FALSE
INVARIANTS MainTypeOK OmsFollowsGateway ActiveOrdersAgree TradesBeforeOrders
PROPERTIES QuietAfterStop StopReturns FillReachesOms
