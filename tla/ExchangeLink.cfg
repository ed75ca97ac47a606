CONSTANTS
  r1 = r1
  l1 = l1
  Requests = {r1}
  Left = {l1}
  MaxVolume = 3
  UserStreamBound = TRUE
  btcTicker = btcTicker
  ethTicker = ethTicker
  btcDepth = btcDepth
  Stream <- MCStream
  Supported <- MCSupported
  MaxAttempts = 2
  MaxCalls = 4
  MaxFaults = 2
SPECIFICATION LinkSpec
INVARIANTS TypeOK NoTradeInvented TradesAccountForCache CacheConverges StatusConverges
INVARIANTS ConnTypeOK SubscriptionsAgree ClosedClean
PROPERTIES TradedNeverDecreases FilledIsSeen IsFeed FeedRecovers CleanCloseReturns
CHECK_DEADLOCK FALSE
