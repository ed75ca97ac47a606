CONSTANTS
  Period = 2
  ConfirmationBars = 2
  GridCount = 3
  BasePrice = 2
  Prices = {0, 1, 2, 3}
  MaxOrders = 1
SPECIFICATION PaperSpec
CHECK_DEADLOCK FALSE
PROPERTIES PauseEnds
