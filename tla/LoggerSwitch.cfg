SPECIFICATION LoggerSpec
CONSTANTS
  LogThreads = {"main"}
  MaxLogged = 1
  MaxSwitches = 1
PROPERTY SwitchReturns
CHECK_DEADLOCK FALSE
