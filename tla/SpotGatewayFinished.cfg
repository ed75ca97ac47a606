CONSTANTS
  r1 = r1
  l1 = l1
  Requests = {r1}
  Left = {l1}
  MaxVolume = 2
  UserStreamBound = TRUE
SPECIFICATION Spec
CHECK_DEADLOCK FALSE
PROPERTY FinishedStaysFinished
