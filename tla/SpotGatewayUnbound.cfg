CONSTANTS
  r1 = r1
  l1 = l1
  Requests = {r1}
  Left = {l1}
  MaxVolume = 2
  UserStreamBound = FALSE
SPECIFICATION Spec
CHECK_DEADLOCK FALSE
PROPERTY OrderUpdatesArrive
