SPECIFICATION Spec
CONSTANTS
  p1 = p1  p2 = p2  s1 = s1
  Requests = {p1, p2}
  Ids = {1, 2}
  Command <- MCCommand  After <- MCAfter
  MaxHosts = 2
  MaxCalls <- MCCalls  First = 4  Second = 1
  MaxFrame = 2
  MaxFaults = 1
PROPERTIES NoReplayAfterHostLoss
CHECK_DEADLOCK FALSE
