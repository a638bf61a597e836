SPECIFICATION FairSpec
CONSTANTS
  p1 = p1  p2 = p2  s1 = s1
  Requests = {p1,p2}
  Ids = {1, 2, 3, 4, 5, 6, 7}
  Command <- MCCommand  After <- MCAfter
  MaxHosts = 2
  MaxCalls <- MCCalls First = 5 Second = 1
  MaxFrame = 2
  MaxFaults = 1
INVARIANTS FreshChannel QuietBetweenCommands CertifiedShowsOneFrame
PROPERTIES InvalidatedUntilClosed CommandsAreAnswered
CHECK_DEADLOCK FALSE
