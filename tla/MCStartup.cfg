SPECIFICATION FairSpec
CONSTANTS
  p1 = p1
  p2 = p2
  p3 = p3
  x1 = x1
  t1 = t1
  t2 = t2
  Process <- MCProcess
  Proxy <- MCProxy
  Address <- MCAddress
  Command <- MCCommand
  Retries = 1
  Budgets <- MCBudgets
INVARIANTS
  ConfigAgrees
  ListedServes
PROPERTIES
  ToldEnds
CHECK_DEADLOCK FALSE
