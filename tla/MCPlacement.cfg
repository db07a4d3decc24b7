SPECIFICATION FairSpec
CONSTANTS
  a = a
  b = b
  d = d
  c1 = c1
  c2 = c2
  Node <- MCNode
  NumVServ = 2
  Key <- MCKey
  Hash <- MCHash
  KeyHash <- MCKeyHash
  Proxy <- MCProxy
  Caller <- MCCaller
  Scenarios <- MCScenarios
INVARIANTS
  PlacedFound
  LinkedFound
  AnsweredHeld
  CacheFollows
  KeywordsFollow
PROPERTIES
  CallsEnd
CHECK_DEADLOCK FALSE
