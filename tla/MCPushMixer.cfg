\* Up to three servers, every strategy, one fault at a time.
CONSTANTS
  u1 = u1
  u2 = u2
  Node = {1, 2, 3}
  Update = {u1, u2}
  Scenarios <- AllScenarios
SPECIFICATION FairSpec
INVARIANTS
  ActivesKnowOld
  FreshIsListed
PROPERTIES
  UpdatesSpread
\* The cluster stops when its servers have ended.
CHECK_DEADLOCK FALSE
