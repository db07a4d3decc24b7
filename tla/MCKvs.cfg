\* Up to three servers, two keys, a positive and a negative value;
\* sums above 4 and below -5 overflow.
CONSTANTS
  Node = {1, 2, 3}
  Key = {"k1", "k2"}
  Value <- MCValue
  Word = 10
  Scenarios <- MCScenarios
SPECIFICATION FairSpec
INVARIANTS
  MixUnifies
PROPERTIES
  AveragesMeet
\* The cluster comes to rest when the puts are used up.
CHECK_DEADLOCK FALSE
