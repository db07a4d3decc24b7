\* One server, two puts.
CONSTANTS
  Node = {1, 2}
  Key = {"k1", "k2"}
  Value = {1, 3}
  Word = 32
  Scenarios <- Alone
SPECIFICATION Spec
INVARIANTS
  AverageIsOfValues
\* The cluster comes to rest when the puts are used up.
CHECK_DEADLOCK FALSE
