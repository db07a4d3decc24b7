\* Two servers, two or three mixes: one RPC lost or late and one failing
\* ZooKeeper call; or two releases and sessions and servers that end.
CONSTANTS
  n1 = n1
  n2 = n2
  n3 = n3
  Node = {n1, n2}
  NoNode = NoNode
  Scenarios <- StuckOrStopped
SPECIFICATION FairSpec
PROPERTIES
  RoundsEnd
  ServersJoin
  StopsWhenTold
\* The model stops when its budget of mixes is used up.
CHECK_DEADLOCK FALSE
