\* Three contenders of two processes, every interleaving of four lock nodes
\* and one lost ZooKeeper call.
CONSTANTS
  o1 = o1
  o2 = o2
  o3 = o3
  s1 = s1
  s2 = s2
  Objects = {o1, o2, o3}
  Sessions = {s1, s2}
  Owner <- MCOwner
  MaxSeq = 4
  MaxFail = 1
SPECIFICATION FairMutexSpec
INVARIANTS
  MutualExclusion
  StrayNodesFromLostCalls
PROPERTIES
  LocksComeFree
  ImplementsRWLock
\* The model stops when its lock nodes and sessions are used up.
CHECK_DEADLOCK FALSE
