\* Two RPC threads, one name, two ports, three children; SIGCHLD goes to any
\* thread, as none blocks it.
CONSTANTS
  t1 = t1
  t2 = t2
  main = main
  zk = zk
  a = a
  Rpc = {t1, t2}
  Main = main
  Zk = zk
  NoThread = NoThread
  SigThreads = {t1, t2, main, zk}
  Names = {a}
  Ports = {1, 2}
  MaxSpawn = 3
SPECIFICATION FairSpec
INVARIANTS
  PoolPortsFree
  PortsKept
  NoStrayServers
PROPERTIES
  RequestsEnd
  DeadChildrenGo
\* The daemon stops, and the children are used up.
CHECK_DEADLOCK FALSE
