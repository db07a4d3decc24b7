\* Two servers and one RPC lost or late.
CONSTANTS
  n1 = n1
  n2 = n2
  n3 = n3
  Node = {n1, n2}
  NoNode = NoNode
  Scenarios <- Lost
SPECIFICATION Spec
INVARIANTS
  UpToDateModelsAgree
\* The model stops when its budget of mixes is used up.
CHECK_DEADLOCK FALSE
