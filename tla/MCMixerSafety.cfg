\* Three servers, three mixes, one RPC lost or late, one server that ends.
CONSTANTS
  n1 = n1
  n2 = n2
  n3 = n3
  Node = {n1, n2, n3}
  NoNode = NoNode
  Scenarios <- LostAndEnd
SPECIFICATION Spec
SYMMETRY Symmetry
INVARIANTS
  ActiveModelsAgree
  ListedIffFresh
  MixesInOrder
PROPERTIES
  ActiveModelsGrow
\* The model stops when its budget of mixes is used up.
CHECK_DEADLOCK FALSE
