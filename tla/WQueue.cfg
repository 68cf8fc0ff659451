SPECIFICATION Spec
CONSTANTS
  Nodes = {n1, n2, n3, n4}
  NULL = NULL
  Vals = {a, b}
  NoVal = NoVal
INVARIANTS
  TypeOK
  Linked
  NodesOwned
PROPERTIES
  ImplementsDeque
