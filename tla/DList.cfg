SPECIFICATION Spec
CONSTANTS
  n1 = n1
  n2 = n2
  n3 = n3
  n4 = n4
  k1 = k1
  k2 = k2
  k3 = k3
  NULL = NULL
  Nodes = {n1, n2, n3}
  Keys = {k1, k2, k3}
  MaxSteps = 3
SYMMETRY Symmetry
INVARIANTS
  TypeOK
  WellLinked
  NoDangling
  DistinctKeys
PROPERTY ImplementsList
