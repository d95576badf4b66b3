\* Two requests and two connections.
SPECIFICATION Spec
CONSTANTS
  Requests = {1, 2}
  PoolSizes = {2}
  A = A
  B = B
  NoWarehouse = NoWarehouse
  Warehouses <- TwoWarehouses
  FirstRankings <- AllActive
CONSTRAINTS
  SortedByKind
  SortedByWarehouse
  MostFromA
INVARIANTS
  PoolNeverWedged
CHECK_DEADLOCK FALSE
