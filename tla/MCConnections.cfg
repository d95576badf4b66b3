\* Three requests of any kind, two warehouses, pools that are too small and ample.
SPECIFICATION Spec
CONSTANTS
  Requests = {1, 2, 3}
  PoolSizes = {2, 4}
  A = A
  B = B
  NoWarehouse = NoWarehouse
  Warehouses <- TwoWarehouses
  FirstRankings <- AllActive
CONSTRAINTS
  SortedByKind
  SortedByWarehouse
  MostFromA
INVARIANTS
  TypeOK
  WedgeNeedsInventoryUpdate
  CycleNeedsInversion
PROPERTIES
  EveryRequestEnds
CHECK_DEADLOCK FALSE
