\* An order of two lines split over up to three packages.
SPECIFICATION Spec
CONSTANTS
  Orders = {o1}
  Lines = {l1, l2}
  Products = {p1}
  Packages = {k1, k2, k3}
  Warehouses = {1}
  DefaultWarehouse = 1
  Priorities = {0}
  LineQuantities = {1, 2}
  MaxQuantity = 3
  SeedStock = 1
  RequestReasons = {"CHANGE_OF_MIND", "OUT_OF_STOCK"}
  PaymentExpiry = 0
  SellerSLA = 0
  MaxTime = 0
  MaxLate = 0
  NoOrder = NoOrder
  NoProduct = NoProduct
  NoWarehouse = NoWarehouse
SYMMETRY Symmetry
INVARIANTS
  TypeOK
  ReservationFollowsOrder
  ParcelsFollowOrder
  FulfilledIsShipped
  LedgersExact
PROPERTIES
  FinishedOrdersFrozen
  OneStockPool
CHECK_DEADLOCK FALSE
