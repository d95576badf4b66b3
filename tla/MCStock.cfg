\* Two orders compete for one product in two warehouses of changing priority while
\* operators recount, switch warehouses and products, archive and reset.
SPECIFICATION Spec
CONSTANTS
  Orders = {o1, o2}
  Lines = {l1}
  Products = {p1}
  Packages = {}
  Warehouses = {1, 2}
  DefaultWarehouse = 1
  Priorities = {0, 1}
  LineQuantities = {1}
  MaxQuantity = 1
  SeedStock = 1
  RequestReasons = {"CHANGE_OF_MIND", "OUT_OF_STOCK"}
  PaymentExpiry = 0
  SellerSLA = 0
  MaxTime = 0
  MaxLate = 0
  NoOrder = NoOrder
  NoProduct = NoProduct
  NoWarehouse = NoWarehouse
SYMMETRY Symmetry
INVARIANTS
  NoOversell
  LedgersExact
  ArchivedProductIdle
CHECK_DEADLOCK FALSE
