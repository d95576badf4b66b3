\* An order of two lines, of one product or two, against its clock: payment, payment
\* failure, both deadlines and both cancelling callers, at and around the due instant.
SPECIFICATION Spec
CONSTANTS
  Orders = {o1}
  Lines = {l1, l2}
  Products = {p1, p2}
  Packages = {}
  Warehouses = {1}
  DefaultWarehouse = 1
  Priorities = {0}
  LineQuantities = {1}
  MaxQuantity = 2
  SeedStock = 1
  RequestReasons = {"CHANGE_OF_MIND", "OUT_OF_STOCK"}
  PaymentExpiry = 1
  SellerSLA = 1
  MaxTime = 2
  MaxLate = 1
  NoOrder = NoOrder
  NoProduct = NoProduct
  NoWarehouse = NoWarehouse
SYMMETRY Symmetry
INVARIANTS
  PaymentAndAudit
  EventsMirrorOrders
PROPERTY
  SingleStateMachine
CHECK_DEADLOCK FALSE
