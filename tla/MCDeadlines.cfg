\* Two replicas and two orders; a claim takes one order, so LIMIT cuts.
SPECIFICATION Spec
CONSTANTS
  Orders = {o1, o2}
  ShopeeOrders = {o1}
  Workers = {w1, w2}
  DeadlineBatchSize = 1
  MaxFaults = 1
INVARIANTS
  TypeOK
  OneStoryPerOrder
  NoDuplicateClaims
PROPERTIES
  OverdueOrdersEnd
