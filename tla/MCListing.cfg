\* Up to three rows of every status, read in pages of one or two (or of the default size),
\* and under two changes whose instants may lie anywhere; any read may fail at any row.
SPECIFICATION Spec
CONSTANTS
  Rows = {1, 2, 3, 4}
  Sizes = {0, 1, 2, 101}
  InitialStatus = {"UNPAID", "PAID", "PROCESSING", "READY_TO_SHIP", "SHIPPED", "IN_DELIVERY", "DELIVERED", "COMPLETED", "CANCELLED", "RETURNED"}
  MaxInitial = 3
  MaxInstant = 3
  MaxChanges = 2
ACTION_CONSTRAINT SmallBeforeChanges
INVARIANTS
  QuietListingExact
  SkippedRowsHaveCause
CHECK_DEADLOCK FALSE
