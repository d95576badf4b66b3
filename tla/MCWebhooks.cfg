\* Two deliveries of one registration, two handlers, operators and a fault.
SPECIFICATION Spec
CONSTANTS
  Events = {e1}
  EventType <- Paid
  Hooks = {h1}
  Deliveries = {d1, d2}
  Workers = {w1, w2}
  Schedulers = {s1}
  NoHook = NoHook
  NoEvent = NoEvent
  NoDelivery = NoDelivery
  MaxAttempts = 2
  MaxTasks = 1
  MaxRequests = 1
  MaxFaults = 1
SYMMETRY Symmetry
INVARIANTS
  TypeOK
  DeletedHookQuiet
  AttemptsGapless
  OutcomeEvidenced
PROPERTIES
  RetiredHistoryKept
CHECK_DEADLOCK FALSE
