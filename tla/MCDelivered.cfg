\* One delivery without faults: it comes to an end.
SPECIFICATION Spec
CONSTANTS
  Events = {e1}
  EventType <- Paid
  Hooks = {h1}
  Deliveries = {d1}
  Workers = {w1, w2}
  Schedulers = {s1}
  NoHook = NoHook
  NoEvent = NoEvent
  NoDelivery = NoDelivery
  MaxAttempts = 2
  MaxTasks = 2
  MaxRequests = 1
  MaxFaults = 0
PROPERTIES
  EveryDeliveryEnds
CHECK_DEADLOCK FALSE
