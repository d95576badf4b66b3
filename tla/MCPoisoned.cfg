\* One delivery and one fault: it may be sent again and again for ever.
SPECIFICATION Spec
CONSTANTS
  Events = {e1}
  EventType <- Paid
  Hooks = {h1}
  Deliveries = {d1}
  Workers = {w1}
  Schedulers = {s1}
  NoHook = NoHook
  NoEvent = NoEvent
  NoDelivery = NoDelivery
  MaxAttempts = 2
  MaxTasks = 1
  MaxRequests = 0
  MaxFaults = 1
PROPERTY
  EveryDeliveryEnds
CHECK_DEADLOCK FALSE
