\* Three requests with one key and two fingerprints, a clock that outlasts two leases.
SPECIFICATION Spec
CONSTANTS
  Requests = {r1, r2, r3}
  Fingerprints = {f1, f2}
  NoHash = NoHash
  Legacy = Legacy
  NoBody = NoBody
  NoRequest = NoRequest
  Lease = 1
  Attempts = 2
  MaxTime = 2
INVARIANTS
  TypeOK
  LiveClaimKept
PROPERTIES
  DuplicateNeedsExpiredLease
  OneStoredResponse
  EveryRequestAnswered
CHECK_DEADLOCK FALSE
