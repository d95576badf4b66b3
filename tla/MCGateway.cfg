\* A sweep of the whole public API against a second request, a minute's end, two changes
\* by operators and a request whose statements may fail.
SPECIFICATION Spec
CONSTANTS
  r1 = r1
  r2 = r2
  Requests = {r1, r2}
  Calls <- MCCalls
  Scenarios <- MCScenarios
  RateLimitPerMinute = 1
  RequestLifetime = 30
  MaxMinute = 1
  MaxEdits = 2
  MaxFaults = 1
INVARIANTS
  TypeOK
  QuotaHolds
  DeadCredentialServesNothing
  UndisturbedRequestIsServed
  AnswerTellsOutcome
  ClientFitsServer
CHECK_DEADLOCK FALSE
