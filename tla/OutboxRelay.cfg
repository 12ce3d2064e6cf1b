SPECIFICATION FairSpec
CONSTANTS
  Event = {1, 2}
  TenantEvent = {2}
  Relay = {r1, r2}
  BypassesRLS = TRUE
  BatchSize = 2
  MaxRetries = 2
  PruneLimit = 1
  MaxFaults = 1
INVARIANTS NothingLost CleanEventsOnce
PROPERTIES KeepsThePromise EventuallySettled
CHECK_DEADLOCK FALSE
