SPECIFICATION FairSpec
CONSTANTS
  Event = {1, 2}
  TenantEvent = {2}
  Relay = {r1, r2}
  BypassesRLS = FALSE
  BatchSize = 1
  MaxRetries = 2
  PruneLimit = 1
  MaxFaults = 0
PROPERTIES EventuallyPublished
CHECK_DEADLOCK FALSE
