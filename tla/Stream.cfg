SPECIFICATION Spec
CONSTANTS
  Tx = {t1, t2}
  Syncer = {w1, w2}
  Supervised = {w1}
  MaxAttempts = 2
  PollLimit = 1
  Copies = 1
  MaxSyncFaults = 3
  Buffered = {b1}
  Complete = {f1}
  Resends = 2
  MaxKills = 2
  MaxErrors = 1
  Transfer = {1, 2, 3}
  Account = {"a1", "a2", "b"}
  EntityOf <- Owners
  HighTier = {"b"}
  Payment <- Payments
  Day = 1
  Week = 2
  Loop = 1
  Minutes = 0
  MaxNow = 1
  MaxOpen = 2
  MaxBad = 1
  Process = {q1, q2}
  Container = {{q1, q2}}
  Config = {"image", "strict"}
  Image = "image"
  Change = {r1, r2}
  MaxRestarts = 1
  Pod = {p1, p2}
  Adder = {p1}
  Screener = {p2}
  Entity = {"x", "y"}
  Customer = {"c"}
  NoCustomer = "null"
  Disposition <- Entries
  MaxDay = 1
  MaxTrouble = 1
  Accounts = {1, 2, 3, 4}
  MaxPairs = 5
  Unit = 720720
INVARIANTS SyncSettled AtMostOneLostPerKill AddedIsSeen StructuringExact PatternsCaught PutTakesEffect NetworkExact
PROPERTIES EventuallyInGraph
CHECK_DEADLOCK FALSE
