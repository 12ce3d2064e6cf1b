SPECIFICATION DeskSpec
CONSTANTS
  OneTab = t1
  SameTab = t2
  Other = t3
  Session = {t1, t2, t3}
  User = {"analyst", "mlro"}
  UserOf <- TwoTabs
  Breaker = {"mlro"}
  MaxTTL = 2
  BypassesRLS = FALSE
  Faults = {"lost", "redis", "db", "crash"}
  Message = {t1, t2}
  Process = {p1, p2}
  First = p0
  PidNumber = {p0, p1, p2}
  Client = {z1, z2}
  MaxMoves = 1
  Alert = {a1}
  BatchId = {b1, b2}
  MaxFaults = 1
  Name = {"n"}
  Feed = {t1, t2}
  Fallback <- NoneListed
  Vendor <- OnePEP
  BuiltIn = {}
  Cleared = {}
  Job = {p1, p2}
  Query = {q1}
  Customers = {"n"}
  Batch = 2
  MaxHour = 2
  MaxMishaps = 1
INVARIANTS Exclusive HolderIsReported BatchesStand FeedReachesAll ListedIsTreated
PROPERTIES HolderNotRefused
CHECK_DEADLOCK FALSE
CONSTRAINTS Undisturbed Telling TwoAtOnce
SYMMETRY DeskSymmetry
