SPECIFICATION Spec
CONSTANTS
  A = a
  B = b
  K = k1
  Account = {a, b}
  Imported = {b}
  MaxActs = 1
  Request = {r1, r2, r3}
  Key = {k1}
  Call <- Calls
  Customer <- Owner
  MaxFaults = 1
SYMMETRY RequestSymmetry
INVARIANTS OncePerKey AnswersMatch NoLockout AggregateReported
PROPERTIES OpenAccounts
CHECK_DEADLOCK FALSE
