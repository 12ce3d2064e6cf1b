SPECIFICATION Spec
CONSTANTS
  A = a
  B = b
  K = k1
  Account = {a, b}
  Imported = {b}
  MaxActs = 2
  Request = {r1}
  Key = {k1}
  Call <- Calls
  Customer <- Owner
  MaxFaults = 0
SYMMETRY RequestSymmetry
PROPERTIES FreezeStands
CHECK_DEADLOCK FALSE
