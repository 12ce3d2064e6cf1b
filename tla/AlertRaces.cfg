SPECIFICATION Spec
CONSTANTS
  Alert = {1, 2}
  Tx = {"t1"}
  TxOf <- Shared
  Officer = {o1, o2, o3}
  NewAlert = {2}
SYMMETRY OfficerSymmetry
INVARIANTS ClosedSettles SettledByVerdict AuditComplete
PROPERTIES TransitionsFollowTable
