SPECIFICATION Spec
CONSTANTS
  Alert = {a1}
  MaxDraft = 1
  Officer = {"analyst", "mlro"}
  Reviewer = {"mlro"}
  SuperAdmin = {}
  Key = {k1, k2}
  MaxFilings = 2
  Faults = {}
  MaxFaults = 0
INVARIANT NeverFiledTwice
