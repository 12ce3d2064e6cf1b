SPECIFICATION RulesSpec
CONSTANTS
  Process = {q1, q2, q3}
  Container = {{q1, q2}, {q3}}
  Config = {"image", "strict"}
  Image = "image"
  Change = {r1, r2}
  MaxRestarts = 1
INVARIANTS PatchTakesEffect
CHECK_DEADLOCK FALSE
