SPECIFICATION Spec
CONSTANTS
  Case = {c1}
  Officer = {investigator, mlro}
  Closer = {investigator, mlro}
  Elevated = {mlro}
  Call = {x1, x2}
  Verifier = {x1, x2}
  Worker = {x1, x2}
  Login = {x1, x2}
  Role = {y1, y2}
  MaxVersion = 3
  MaxTokens = 2
  MaxLost = 1
  Recovery = {1}
  MaxSetups = 2
  MaxTime = 2
  Limit = 2
  Window = 2
  MaxClock = 4
  MaxAsks = 3
  MaxOutages = 2
  Threshold = 3
  Duration = 2
  MaxMinute = 5
  MaxKilled = 1
  Form = {x1, x2}
  Number = {y1, y2}
  Company = {k1}
  Title = {t1, t2}
  Owner = {o1}
  MaxUpsets = 2
  Recorder = {x1, x2}
  Server = {y1, y2}
  Trainer = {t1, t2}
  Every = 2
  MaxSamples = 4
SYMMETRY ActorSymmetry
INVARIANTS DispositionRecorded TokensFollowVersion RoleStands SoleSuccessor LimitsHold WholeOrGone FeedbackLearned
PROPERTIES FirstReasonStands ClosedForGood
CHECK_DEADLOCK FALSE
