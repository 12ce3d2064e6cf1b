SPECIFICATION ScoreSpec
CONSTANTS
  Buffered = {b1}
  Complete = {f1}
  Resends = 2
  MaxKills = 2
  MaxErrors = 1
PROPERTIES AcceptedIsScored
CHECK_DEADLOCK FALSE
