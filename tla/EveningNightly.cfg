SPECIFICATION Spec
CONSTANTS
  Sessions = {1}
  DayLength = 7
  Open = 1
  EquityClose = 2
  OptionClose = 3
  Deadline = 4
  CloseFifteen = 5
  None = None
  Hazards = {"other sweep", "clock back"}
  Horizon = 9
  LastUpset = 5
  MaxSleeps = 0
  MaxCrashes = 1
  MaxFaults = 1
INVARIANTS SealedComplete
CHECK_DEADLOCK FALSE
