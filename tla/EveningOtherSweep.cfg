SPECIFICATION Spec
CONSTANTS
  Sessions = {1}
  DayLength = 7
  Open = 1
  EquityClose = 2
  OptionClose = 3
  Deadline = 4
  CloseFifteen = 5
  None = None
  Hazards = {"other sweep"}
  Horizon = 8
  LastUpset = 7
  MaxSleeps = 1
  MaxCrashes = 1
  MaxFaults = 0
INVARIANT SealedComplete
CHECK_DEADLOCK FALSE
