SPECIFICATION Spec
CONSTANTS
  Sessions = {1}
  DayLength = 7
  Open = 1
  EquityClose = 2
  OptionClose = 3
  Deadline = 4
  CloseFifteen = 5
  None = None
  Hazards = {"lost write", "failed mark"}
  Horizon = 8
  LastUpset = 6
  MaxSleeps = 1
  MaxCrashes = 1
  MaxFaults = 1
INVARIANTS MinutesSound SealedComplete
PROPERTIES NothingAfterSeal HandedInOrder
CHECK_DEADLOCK FALSE
