\* A machine that sleeps from one day's close+15 tick past the next day's close+5.
SPECIFICATION Spec
CONSTANTS
  Sessions = {1, 2}
  DayLength = 6
  Open = 1
  EquityClose = 2
  OptionClose = 3
  Deadline = 4
  CloseFifteen = 5
  None = None
  Hazards = {}
  Horizon = 11
  LastUpset = 11
  MaxSleeps = 1
  MaxCrashes = 0
  MaxFaults = 0
PROPERTY NothingAfterSeal
CHECK_DEADLOCK FALSE
