SPECIFICATION Spec
CONSTANTS
  NumDays = 2
  None = None
  Bad = Bad
  Free = Free
  Segments = {c1, c2, e1}
  Cycles = {c1, c2, e1}
  Fills = {}
  Marks = {}
  Day <- DayOf
  DayTwo = {e1}
  Schema <- SchemaOf
  Retyped = {}
  Sweepers = {sweep1}
  Humans = {}
  Hazards = {"power_loss"}
  MaxFaults = 1
INVARIANTS NothingLost
