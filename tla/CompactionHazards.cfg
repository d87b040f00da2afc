\* The lake with every hazard let loose.
SPECIFICATION Spec
CONSTANTS
  NumDays = 1
  None = None
  Bad = Bad
  Free = Free
  Segments = {c1, f1}
  Cycles = {c1}
  Fills = {f1}
  Marks = {}
  Day <- DayOf
  DayTwo = {}
  Schema <- SchemaOf
  Retyped = {}
  Sweepers = {sweep1}
  Humans = {human}
  Hazards = {"short_append", "power_loss", "guard_race", "early_repair", "allow_shrink", "rot"}
  MaxFaults = 2
INVARIANTS NoPoison
PROPERTIES UnlinkOnlyVerified
CHECK_DEADLOCK FALSE
