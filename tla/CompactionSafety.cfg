\* Day one with every kind of writer, day two with a cycle; two sweeping
\* processes, a human repair, one fault; no hazard let loose but rot.
SPECIFICATION FairSpec
CONSTANTS
  NumDays = 2
  None = None
  Bad = Bad
  Free = Free
  Segments = {c1, f1, g1, e1}
  Cycles = {c1, e1}
  Fills = {f1}
  Marks = {g1}
  Day <- DayOf
  DayTwo = {e1}
  Schema <- SchemaOf
  Retyped = {f1}
  Sweepers = {sweep1}
  Humans = {human}
  Hazards = {"rot"}
  MaxFaults = 1
INVARIANTS TypeOK MismatchRepairable NothingLost DebrisOnly LatestIsCurrent
PROPERTIES PastDaysSeal NoAutomaticShrink SealedOnce
