SPECIFICATION PartsSpec
CONSTANTS
  c1 = c1
  q1 = q1
  m1 = m1
  d1 = d1
  c2 = c2
  None = None
  Rot = Rot
  Partitions = {c1, d1}
  Kind <- KindOf
  Day <- DayOf
  Window <- OneSession
  Withholdable = {}
  MaxDay = 2
  MaxVersion = 1
  MaxRuns = 2
  MaxEvents = 3
  adjusted = adjusted
  LastDay = 3
  WindowSessions = 1
  Adjusted = {adjusted}
  LateSeals = FALSE
  MaxSlips = 1
INVARIANTS AbsenceExplained OneGoodCopy UploadSound SplitsExact CheckpointSound
PROPERTIES RestoredStays
CHECK_DEADLOCK FALSE
