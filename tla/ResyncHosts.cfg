\* Two hosts beside one bucket; the live upload of one host.
SPECIFICATION PartsSpec
CONSTANTS
  Hosts = {h1, h2}
  c1 = c1
  b1 = b1
  s1 = s1
  Captured = {c1}
  Swept = {b1}
  Decided = {s1}
  Base <- OneEntry
  MaxWrites = 4
  MaxEvents = 1
  None = None
  k1 = k1
  k2 = k2
  p1 = p1
  LiveSegments = {k1, k2}
  Partition <- PartitionOf
  BehindAfter = 0
  DateTicks = 2
  MaxTicks = 2
  MaxUpsets = 2
  NoSegment = NoSegment
INVARIANTS RecordsServed LiveSound BehindHeard
PROPERTIES CaptureStays NothingDropped ResyncFinishes CountedOnce LiveCatchesUp
CHECK_DEADLOCK FALSE
