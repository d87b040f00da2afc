SPECIFICATION LiveSpec
CONSTANTS
  k1 = k1
  k2 = k2
  p1 = p1
  LiveSegments = {k1, k2}
  Partition <- PartitionOf
  BehindAfter = 1
  DateTicks = 3
  MaxTicks = 4
  MaxUpsets = 2
  NoSegment = NoSegment
CHECK_DEADLOCK FALSE
INVARIANT StoppedHeard
