\* One writer, one interruption.
SPECIFICATION Spec
CONSTANTS
  DayTicks = 2
  Missing = Missing
  Writers = {w1}
  Events <- MCEvents
  Batches <- MixedBatches
  PathRank <- MCPathRank
  Damaged = Damaged
  MaxFaults = 1
INVARIANT CountedIsReadable
