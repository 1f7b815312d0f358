\* One writer at a time, every kind of interruption, and Read in between.
SPECIFICATION Spec
CONSTANTS
  DayTicks = 2
  Missing = Missing
  Writers = {w1}
  Events <- MCEvents
  Batches <- MixedBatches
  PathRank <- MCPathRank
  Damaged = Damaged
  MaxFaults = 3
INVARIANTS
  TypeOK
  NoDuplicateIds
  DamagePerFault
  PruningKeepsPeriod
PROPERTY LinesStay
