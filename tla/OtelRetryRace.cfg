\* A retry that overlaps the request it repeats.
SPECIFICATION OSpec
CONSTANTS
  DayTicks = 4
  Missing = Missing
  Writers = {h1, h2}
  Payloads <- OnePayload
  Events <- OneEvents
  Batches <- NoBatches
  PathRank <- PointRank
  Damaged = Damaged
  NoValue = NoValue
  None = None
  MaxClock <- MCClock
  MaxAttempts = 2
  MaxFaults = 0
INVARIANT RetriesCountOnce
\* The exporter stops when its attempts are used up.
CHECK_DEADLOCK FALSE
