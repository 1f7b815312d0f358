\* Two handlers: requests fail, get lost, are sent again, and may overlap.
SPECIFICATION OSpec
CONSTANTS
  DayTicks = 4
  Missing = Missing
  Writers = {h1, h2}
  Payloads <- MixedPayloads
  Events <- MixedEvents
  Batches <- MixedBatches
  PathRank <- PointRank
  Damaged = Damaged
  NoValue = NoValue
  None = None
  MaxClock <- MCClock
  MaxAttempts = 2
  MaxFaults = 2
INVARIANTS
  OTypeOK
  AnsweredIsStored
  RetriesInTurnCountOnce
\* The exporter stops when its attempts are used up.
CHECK_DEADLOCK FALSE
