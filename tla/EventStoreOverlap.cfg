\* Two processes import the same history again and again; calls overlap and are
\* interrupted.
SPECIFICATION ReimportSpec
CONSTANTS
  DayTicks = 2
  Missing = Missing
  Writers = {w1, w2}
  Events <- MCEvents
  Batches <- HistoryBatches
  PathRank <- MCPathRank
  Damaged = Damaged
  MaxFaults = 2
INVARIANT NoSilentLoss
PROPERTIES
  ImplementsContract
  Reimported
