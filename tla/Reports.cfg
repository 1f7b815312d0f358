\* Reports of whole days from events and from summaries.
SPECIFICATION Spec
CONSTANTS
  DayTicks = 4
  Missing = Missing
  Occurrences <- MixedEvents
  Prices <- OpusPrices
  Boundaries <- OpusBoundaries
  Periods <- WholePeriods
  MaxEvents = 3
INVARIANTS
  TypeOK
  ReportsAreExact
  ReplaysMatch
