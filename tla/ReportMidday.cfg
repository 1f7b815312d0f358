\* A period that starts in the middle of a day.
SPECIFICATION Spec
CONSTANTS
  DayTicks = 4
  Missing = Missing
  Occurrences <- FewEvents
  Prices <- OpusPrices
  Boundaries <- OpusBoundaries
  Periods <- MiddayPeriods
  MaxEvents = 2
INVARIANT EventsInPeriodCount
