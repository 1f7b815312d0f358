\* A session imported again and again, whatever dies and fails.
SPECIFICATION ImportSpec
CONSTANTS
  DayTicks = 4
  Missing = Missing
  Scripts <- OneScript
  Bad = Bad
  Text = Text
  NoMessage = NoMessage
  Unknown = Unknown
  NoName = NoName
  Periods <- LatePeriods
  MaxDeaths = 1
  MaxFaults = 1
INVARIANT ImportsAreComplete
PROPERTY RecordsAreImported
