\* A session and one resumed from it grow while they are imported for various periods.
SPECIFICATION Spec
CONSTANTS
  DayTicks = 4
  Missing = Missing
  Scripts <- ResumedScripts
  Bad = Bad
  Text = Text
  NoMessage = NoMessage
  Unknown = Unknown
  NoName = NoName
  Periods <- CutPeriods
  MaxDeaths = 0
  MaxFaults = 0
INVARIANTS
  TypeOK
  PeriodsCutCleanly
  StartsOnce
