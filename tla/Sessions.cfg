SPECIFICATION CSpec
CONSTANTS
  HeadBytes = 4
  TailBytes = 1
  MaxTailBytes = 6
  RecentPrompts = 2
  Setups <- MCSetups
  Ids <- MCIds
  Pids = {1, 2}
  StartTolerance = 1
  ReuseGap = 2
  Names = {"n"}
  NoId = NoId
  NoPid = NoPid
  None = None
  Torn = Torn
  MaxClock = 3
  Claude = Claude
  Other = Other
  OtherLists <- MCOtherLists
  MinQuery = 1
INVARIANTS
  TypeOK
  RunningWasAlive
  SteadyIsRunning
  TimesAreExact
  ContentIsLatest
  ResultIsWhole
  ResolveNeverGuesses
