SPECIFICATION Spec
CONSTANTS
  DayTicks = 4
  Missing = Missing
  Commits <- MCCommits
  Heads <- MCHeads
  None = None
  KnownAITools <- MCKnownAITools
  Spans <- MCSpans
  NoMerges = TRUE
  MaxMoves = 2
  MaxFaults = 2
  Configs <- MCConfigs
  Names <- MCNames
  Emails <- MCEmails
  RuleLists <- MCRuleLists
  DefaultWorkRefRules <- MCDefaults
  Bad = Bad
  Texts <- MCTexts
  Ids = {1, 2}
  Titled = {1}
  MaxTexts = 3
INVARIANTS
  GitTypeOK
  GitResultIsExact
  OneEventPerCommit
  CommitsAreKept
  MapIsExact
  ResolveIsExact
  RefsAreSightings
