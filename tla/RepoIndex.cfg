\* Overlapping lookups on a disk that may change once.
SPECIFICATION Spec
CONSTANTS
  Paths <- SmallPaths
  Up <- SmallUp
  Skipped = {}
  Roots = {"/w"}
  MaxDepth = 1
  Threads = {t1, t2}
  Ids = {id1}
  NoId = NoId
  None = None
  MaxChanges = 1
INVARIANTS
  TypeOK
  NestedStayHidden
  AnswersMatchDisk
PROPERTY AnswersStay
SYMMETRY Symmetry
