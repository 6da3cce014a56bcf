SPECIFICATION MCSpec
CONSTANTS
  Word = 32768
  Word32 = 1024
  kNanosecondsPerSecond = 10
  MaxVersion = 1
  Holders = {"h1", "h2"}
  MaxMade = 3
  Callers = {"listBorrowedStrings", "collectResolvedTopics"}
  MaxLen = 2
  Values = {1, 2}
  Times <- MCTimes
  CutPoints = {9, 14}
  MaxRows = 2
  MaxSeq = 2
  Paths = {"p1", "p2"}
  Ids = {"i1", "i2", "i3"}
  MaxItems = 3
  Libraries = {"l1", "l2"}
  Handles = {"g1", "g2"}
  MaxLoads = 2
  MaxInstances = 2
  Schemas = {"a", "b"}
  Types = {"kImage", "kPoseGraph"}
  SpliceTypes = {"kImage"}
  MaxCalls = 2
INVARIANTS
  CallsAreServed
  ReleasedOnce
  EntriesWereWritten
  DecodesWhatWasSent
  ReadBack
  HostTableFollows
  EventsReachTheirHandler
  VerdictIsRight
  CodeOutlivesItsUsers
  SuccessIsOneRecord
