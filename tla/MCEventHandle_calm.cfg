SPECIFICATION FairSpec
CONSTANTS
  Config <- GoodConfig
  NotANumber = NotANumber
  NoData = NoData
  NUM_MAX = 1
  Kinds <- CalmKinds
  Overlong = {}
  Unprintable = {}
  SharedKey = FALSE
  ErrorReplies = FALSE
  LogRace = FALSE
  MaxRecords = 3
  MaxDrops = 0
  MaxRestarts = 0
INVARIANTS EndHasCause
PROPERTIES EveryRecordSettled
