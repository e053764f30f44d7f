SPECIFICATION Spec
CONSTANTS
  Config <- GoodConfig
  NotANumber = NotANumber
  NoData = NoData
  NUM_MAX = 1
  Kinds <- AllKinds
  Overlong <- LongKinds
  Unprintable <- PercentKinds
  SharedKey = TRUE
  ErrorReplies = TRUE
  LogRace = TRUE
  MaxRecords = 4
  MaxDrops = 1
  MaxRestarts = 1
CHECK_DEADLOCK FALSE
INVARIANTS BacklogBounded RowsFollowPushes DeliveriesInOrder
PROPERTIES ImplementsService
