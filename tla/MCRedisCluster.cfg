SPECIFICATION FairSpec
CONSTANTS
  Keys <- TheKeys
  Servers <- TheServers
  HashOf <- Hashes
  DBs = {0, 3}
  CallSet <- AllCalls
  LaterCalls <- Later
  Contents <- SomeContents
  Disturbers <- SomeDisturbers
  FirstSocket = 3
  MaxSocket = 6
  MaxCalls = 2
  MaxLost = 1
CHECK_DEADLOCK FALSE
INVARIANTS ActsAsOne MovesSafe RepliesSafe ConnectionsTrue
PROPERTIES CallsEnd
