SPECIFICATION FairSpec
CONSTANTS
  Producers = {p1, p2}
  Consumers = {c1, c2}
  Data = {d1, d2}
  NUM_MAX = 2
  NoThread = NoThread
  NoData = NoData
INVARIANTS CountsAgree ListSafe
PROPERTIES ImplementsQueue ImplementsFairQueue
