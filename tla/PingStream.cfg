SPECIFICATION FairSpec
CONSTANTS
  None = None
  Pings = {1, 2}
  MaxReplies = 2
INVARIANTS
  PingCanBeStopped
  SummaryMatchesLines
PROPERTIES
  StatisticsAreFinal
  DeparturesEndPings
