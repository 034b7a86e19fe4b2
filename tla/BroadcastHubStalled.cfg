SPECIFICATION FairSpec
CONSTANTS
  None = None
  Conns = {c1, c2}
  MaxEvents = 2
  InboxCap = 1
PROPERTIES
  ReadersGetEvents
