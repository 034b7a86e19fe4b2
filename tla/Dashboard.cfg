SPECIFICATION FairSpec
CONSTANTS
  None = None
  Customers = {c1, c2}
  UrlCustomer = c1
  Created = {c1}
  MaxChanges = 2
  MaxClicks = 2
  MaxDrops = 1
INVARIANTS
  TypeOK
  StreamFollowsSelection
  NoStreamLeftOpen
  SelectedIsCurrent
PROPERTIES
  OnlineIsStreamed
CHECK_DEADLOCK FALSE
