SPECIFICATION FairSpec
CONSTANTS
  None = None
  Conns = {c1, c2}
  MaxEvents = 2
  InboxCap = 1
INVARIANTS
  TargetIsRegistered
  ClientsMatchHandlers
  DeliveredInOrder
  NobodyFallsBehind
PROPERTIES
  ImplementsEventFeed
  EventsReachClients
  BrokenConnectionsEnd
