SPECIFICATION FairSpec
CONSTANTS
  None = None
  Customers = {c1}
  Callbacks = {k1, k2, k3}
  Addresses = {a1, a2}
INVARIANTS
  TypeOK
  RowShowsSession
  EventTellsRow
PROPERTIES
  CallbacksAreShown
