SPECIFICATION Spec
CONSTANTS
  None = None
  Customers = {c1, c2}
  Callbacks = {k1}
  Addresses = {a1, a2}
INVARIANTS
  AssignedIsReliable
