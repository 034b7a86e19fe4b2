SPECIFICATION Spec
CONSTANTS
  None = None
  Blank = Blank
  Customers = {a, b}
  Requests = {r1, r2}
  Names = {u1, u2}
SYMMETRY SyncSymmetry
INVARIANTS
  IdsAreOwn
  RouterMatchesDatabase
  SecretsFollowRows
PROPERTIES
  DeletedStaysDeleted
