SPECIFICATION Spec
CONSTANTS
  None = None
  Blank = Blank
  Customers = {a, b}
  Requests = {r1}
  Names = {u1, u2}
INVARIANTS
  SecretsAreOwn
