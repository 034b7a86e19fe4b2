SPECIFICATION Spec
CONSTANTS
  s1 = s1
  s2 = s2
  s3 = s3
  c1 = c1
  c2 = c2
  None = None
  Customers = {c1}
  Sessions = {s1, s2, s3}
  CustomerOf <- AllSame
  MaxRestarts = 1
  BufCap = 1
INVARIANTS
  NoPanic
