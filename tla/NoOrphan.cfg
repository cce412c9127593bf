SPECIFICATION LifecycleSpec
CONSTANTS
  a = a
  b = b
  x = x
  Routers = {1, 2}
  Endpoints = {a}
  Malformed = {}
  Specs <- AnySpec
  Workers = {w1}
  MaxLag = 1
  Nobody = Nobody
INVARIANT NoOrphan
