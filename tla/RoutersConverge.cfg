SPECIFICATION FairLifecycleSpec
CONSTANTS
  a = a
  b = b
  x = x
  Routers = {1, 2}
  Endpoints = {a, b, x}
  Malformed = {x}
  Specs <- Growing
  Workers = {}
  MaxLag = 1
  Nobody = Nobody
INVARIANT TypeOK
PROPERTY Converges
