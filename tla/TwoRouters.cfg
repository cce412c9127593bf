SPECIFICATION LifecycleSpec
CONSTANTS
  a = a
  b = b
  x = x
  Routers = {1, 2}
  Endpoints = {a, b}
  Malformed = {}
  Specs <- Contended
  Workers = {w1}
  MaxLag = 1
  Nobody = Nobody
INVARIANTS
  EntryRecorded
  CleanupReaches
  ApplyingRecorded
