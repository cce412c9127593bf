SPECIFICATION FairFenceSpec
CONSTANTS
  Procs = {p1, p2, p3}
  Keys = {k1, k2}
  Entries = {e1, e2, e3}
  NoEntry = NoEntry
  NoKey = NoKey
INVARIANTS
  TypeOK
  MutualExclusion
  NoIdleEntry
  FenceInv
PROPERTIES
  WaitersServed
  ImplementsMutex
