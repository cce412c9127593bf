SPECIFICATION ResourceSpec
CONSTANTS
  Kinds = {"route"}
  Routers <- OneLocal
  Home = "app"
  Refs <- LocalRefs
  Steady = {}
  Drafts = {}
  MaxLag = 1
INVARIANT GoneIsClean
