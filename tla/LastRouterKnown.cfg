SPECIFICATION ResourceSpec
CONSTANTS
  Kinds = {"dns"}
  Routers <- OneLocal
  Home = "app"
  Refs <- ImplicitRef
  Steady = {}
  Drafts = {}
  MaxLag = 1
INVARIANT LastRouterKnown
