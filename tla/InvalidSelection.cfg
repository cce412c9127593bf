SPECIFICATION FairResourceSpec
CONSTANTS
  Kinds = {"firewall"}
  Routers <- SameNamespace
  Home = "app"
  Refs <- ImplicitRef
  Steady = {}
  Drafts = {}
  MaxLag = 1
PROPERTY InvalidSelectionReported
