SPECIFICATION FairResourceSpec
CONSTANTS
  Kinds = {"portforward", "route"}
  Routers <- SameNamespace
  Home = "app"
  Refs <- MainRefs
  Steady <- EdgeOnly
  Drafts = {{}}
  MaxLag = 1
INVARIANTS
  TypeOK
  TargetRecorded
  SingleHome
PROPERTY Converges
