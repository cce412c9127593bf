SPECIFICATION FairCastSpec
CONSTANTS
  d1 = d1
  d2 = d2
  d3 = d3
  s1 = s1
  s2 = s2
  Direct = {d1, d2, d3}
  Sources = {s1, s2}
  Key <- Ranked
  MaxLag = 1
  Casts <- Contenders
CHECK_DEADLOCK FALSE
INVARIANTS
  TypeOK
  OneHolder
PROPERTY Converges
