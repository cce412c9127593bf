SPECIFICATION DeviceSpec
CONSTANTS
  Tables = {"dns", "route", "nat", "filter"}
  Values = {v1, v2}
  Placed = {v1}
  MaxForeign = 1
  Nothing = Nothing
  Gone = Gone
  Scripts <- SampleScripts
  MaxBytes = 3
  Absent = Absent
INVARIANTS
  TypeOK
  ImportFaithful
  WithinLimit
  RefusedForCause
  NothingLeft
PROPERTIES
  SuccessIsReal
  OthersUntouched
  NoChurn
  ImplementsScriptRun
  Repaired
CHECK_DEADLOCK FALSE
