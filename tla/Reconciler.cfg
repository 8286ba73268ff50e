\* One job that is scaled up and down, with two crashes or failing calls.
SPECIFICATION Safety
CONSTANTS
  Jobs = {"job"}
  MinReplicas <- One
  MaxReplicas <- Two
  DeadLine <- One
  WorkSize <- Work15
  ProfileRows <- MCProfileRows
  ClusterSize = 8
  TimeSlot = 1
  ProgressValues = {}
  Sweeps = {"g1"}
  Policy = "scaler"
  Outcomes = {"Succeeded"}
  MaxFaults = 2
INVARIANTS
  TypeOK
  HeldIsCurrent
  BaseInRange
PROPERTIES
  RecordedEndIsReal
