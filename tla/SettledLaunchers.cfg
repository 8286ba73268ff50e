\* A launcher that deleteLauncher does not see.
SPECIFICATION Safety
CONSTANTS
  Jobs = {"job"}
  MinReplicas <- One
  MaxReplicas <- Two
  DeadLine <- One
  WorkSize <- Work15
  ProfileRows <- MCProfileRows
  ClusterSize = 8
  TimeSlot = 1
  ProgressValues = {}
  Sweeps = {"g1"}
  Policy = "scaler"
  Outcomes = {"Succeeded"}
  MaxFaults = 0
INVARIANTS
  SettledLaunchers
