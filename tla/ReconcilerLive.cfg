\* Liveness: one job, one goroutine, nothing fails.
SPECIFICATION Spec
CONSTANTS
  Jobs = {"job"}
  MinReplicas <- One
  MaxReplicas <- One
  DeadLine <- Two
  WorkSize <- Work10
  ProfileRows <- MCProfileRows
  ClusterSize = 8
  TimeSlot = 1
  ProgressValues = {}
  Sweeps = {"g1"}
  Policy = "scaler"
  Outcomes = {"Succeeded"}
  MaxFaults = 0
PROPERTIES
  TerminalStatusFinal
  Converges
  EndReported
