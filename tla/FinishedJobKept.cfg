\* A slot of zero replicas ends, and restarts, a job that has finished.
SPECIFICATION Safety
CONSTANTS
  Jobs = {"job"}
  MinReplicas <- One
  MaxReplicas <- One
  DeadLine <- Two
  WorkSize <- Work10
  ProfileRows <- MCProfileRows
  ClusterSize = 8
  TimeSlot = 1
  ProgressValues = {50}
  Sweeps = {"g1"}
  Policy = "scaler"
  Outcomes = {"Succeeded"}
  MaxFaults = 0
PROPERTIES
  FinishedJobKept
