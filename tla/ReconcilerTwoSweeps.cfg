\* Two goroutines at a time and a reporting status server, with a fault,
\* under the carbon-agnostic policy.
SPECIFICATION Safety
CONSTANTS
  Jobs = {"job"}
  MinReplicas <- One
  MaxReplicas <- One
  DeadLine <- One
  WorkSize <- Work10
  ProfileRows <- MCProfileRows
  ClusterSize = 8
  TimeSlot = 1
  ProgressValues = {50}
  Sweeps = {"g1", "g2"}
  Policy = "fixed"
  Outcomes = {"Succeeded"}
  MaxFaults = 1
INVARIANTS
  HeldIsCurrent
PROPERTIES
  ProgressNeverLost
  FinishedJobKept
