\* Two jobs, one of which cannot meet its deadline.
SPECIFICATION PushedSpec
CONSTANTS
  Jobs = {"fits", "tight"}
  MinReplicas <- One
  MaxReplicas <- One
  DeadLine <- One
  WorkSize <- Work20IfTight
  ProfileRows <- MCProfileRows
  ClusterSize = 8
  TimeSlot = 1
  ProgressValues = {}
  Sweeps = {"g1"}
  Policy = "scaler"
  Outcomes = {}
  MaxFaults = 0
PROPERTIES
  RefusalsHarmless
