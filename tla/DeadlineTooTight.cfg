\* A job whose profile ends before its range does.
SPECIFICATION Spec
CONSTANTS
  Jobs = {"gap"}
  MinReplicas <- MCMinReplicas
  MaxReplicas <- MCMaxReplicas
  DeadLine <- MCDeadLine
  WorkSize <- MCWorkSize
  ProfileRows <- MCProfileRows
  ClusterSize = 3
  TimeSlot = 1
  ProgressValues = {0}
  Predictions <- MCPredictions
INVARIANTS
  DeadlineTooTight
