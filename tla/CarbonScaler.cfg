\* All jobs, any interleaving of pushes with a call, and every draft
\* against all schedules of its job.
SPECIFICATION Spec
CONSTANTS
  Jobs = {"wide", "pair", "gap", "none", "past"}
  MinReplicas <- MCMinReplicas
  MaxReplicas <- MCMaxReplicas
  DeadLine <- MCDeadLine
  WorkSize <- MCWorkSize
  ProfileRows <- MCProfileRows
  ClusterSize = 3
  TimeSlot = 1
  ProgressValues = {0, 40}
  Predictions <- MCPredictions
INVARIANTS
  TypeOK
  IndexInRange
  OptionsAboveDraft
  RefusalJustified
  GreedyFrontier
PROPERTIES
  CallReturns
  ImplementsStore
