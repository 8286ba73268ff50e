\* One job that is scheduled and one that is not, two faults.
SPECIFICATION ManagerSpec
CONSTANTS
  Jobs = {"job", "tight"}
  Fitting <- MCFitting
  Fallback <- MCFallback
  ProgressValues = {0}
  TraceLength = 8
  MaxSlots = 2
  MaxCalls = 2
  MaxFaults = 2
INVARIANTS
  ManagerTypeOK
  PredictionPresent
  SlotOfTheHour
PROPERTIES
  OverdueJobsKeepRunning
