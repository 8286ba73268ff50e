\* One job on one node, a monitor and the one after it, one disturbance; jobs
\* are submitted again and servers restart at any time.
SPECIFICATION Spec
CONSTANTS
  Jobs = {"job"}
  Nodes = {"n1"}
  Monitors = {"m1", "m2"}
  MaxProgress = 1
  MaxUpsets = 1
INVARIANTS
  TypeOK
  RunningIsRegistered
  ReadingErrorsExplained
PROPERTIES
  ProgressCatchesUp
  StoppedEnd
