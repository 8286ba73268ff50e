\* Two applications, one worker, and set_index at any time; a window within
\* the trace, and one it has to be gone through twice for, and more.
SPECIFICATION Spec
CONSTANTS
  Users = {"manager", "status"}
  Applicants = {"status"}
  Setters = {"s1"}
  TraceLength = 2
  Windows = {2, 4}
  MaxWorkers = 1
INVARIANTS
  TypeOK
  HoursInOrder
PROPERTIES
  RoundsSettle
  HoursPass
  PushesGoOn
