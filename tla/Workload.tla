------------------------------ MODULE Workload ------------------------------
(***************************************************************************)
(* What a CarbonScalerMPIJob asks for and what its profile says: the       *)
(* parameters every other module shares.  They are the fields of           *)
(* carbonScalerSpec (src/src/api/v1/carbonscaler_types.go), the work size  *)
(* bodies * iterations that ScheduleJob reads from the launcher's          *)
(* environment, and the rows of profiles/<name>.csv.                       *)
(*                                                                         *)
(* Throughputs and powers are integers here (the source parses floats):    *)
(* the scheduler only adds, subtracts and compares them.  A UID stands     *)
(* for the job that has it; a schedule is a function from 0-based slots.   *)
(***************************************************************************)
EXTENDS Integers, FiniteSets, FiniteSetsExt, GoMaps

CONSTANTS
  Jobs,           \* the UIDs of the submitted jobs
  MinReplicas,    \* [Jobs -> Nat], carbonScalerSpec.minReplicas
  MaxReplicas,    \* [Jobs -> Nat], carbonScalerSpec.maxReplicas
  DeadLine,       \* [Jobs -> Int], carbonScalerSpec.deadline, in slots
  WorkSize,       \* [Jobs -> Nat], bodies * iterations
  ProfileRows,    \* the rows of the profile file of a job, in file order;
                  \* a job outside its domain names a file that is missing
  ClusterSize,    \* 8 in main.go
  TimeSlot        \* seconds in a slot

(***************************************************************************)
(* LoadProfile: a row's marginals are the differences to the row before it *)
(* in the file, whatever its number of nodes; a later row with the same    *)
(* number of nodes replaces an earlier one.                                *)
(***************************************************************************)
LoadProfile(rows) ==
  LET Before(i, column) == IF i = 1 THEN 0 ELSE rows[i - 1][column]
      LastRow(n) == CHOOSE i \in DOMAIN rows :
                      /\ rows[i].nodes = n
                      /\ \A k \in DOMAIN rows : rows[k].nodes = n => k <= i
  IN  [n \in {rows[i].nodes : i \in DOMAIN rows} |->
        LET i == LastRow(n)
        IN  [throughput         |-> rows[i].throughput,
             marginalThroughput |-> rows[i].throughput - Before(i, "throughput"),
             power              |-> rows[i].power,
             marginalPower      |-> rows[i].power - Before(i, "power")]]

Profile == [u \in DOMAIN ProfileRows |-> LoadProfile(ProfileRows[u])]

NoRow == [throughput |-> 0, marginalThroughput |-> 0, power |-> 0, marginalPower |-> 0]

\* profile_map[n]: a Go map answers the zero Profile for a missing key.
Row(u, n) ==
  IF u \in DOMAIN Profile /\ n \in DOMAIN Profile[u] THEN Profile[u][n] ELSE NoRow

\* A bug: the size of the cluster is forgotten.
FaultyMaxNodes(u) == MaxReplicas[u]

\* max_nodes, and the range of the inner loop that collects the options.
MaxNodes(u) == IF ClusterSize < MaxReplicas[u] THEN ClusterSize ELSE MaxReplicas[u]
Levels(u) == MinReplicas[u] .. MaxNodes(u)
Slots(u) == 0 .. DeadLine[u] - 1

\* compute_done.
ComputeDone(u, s) == MapThenSumSet(LAMBDA t : Row(u, s[t]).throughput * TimeSlot, DOMAIN s)

(***************************************************************************)
(* done >= remaining_work, where remaining_work is                         *)
(* (1 - progress/100) * work_size; both sides times 100.                   *)
(***************************************************************************)
Suffices(u, s, progress) == 100 * ComputeDone(u, s) >= (100 - progress) * WorkSize[u]

\* remaining_work <= 0: the loop of ComputeSchedule is never entered.
NothingLeft(u, progress) == (100 - progress) * WorkSize[u] <= 0

\* What carbon_scaler.go can write into s.schedule[u] for the work left.
Schedules(u) == [Slots(u) -> {0} \cup Levels(u)]

\* Case 2 of ComputeSchedule, when a schedule has run out: []int32{MinReplicas}.
Fallback(u) == [t \in {0} |-> MinReplicas[u]]

(***************************************************************************)
(* What case 3 may come to: the schedules within the deadline and the      *)
(* replica range that are expected to finish the work that is left; none   *)
(* when the profile cannot be loaded.                                      *)
(***************************************************************************)
Fitting(u, progress) ==
  {s \in Schedules(u) : u \in DOMAIN Profile /\ Suffices(u, s, progress)}

(***************************************************************************)
(* A job asks for at least one replica: with minReplicas 0 the value of an *)
(* option is 0/0.  The CRD has no lower bound for it: see the README.  Its *)
(* deadline may be any int32, zero and negative ones included.             *)
(***************************************************************************)
ASSUME SpecAssumption ==
  /\ MinReplicas \in [Jobs -> Nat \ {0}]
  /\ MaxReplicas \in [Jobs -> Nat]
  /\ DeadLine \in [Jobs -> Int]
  /\ WorkSize \in [Jobs -> Nat]
  /\ ClusterSize \in Nat
  /\ TimeSlot \in Nat \ {0}

=============================================================================
