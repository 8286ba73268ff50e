---------------------------- MODULE CarbonScaler ----------------------------
(***************************************************************************)
(* The greedy AutoScaler of carbon_scaler.go.                              *)
(*                                                                         *)
(* slock serialises ComputeSchedule and GetReplicas, so at most one call   *)
(* is in progress and the rest of the program sees schedule and            *)
(* scheduleIndex only between calls.  UpdateCarbonStatus takes no lock:    *)
(* the prediction may be replaced between any two reads the collecting     *)
(* loop makes, which is why a call is modelled step by step: one step per  *)
(* option collected, one per option chosen.                                *)
(*                                                                         *)
(* An option is a pair <<time, nodes>>; its value is the marginal          *)
(* throughput per gram of carbon of going from nodes-1 to nodes replicas   *)
(* in slot time.                                                           *)
(***************************************************************************)
EXTENDS Workload

CONSTANTS
  ProgressValues, \* the percentages carbonScalerSpec.progress may carry
  Predictions     \* the predictions the carbon service may push: functions
                  \* from 0-based steps to intensities

VARIABLES
  schedule,       \* s.schedule
  scheduleIndex,  \* s.scheduleIndex
  prediction,     \* s.CarbonStatus.CarbonIntensityPrediction
  call            \* the call of ComputeSchedule that holds slock, if any

vars == <<schedule, scheduleIndex, prediction, call>>

ASSUME PredictionAssumption ==
  /\ ProgressValues \subseteq Nat /\ ProgressValues # {}
  /\ \A c \in Predictions : \A t \in DOMAIN c : t \in Nat /\ c[t] \in Nat \ {0}

\* The levels that have no row: 8, on the cluster of main.go:116.
Gaps(u) == {n \in Levels(u) : Row(u, n) = NoRow}

(***************************************************************************)
(* A job on no node does no work, and each further node that has a row     *)
(* adds work and draws power: so do the rows of nbody10k.csv and           *)
(* nbody100k.csv, which end with 7 nodes.                                  *)
(***************************************************************************)
ASSUME ProfileAssumption ==
  \A u \in DOMAIN ProfileRows :
    /\ u \in Jobs
    /\ \A n \in {0} \cup Levels(u) : Row(u, n).throughput \in Int /\ Row(u, n).power \in Int
    /\ Row(u, 0).throughput = 0
    /\ \A n \in Levels(u) \ Gaps(u) :
         /\ Row(u, n).marginalThroughput \in Nat \ {0}
         /\ Row(u, n).marginalPower \in Nat \ {0}
    /\ \A n, m \in {0} \cup (Levels(u) \ Gaps(u)) :
         n < m => Row(u, n).throughput < Row(u, m).throughput

-----------------------------------------------------------------------------
(***************************************************************************)
(* The locals of a call: none while nobody holds slock; the options that   *)
(* are still to be collected and, for those that are, the intensity that   *)
(* was read; then the shrinking list and the growing schedule.             *)
(***************************************************************************)
Idle == [pc |-> "idle"]

Collecting(u, progress, todo, read) ==
  [pc |-> "collect", uid |-> u, progress |-> progress, todo |-> todo, read |-> read]

Selecting(u, progress, read, list, draft) ==
  [pc |-> "select", uid |-> u, progress |-> progress, read |-> read,
   list |-> list, draft |-> draft]

Options(u) == Slots(u) \X Levels(u)

Init ==
  /\ schedule = EmptyMap
  /\ scheduleIndex = EmptyMap
  /\ prediction = EmptyMap
  /\ call = Idle

\* UpdateCarbonStatus, from Register or from a push; slock is not taken.
UpdateCarbonStatus(c) ==
  /\ prediction' = c
  /\ UNCHANGED <<schedule, scheduleIndex, call>>

\* A push may carry the sequence that is already there: one disjunct of Next.
NewStatus == \E c \in Predictions : UpdateCarbonStatus(c)

\* A bug: the position moves on from the last slot too.
FaultyAdvance(u) ==
  /\ call = Idle /\ u \in DOMAIN schedule
  /\ scheduleIndex[u] < Cardinality(DOMAIN schedule[u])
  /\ scheduleIndex' = [scheduleIndex EXCEPT ![u] = @ + 1]
  /\ UNCHANGED <<schedule, prediction, call>>

\* Case 1: the schedule exists and has a next slot.
Advance(u) ==
  /\ call = Idle /\ u \in DOMAIN schedule
  /\ scheduleIndex[u] + 1 < Cardinality(DOMAIN schedule[u])
  /\ scheduleIndex' = [scheduleIndex EXCEPT ![u] = @ + 1]
  /\ UNCHANGED <<schedule, prediction, call>>

\* Case 2: it exists and was not enough.
Exhaust(u) ==
  /\ call = Idle /\ u \in DOMAIN schedule
  /\ scheduleIndex[u] + 1 >= Cardinality(DOMAIN schedule[u])
  /\ schedule' = [schedule EXCEPT ![u] = Fallback(u)]
  /\ scheduleIndex' = [scheduleIndex EXCEPT ![u] = 0]
  /\ UNCHANGED <<prediction, call>>

(***************************************************************************)
(* Case 3 begins: the profile is loaded (when the file is missing the call *)
(* returns an error and changes nothing) and every option is still to be   *)
(* collected.                                                              *)
(***************************************************************************)
Begin(u, progress) ==
  /\ call = Idle /\ u \notin DOMAIN schedule
  /\ u \in DOMAIN Profile
  /\ call' = Collecting(u, progress, Options(u), EmptyMap)
  /\ UNCHANGED <<schedule, scheduleIndex, prediction>>

\* The option the two nested loops reach next: by slot, then by nodes.
Reached(o) ==
  \A q \in call.todo : o[1] < q[1] \/ (o[1] = q[1] /\ o[2] <= q[2])

\* One iteration of the collecting loop, with the prediction as it is now.
Collect ==
  /\ call.pc = "collect"
  /\ \E o \in call.todo :
       /\ Reached(o) /\ o[1] \in DOMAIN prediction
       /\ call' = Collecting(call.uid, call.progress, call.todo \ {o},
                             Put(call.read, o, prediction[o[1]]))
  /\ UNCHANGED <<schedule, scheduleIndex, prediction>>

\* No panic is recovered: the process dies, and its replacement has empty maps.
Dies ==
  /\ schedule' = EmptyMap /\ scheduleIndex' = EmptyMap
  /\ prediction' = EmptyMap /\ call' = Idle

(***************************************************************************)
(* The prediction is shorter than the deadline, and the index is out of    *)
(* range; or the deadline is negative, and make([]int32, DeadLine) panics. *)
(***************************************************************************)
Panic ==
  /\ call.pc = "collect"
  /\ \/ \E o \in call.todo : Reached(o) /\ o[1] \notin DOMAIN prediction
     \/ call.todo = {} /\ DeadLine[call.uid] < 0
  /\ Dies

(***************************************************************************)
(* GetReplicas indexes the schedule where it has no slot: the empty one of *)
(* a job with deadline 0 and nothing left to do.                           *)
(***************************************************************************)
ReadPanic(u) ==
  /\ call = Idle /\ u \in DOMAIN schedule
  /\ scheduleIndex[u] \notin DOMAIN schedule[u]
  /\ Dies

\* The process may also die of anything else.
Restart == Dies

\* The list is complete and sorted; the draft is make([]int32, DeadLine).
Sort ==
  /\ call.pc = "collect" /\ call.todo = {} /\ DeadLine[call.uid] >= 0
  /\ call' = Selecting(call.uid, call.progress, call.read, DOMAIN call.read,
                       [t \in Slots(call.uid) |-> 0])
  /\ UNCHANGED <<schedule, scheduleIndex, prediction>>

\* A bug: the order ignores the carbon intensity.
FaultyBetter(o, p) ==
  LET M(q) == Row(call.uid, q[2])
  IN  M(o).marginalThroughput * M(p).marginalPower
        > M(p).marginalThroughput * M(o).marginalPower

(***************************************************************************)
(* value(o) > value(p), the order of sort.Slice, cross-multiplied: the     *)
(* powers and intensities are positive.  Without a row the value is 0/0,   *)
(* which is neither more nor less than any other.                          *)
(***************************************************************************)
Better(o, p) ==
  LET M(q) == Row(call.uid, q[2])
  IN  M(o).marginalThroughput * (M(p).marginalPower * call.read[p])
        > M(p).marginalThroughput * (M(o).marginalPower * call.read[o])

\* A bug: a level above the next one may be taken.
LooseEligible(o) == o[2] = MinReplicas[call.uid] \/ o[2] > call.draft[o[1]]

\* A bug: nothing is taken of a slot below minReplicas.
StrictEligible(o) == o[2] = call.draft[o[1]] + 1

\* An option the inner loop stops at.
Eligible(o) == o[2] = MinReplicas[call.uid] \/ o[2] = call.draft[o[1]] + 1

(***************************************************************************)
(* The options that can stand first among the eligible ones of the list.   *)
(* sort.Slice is not stable, so equal values may come in any order; and it *)
(* promises nothing if the comparison is no order, as it is with a gap.    *)
(***************************************************************************)
Candidates ==
  LET eligible == {o \in call.list : Eligible(o)}
  IN  {o \in eligible : Gaps(call.uid) # {} \/ \A p \in eligible : ~ Better(p, o)}

Done == Suffices(call.uid, call.draft, call.progress)

\* A bug: the option stays in the list.
FaultySelect ==
  /\ call.pc = "select" /\ ~Done
  /\ \E o \in Candidates :
       call' = Selecting(call.uid, call.progress, call.read, call.list,
                         [call.draft EXCEPT ![o[1]] = o[2]])
  /\ UNCHANGED <<schedule, scheduleIndex, prediction>>

\* One iteration of the loop "for done < remaining_work".
Select ==
  /\ call.pc = "select" /\ ~Done
  /\ \E o \in Candidates :
       call' = Selecting(call.uid, call.progress, call.read, call.list \ {o},
                         [call.draft EXCEPT ![o[1]] = o[2]])
  /\ UNCHANGED <<schedule, scheduleIndex, prediction>>

\* index == -1: nothing in the list can be taken.
Stuck == call.pc = "select" /\ ~Done /\ \A o \in call.list : ~Eligible(o)

\* "Deadline too tight": an error, and no schedule.
TooTight ==
  /\ Stuck
  /\ call' = Idle
  /\ UNCHANGED <<schedule, scheduleIndex, prediction>>

\* A bug: the schedule is stored before it is complete.
FaultyStore ==
  /\ call.pc = "select"
  /\ schedule' = Put(schedule, call.uid, call.draft)
  /\ scheduleIndex' = Put(scheduleIndex, call.uid, 0)
  /\ call' = Idle
  /\ UNCHANGED prediction

\* The loop is left: the schedule is stored and the lock released.
Store ==
  /\ call.pc = "select" /\ Done
  /\ schedule' = Put(schedule, call.uid, call.draft)
  /\ scheduleIndex' = Put(scheduleIndex, call.uid, 0)
  /\ call' = Idle
  /\ UNCHANGED prediction

CallStep == Collect \/ Panic \/ Sort \/ Select \/ TooTight \/ Store

Next ==
  \/ NewStatus
  \/ \E u \in Jobs : Advance(u) \/ Exhaust(u) \/ ReadPanic(u)
  \/ \E u \in Jobs, p \in ProgressValues : Begin(u, p)
  \/ CallStep
  \/ Restart

\* A call that holds slock runs on its own goroutine and waits for nothing.
Spec == Init /\ [][Next]_vars /\ WF_vars(CallStep)

-----------------------------------------------------------------------------
TypeOK ==
  /\ DOMAIN schedule \subseteq Jobs
  /\ DOMAIN scheduleIndex = DOMAIN schedule
  /\ \A u \in DOMAIN schedule :
       schedule[u] \in [Slots(u) -> 0 .. ClusterSize] \cup {Fallback(u)}
  /\ prediction \in Predictions \cup {EmptyMap}
  /\ call.pc \in {"idle", "collect", "select"}
  /\ call.pc = "select" => call.draft \in [Slots(call.uid) -> 0 .. ClusterSize]

\* The job asks for no slot, and may report that it is finished or has no work.
AsksForNothing(u) == DeadLine[u] = 0 /\ \E p \in ProgressValues : NothingLeft(u, p)

(***************************************************************************)
(* GetReplicas (carbon_scaler.go:62) indexes a schedule out of range for   *)
(* one kind of job only, whatever the calls of ComputeSchedule were: a job *)
(* with deadline 0 that was scheduled with nothing left to do.             *)
(***************************************************************************)
IndexInRange ==
  /\ DOMAIN scheduleIndex = DOMAIN schedule
  /\ \A u \in DOMAIN schedule :
       scheduleIndex[u] \in DOMAIN schedule[u] \/ AsksForNothing(u)

(***************************************************************************)
(* The list the greedy loop shrinks and the draft it grows agree: what is  *)
(* left of a slot is exactly the levels above the one the draft has        *)
(* reached.  So a level is never skipped, never taken twice, and a slot is *)
(* never lowered again (carbon_scaler.go:122-138).                         *)
(***************************************************************************)
OptionsAboveDraft ==
  call.pc = "select" =>
    call.list = {o \in Options(call.uid) : o[2] > call.draft[o[1]]}

NothingSuffices == \A s \in Schedules(call.uid) : ~Suffices(call.uid, s, call.progress)

(***************************************************************************)
(* "Deadline too tight" is the truth: when the loop finds no option to     *)
(* take, no schedule at all within the deadline and the replica range is   *)
(* expected to finish the work that is left - if every level has a row.    *)
(***************************************************************************)
RefusalJustified == Stuck /\ Gaps(call.uid) = {} => NothingSuffices

\* What the call read of a slot's intensity did not change while it read it.
Coherent ==
  \A o, p \in DOMAIN call.read : o[1] = p[1] => call.read[o] = call.read[p]

\* Marginal throughput per watt never rises with the number of nodes.
Concave(u) ==
  \A n \in Levels(u) \ {MinReplicas[u]} :
    Row(u, n).marginalThroughput * Row(u, n - 1).marginalPower
      <= Row(u, n - 1).marginalThroughput * Row(u, n).marginalPower

\* The marginals lead from each level to the next, as they do if the rows stand
\* in the order of their nodes: LoadProfile takes the difference to the row before.
Stepwise(u) ==
  \A n \in Levels(u) :
    /\ Row(u, n).marginalThroughput = Row(u, n).throughput - Row(u, n - 1).throughput
    /\ Row(u, n).marginalPower = Row(u, n).power - Row(u, n - 1).power

\* The job may run on one node, and its profile has no gap and no bend upwards.
Smooth(u) ==
  /\ MinReplicas[u] = 1 /\ Levels(u) # {}
  /\ Gaps(u) = {} /\ Concave(u) /\ Stepwise(u)

\* Carbon emitted by a schedule, at the intensities the call has read.
Footprint(u, s) ==
  MapThenSumSet(LAMBDA t : Row(u, s[t]).power * call.read[<<t, MinReplicas[u]>>], DOMAIN s)

(***************************************************************************)
(* What "greedy-optimal" is worth.  For a job that may run on one node,    *)
(* with a concave profile whose rows are in order, and a prediction that   *)
(* did not change under the loop, every draft the loop passes through      *)
(* emits the least carbon of all schedules that do at least as much work.  *)
(***************************************************************************)
GreedyFrontier ==
  LET u == call.uid IN
  (call.pc = "select" /\ Coherent /\ Smooth(u)) =>
    \A s \in Schedules(u) :
      ComputeDone(u, s) >= ComputeDone(u, call.draft) =>
        Footprint(u, s) >= Footprint(u, call.draft)

(***************************************************************************)
(* A call of ComputeSchedule always returns and gives slock back: the      *)
(* greedy loop, whose exit is a comparison of floats, cannot run forever.  *)
(***************************************************************************)
CallReturns == (call.pc # "idle") ~> (call.pc = "idle")

(***************************************************************************)
(* Seen from outside slock this is ScheduleStore: what is installed fits   *)
(* the deadline and the range and does the work, and nothing of a call     *)
(* that is still running, fails or panics shows.                           *)
(***************************************************************************)
Abstract == INSTANCE ScheduleStore
ImplementsStore == Abstract!Spec

-----------------------------------------------------------------------------
(***************************************************************************)
(* carbon_scaler.go:134, "Deadline too tight": no job is refused for which *)
(* there is a schedule.  The level without a row comes after the last one  *)
(* that has a row, and a draft that has reached it does no work there.     *)
(***************************************************************************)
DeadlineTooTight == Stuck => NothingSuffices
=============================================================================
