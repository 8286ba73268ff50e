--------------------------- MODULE ScheduleStore ----------------------------
(***************************************************************************)
(* The AutoScaler as its callers see it: a schedule and a position in it   *)
(* for every job that was ever scheduled by this process.  It promises     *)
(* that a call of ComputeSchedule either moves the position on by one,     *)
(* falls back to MinReplicas when the schedule has run out, or - for a job *)
(* it has not seen - installs a schedule that fits the deadline and the    *)
(* replica range and is expected to finish the work that is left.  How the *)
(* schedule is chosen is left open; CarbonScaler.tla says how, and         *)
(* implements this module.                                                 *)
(***************************************************************************)
EXTENDS Integers, GoMaps

CONSTANTS
  Jobs,           \* the UIDs of the submitted jobs
  ProgressValues, \* the percentages carbonScalerSpec.progress may carry
  Fitting(_, _),  \* the schedules that fit a job of some progress: functions
                  \* from 0-based slots to replicas, possibly none
  Fallback(_)     \* the schedule of a job that has used up its own

VARIABLES
  schedule,       \* s.schedule: partial function from Jobs to schedules
  scheduleIndex   \* s.scheduleIndex: partial function from Jobs to slots

store == <<schedule, scheduleIndex>>

\* []int32{MinReplicas} has a slot; a schedule that fits may have none.
ASSUME FallbackAssumption == \A u \in Jobs : 0 \in DOMAIN Fallback(u)

Init ==
  /\ schedule = EmptyMap
  /\ scheduleIndex = EmptyMap

\* GetReplicas: 0 when there is no schedule.
GetReplicas(u) == IF u \in DOMAIN schedule THEN schedule[u][scheduleIndex[u]] ELSE 0

\* A bug: the position moves on from the last slot too.
FaultyAdvance(u) ==
  /\ u \in DOMAIN schedule
  /\ scheduleIndex[u] \in DOMAIN schedule[u]
  /\ scheduleIndex' = [scheduleIndex EXCEPT ![u] = @ + 1]
  /\ UNCHANGED schedule

\* ComputeSchedule, case 1: the schedule has a next slot.
Advance(u) ==
  /\ u \in DOMAIN schedule
  /\ scheduleIndex[u] + 1 \in DOMAIN schedule[u]
  /\ scheduleIndex' = [scheduleIndex EXCEPT ![u] = @ + 1]
  /\ UNCHANGED schedule

\* A bug: the schedule is left at its last slot.
FaultyExhaust(u) ==
  /\ u \in DOMAIN schedule
  /\ scheduleIndex[u] + 1 \notin DOMAIN schedule[u]
  /\ UNCHANGED store

\* Case 2: the schedule was not enough; MinReplicas from here on.
Exhaust(u) ==
  /\ u \in DOMAIN schedule
  /\ scheduleIndex[u] + 1 \notin DOMAIN schedule[u]
  /\ schedule' = [schedule EXCEPT ![u] = Fallback(u)]
  /\ scheduleIndex' = [scheduleIndex EXCEPT ![u] = 0]

\* Case 3, successful: a schedule for a job that has none.
Install(u, progress) ==
  /\ u \notin DOMAIN schedule
  /\ \E s \in Fitting(u, progress) : schedule' = Put(schedule, u, s)
  /\ scheduleIndex' = Put(scheduleIndex, u, 0)

(***************************************************************************)
(* Case 3, unsuccessful: the profile is missing, or the deadline too tight *)
(* for every schedule.  ComputeSchedule returns an error, nothing changes. *)
(***************************************************************************)
Refuses(u, progress) == u \notin DOMAIN schedule /\ Fitting(u, progress) = {}

\* The process restarts: both maps lived in its memory only.
Restart ==
  /\ schedule' = EmptyMap
  /\ scheduleIndex' = EmptyMap

\* A successful call of ComputeSchedule.
ComputeSchedule(u, progress) ==
  \/ Advance(u)
  \/ Exhaust(u)
  \/ Install(u, progress)

Next ==
  \/ \E u \in Jobs, p \in ProgressValues : ComputeSchedule(u, p)
  \/ Restart

Spec == Init /\ [][Next]_store

-----------------------------------------------------------------------------
TypeOK ==
  /\ DOMAIN schedule \subseteq Jobs
  /\ DOMAIN scheduleIndex = DOMAIN schedule
  /\ \A u \in DOMAIN schedule :
       schedule[u] \in (UNION {Fitting(u, p) : p \in ProgressValues}) \cup {Fallback(u)}

(***************************************************************************)
(* If every schedule that fits has a slot, GetReplicas indexes none out of *)
(* range: the position kept in one map is a slot of the schedule kept in   *)
(* the other (carbon_scaler.go:62 would panic, and the manager die of it). *)
(***************************************************************************)
IndexInRange ==
  /\ DOMAIN scheduleIndex = DOMAIN schedule
  /\ \A u \in DOMAIN schedule : scheduleIndex[u] \in DOMAIN schedule[u]
=============================================================================
