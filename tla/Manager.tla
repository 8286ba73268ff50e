------------------------------ MODULE Manager -------------------------------
(***************************************************************************)
(* The manager's process between the carbon service and the AutoScaler:    *)
(* main.go and carbon_webhook.go.  The process registers, waits to be the  *)
(* leader, serves pushes and dies with all it knows; the carbon service    *)
(* (CarbonAgent.tla, here its loop alone) pushes once an hour.  Every push *)
(* starts a goroutine that calls ComputeSchedule for every job, and the    *)
(* service does not wait for it: the hours and the positions in the        *)
(* schedules are two clocks that nothing but the pushes keeps together.    *)
(*                                                                         *)
(* A step of ScheduleStore is one call of ComputeSchedule.  plan and       *)
(* missed are history variables: they say of what hours the schedules are. *)
(***************************************************************************)
EXTENDS ScheduleStore, FiniteSets

CONSTANTS
  TraceLength,  \* hours in the trace, which starts over at its end
  MaxSlots,     \* no schedule has more slots
  MaxCalls,     \* goroutines on their way at the same time
  MaxFaults     \* deaths, lost pushes and refused registrations

VARIABLES
  hour,        \* the carbon service: self._current_idx
  agent,       \* ... its loop: "push", "posted" or "sleep"
  registered,  \* ... the row of the manager in its table
  pc,          \* how far main is: "down", "register", "answered", "elect", "serve"
  status,      \* the hour CarbonStatus is of, None before the first
  calls,       \* per job, calls of ComputeSchedule goroutines have still to make
  plan,        \* history: per planned job, of what hours its schedule is
  missed,      \* history: pushes lost since the one status is from
  faults

vars == <<store, hour, agent, registered, pc, status, calls, plan, missed, faults>>

Hours    == 0 .. TraceLength - 1
None     == -1  \* no hour
Service  == <<hour, agent, registered>>
NoCalls  == [u \in Jobs |-> 0]
Statuses == Hours \cup {None}

\* An hour's place in the trace says which hour it is as long as the slots of
\* a schedule, and the hours it may be late by, do not reach around the trace.
\* The shipped trace has 30 hours, and the job of the example one slot.
ASSUME HorizonAssumption ==
  /\ MaxSlots \in Nat \ {0} /\ MaxCalls \in Nat \ {0} /\ MaxFaults \in Nat
  /\ TraceLength \in Nat /\ TraceLength > MaxSlots + MaxCalls + MaxFaults + 1
  /\ \A u \in Jobs :
       /\ Fallback(u) \in [{0} -> Int]
       /\ \A p \in ProgressValues : \A s \in Fitting(u, p) :
            \E n \in 1 .. MaxSlots : DOMAIN s = 0 .. n - 1

\* A bug: the process that comes back remembers its schedules.
FaultyBlank ==
  /\ status' = None /\ calls' = NoCalls /\ missed' = 0
  /\ UNCHANGED <<store, plan>>

\* The memory of a process that has just started.
Blank ==
  /\ schedule' = EmptyMap /\ scheduleIndex' = EmptyMap
  /\ status' = None /\ calls' = NoCalls /\ plan' = EmptyMap /\ missed' = 0

ManagerInit ==
  /\ Init
  /\ hour = 0 /\ agent = "push" /\ registered = FALSE
  /\ pc = "down" /\ status = None /\ calls = NoCalls /\ plan = EmptyMap
  /\ missed = 0 /\ faults = 0

Fault == faults < MaxFaults /\ faults' = faults + 1

-----------------------------------------------------------------------------
(* main                                                                    *)

\* The container is started: main gets as far as Register.
Start ==
  /\ pc = "down"
  /\ pc' = "register"
  /\ Blank
  /\ UNCHANGED <<Service, faults>>

\* The post of Register arrives: the row is there, the answer on its way.
Register ==
  /\ pc = "register"
  /\ pc' = "answered"
  /\ registered' = TRUE
  /\ status' = hour /\ missed' = 0
  /\ UNCHANGED <<store, hour, agent, calls, plan, faults>>

\* carbon_webhook.go:105: an answer other than 200, before or after the row
\* was committed; err is nil there, and so Register succeeds.
RegisterRefused ==
  /\ pc = "register" /\ Fault
  /\ pc' = "elect"
  /\ registered' \in {registered, TRUE}
  /\ UNCHANGED <<store, hour, agent, status, calls, plan, missed>>

\* mgr.Start waits for the lease, which an earlier process may hold, ...
Answered ==
  /\ pc = "answered"
  /\ pc' = "elect"
  /\ UNCHANGED <<store, Service, status, calls, plan, missed, faults>>

\* ... and starts what was added to it, the webhook's listener among it.
Elected ==
  /\ pc = "elect"
  /\ pc' = "serve"
  /\ UNCHANGED <<store, Service, status, calls, plan, missed, faults>>

\* The process ends, in any of the ways of main.go or of the cluster; Start
\* of the webhook waits for no handler (see the README), nobody for goroutines.
Stop ==
  /\ pc # "down" /\ Fault
  /\ pc' = "down"
  /\ Blank
  /\ agent' = IF agent = "posted" THEN "sleep" ELSE agent
  /\ UNCHANGED <<hour, registered>>

-----------------------------------------------------------------------------
(* A push and what it starts                                               *)

\* A bug: the status is stored in a copy.
FaultyPush ==
  /\ agent = "push" /\ registered /\ pc = "serve"
  /\ \A u \in Jobs : calls[u] < MaxCalls
  /\ agent' = "posted"
  /\ UNCHANGED <<store, hour, registered, pc, status, calls, plan, missed, faults>>

\* ServeHTTP stores the status, ...
Push ==
  /\ agent = "push" /\ registered /\ pc = "serve"
  /\ \A u \in Jobs : calls[u] < MaxCalls
  /\ agent' = "posted"
  /\ status' = hour /\ missed' = 0
  /\ UNCHANGED <<store, hour, registered, pc, calls, plan, faults>>

\* ... starts a goroutine and returns, which answers the post.
Spawn ==
  /\ agent = "posted"
  /\ agent' = "sleep"
  /\ calls' = [u \in Jobs |-> calls[u] + 1]
  /\ UNCHANGED <<store, hour, registered, pc, status, plan, missed, faults>>

\* Nobody listens: no process, or one that does not lead yet.
PushUnheard ==
  /\ agent = "push" /\ (~registered \/ pc # "serve")
  /\ agent' = "sleep"
  /\ UNCHANGED <<store, hour, registered, pc, status, calls, plan, missed, faults>>

\* The post fails on its way; the service logs that and goes on.
PushLost ==
  /\ agent = "push" /\ registered /\ pc = "serve" /\ Fault
  /\ agent' = "sleep"
  /\ plan' = [u \in DOMAIN plan |-> [from |-> plan[u].from, late |-> plan[u].late + 1,
                                     early |-> plan[u].early]]
  /\ missed' = missed + 1
  /\ UNCHANGED <<store, hour, registered, pc, status, calls>>

\* The hour is over, whether or not the goroutines of its push are.
Tick ==
  /\ agent = "sleep"
  /\ agent' = "push"
  /\ hour' = IF hour = TraceLength - 1 THEN 0 ELSE hour + 1
  /\ UNCHANGED <<store, registered, pc, status, calls, plan, missed, faults>>

\* What is still to come for u from pushes up to the hour of the status.
Pending(u) == calls[u] + (IF agent = "posted" THEN 1 ELSE 0)

CallEnds(u) ==
  /\ calls[u] > 0
  /\ calls' = [calls EXCEPT ![u] = @ - 1]
  /\ UNCHANGED <<Service, pc, status, missed, faults>>

\* ScheduleJob: the calls overtaken by this one will move its new schedule on.
ComputeNew(u, progress) ==
  /\ CallEnds(u)
  /\ Install(u, progress)
  /\ plan' = Put(plan, u, [from |-> status, late |-> missed, early |-> Pending(u) - 1])

ComputeNext(u) == CallEnds(u) /\ Advance(u) /\ UNCHANGED plan

ComputeLast(u) == CallEnds(u) /\ Exhaust(u) /\ plan' = Drop(plan, u)

ComputeRefused(u, progress) ==
  /\ CallEnds(u)
  /\ Refuses(u, progress)
  /\ UNCHANGED <<store, plan>>

Call(u) ==
  \/ ComputeNext(u)
  \/ ComputeLast(u)
  \/ \E p \in ProgressValues : ComputeNew(u, p) \/ ComputeRefused(u, p)

MainStep    == Start \/ Register \/ Answered \/ Elected
ServiceStep == Push \/ Spawn \/ PushUnheard \/ Tick

ManagerNext ==
  \/ MainStep \/ RegisterRefused \/ Stop
  \/ ServiceStep \/ PushLost
  \/ \E u \in Jobs : Call(u)

\* The process is restarted and gets the lease, the service's loop goes on
\* and goroutines are scheduled; faults are capped, so they cease.
ManagerSpec ==
  /\ ManagerInit /\ [][ManagerNext]_vars
  /\ WF_vars(MainStep) /\ WF_vars(ServiceStep)
  /\ \A u \in Jobs : WF_vars(Call(u))

-----------------------------------------------------------------------------
Plans == [from : Hours, late : 0 .. MaxFaults, early : 0 .. MaxCalls]

ManagerTypeOK ==
  /\ TypeOK /\ IndexInRange
  /\ hour \in Hours
  /\ agent \in {"push", "posted", "sleep"}
  /\ registered \in BOOLEAN
  /\ pc \in {"down", "register", "answered", "elect", "serve"}
  /\ status \in Statuses
  /\ calls \in [Jobs -> 0 .. MaxCalls]
  /\ DOMAIN plan \subseteq DOMAIN schedule
  /\ \A u \in DOMAIN plan : plan[u] \in Plans
  /\ missed \in 0 .. MaxFaults
  /\ faults \in 0 .. MaxFaults

(***************************************************************************)
(* ComputeSchedule never runs on the empty prediction a process starts     *)
(* with, which carbon_scaler.go:102 would index out of range: ServeHTTP    *)
(* stores the status of a push before it starts the goroutine.             *)
(***************************************************************************)
PredictionPresent ==
  \A u \in Jobs : calls[u] > 0 => pc = "serve" /\ status # None

\* The hours from h to k, around the end of the trace if need be.
Distance(h, k) == IF k >= h THEN k - h ELSE k - h + TraceLength

\* The hours since the first of u's schedule.
Passed(u) == Distance(plan[u].from, hour)

\* This hour's push is stored and all its goroutines are done.
AtRest(u) == agent = "sleep" /\ calls[u] = 0

(***************************************************************************)
(* A job is in the slot that was planned for this hour: slot i of a        *)
(* schedule is computed for the i-th hour of the prediction, but executed  *)
(* when the i-th later call comes.  Only two things set the clocks apart,  *)
(* each by one slot and no restart or registration does: a lost push makes *)
(* the job late, and a goroutine that was still on its way when the        *)
(* schedule was computed makes it early.                                   *)
(***************************************************************************)
SlotOfTheHour ==
  \A u \in DOMAIN plan :
    AtRest(u) => scheduleIndex[u] = Passed(u) - plan[u].late + plan[u].early

(***************************************************************************)
(* Once the manager is registered every job that can be scheduled is, and  *)
(* when it outlives its schedule it is not parked at a paused slot but     *)
(* runs with minReplicas for good ("Case 2 Schedule exist and it was not   *)
(* enough"): after lost pushes, deaths and elections too.                  *)
(***************************************************************************)
OverdueJobsKeepRunning ==
  \A u \in Jobs :
    (registered /\ \A p \in ProgressValues : Fitting(u, p) # {}) ~>
      [](u \in DOMAIN schedule /\ GetReplicas(u) = Fallback(u)[0])

=============================================================================
