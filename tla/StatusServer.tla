---------------------------- MODULE StatusServer ----------------------------
(***************************************************************************)
(* The status server, status-server.py and utils.py, with the power        *)
(* servers it polls.  Threads:                                             *)
(*   loop      run_forever: looks at all CarbonScalerMPIJobs, starts a     *)
(*             monitor for a new one, tells the monitor of one that has    *)
(*             succeeded or gone to stop, and all of them when anything    *)
(*             raises;                                                     *)
(*   monitors  JobMonitor.run: where are the pods, what do their nodes     *)
(*             draw, how far is the job; reports the progress, sleeps, and *)
(*             looks at self.running only then;                            *)
(*   meters    PowerMeter.run of every power server: another reading.      *)
(* Nothing is locked but the readings of a meter, so the loop writes       *)
(* self.replicas and self.running between any two steps of a monitor, and  *)
(* a monitor that was told to stop works next to the one after it.         *)
(*                                                                         *)
(* How much power is drawn is left out: a reading is there or it is not.   *)
(***************************************************************************)
EXTENDS Integers, FiniteSets, GoMaps

CONSTANTS
  Jobs,         \* names of CarbonScalerMPIJobs
  Nodes,        \* nodes that workers and power servers run on
  Monitors,     \* identities of JobMonitor objects, used again when one is gone
  MaxProgress,  \* 100
  MaxUpsets     \* how often a job shrinks or is deleted, or a call fails

ASSUME MonitorAssumption ==
  IsFiniteSet(Nodes) /\ MaxProgress \in Nat /\ MaxUpsets \in Nat

VARIABLES
  stage,     \* what the conditions of a job and its MPIJob say
  pods,      \* the nodes on which its workers run
  log,       \* the progress in the last line of its log
  recorded,  \* carbonScalerSpec.progress of its object
  readings,  \* per node: has the meter read anything since it was asked?
  loop,      \* run_forever: [pc, snap]
  registry,  \* ... current_jobs: partial function from names to monitors
  monitor,   \* the monitors that exist: [job, running, replicas, progress]
  at,        \* how far the thread of a monitor is, and its locals
  upsets,    \* disturbances so far
  shrunk,    \* history: the names whose job has lost workers or was deleted
  heirs      \* history: the names submitted again too soon, see Submit

cluster == <<stage, pods, log, recorded>>
history == <<shrunk, heirs>>
vars == <<cluster, readings, loop, registry, monitor, at, upsets, history>>

Stages   == {"absent", "bare", "active", "paused", "succeeded", "failed"}
Progress == 0 .. MaxProgress
Free     == [pc |-> "free"]

Init ==
  /\ stage \in [Jobs -> {"absent", "active"}]
  /\ pods = [j \in Jobs |-> {}]
  /\ log = [j \in Jobs |-> 0]
  /\ recorded = [j \in Jobs |-> 0]
  /\ readings = [n \in Nodes |-> FALSE]
  /\ loop = [pc |-> "list", snap |-> EmptyMap]
  /\ registry = EmptyMap
  /\ monitor = EmptyMap
  /\ at = [m \in Monitors |-> Free]
  /\ upsets = 0 /\ shrunk = {} /\ heirs = {}

Upset == upsets < MaxUpsets /\ upsets' = upsets + 1

-----------------------------------------------------------------------------
(* The cluster                                                             *)

Server == <<loop, registry, monitor, at>>

Becomes(j, next) == stage' = [stage EXCEPT ![j] = next]

\* What the status server still has of an earlier job of this name.
Remembered(j) ==
  j \in DOMAIN loop.snap \/ \E m \in DOMAIN monitor : monitor[m].job = j

\* A CarbonScalerMPIJob has no status before the manager's first Reconcile.
\* The log of an earlier job of the name may still be there.
Submit(j) ==
  /\ stage[j] = "absent"
  /\ Becomes(j, "bare")
  /\ recorded' = [recorded EXCEPT ![j] = 0]
  /\ \E first \in {0, log[j]} : log' = [log EXCEPT ![j] = first]
  /\ heirs' = IF Remembered(j) THEN heirs \cup {j} ELSE heirs \ {j}
  /\ UNCHANGED <<pods, readings, Server, upsets, shrunk>>

Reconciled(j) ==
  /\ stage[j] = "bare"
  /\ \E next \in {"active", "paused"} : Becomes(j, next)
  /\ UNCHANGED <<pods, log, recorded, readings, Server, upsets, history>>

\* README.md:112: "it assumes that the server is pods don't share a server".
Taken(j) == UNION {pods[k] : k \in Jobs \ {j}}

Grow(j, nodes) ==
  /\ stage[j] \in {"active", "paused"} /\ nodes # {}
  /\ pods[j] \subseteq nodes /\ nodes \cap Taken(j) = {}
  /\ pods' = [pods EXCEPT ![j] = nodes]
  /\ Becomes(j, "active")
  /\ UNCHANGED <<log, recorded, readings, Server, upsets, history>>

\* Scaled down, paused, or failed.
Shrink(j, nodes, next) ==
  /\ stage[j] = "active" /\ Upset
  /\ nodes \subseteq pods[j]
  /\ next \in (IF nodes = {} THEN {"paused", "failed"} ELSE {"active"})
  /\ pods' = [pods EXCEPT ![j] = nodes]
  /\ Becomes(j, next)
  /\ shrunk' = shrunk \cup {j}
  /\ UNCHANGED <<log, recorded, readings, Server, heirs>>

Advances(j) ==
  /\ pods[j] # {} /\ log[j] < MaxProgress
  /\ log' = [log EXCEPT ![j] = @ + 1]
  /\ UNCHANGED <<stage, pods, recorded, readings, Server, upsets, history>>

Succeeds(j) ==
  /\ stage[j] = "active" /\ pods[j] # {}
  /\ Becomes(j, "succeeded")
  /\ pods' = [pods EXCEPT ![j] = {}]
  /\ UNCHANGED <<log, recorded, readings, Server, upsets, history>>

Delete(j) ==
  /\ stage[j] # "absent" /\ Upset
  /\ Becomes(j, "absent")
  /\ pods' = [pods EXCEPT ![j] = {}]
  /\ shrunk' = shrunk \cup {j}
  /\ UNCHANGED <<log, recorded, readings, Server, heirs>>

\* PowerMeter.run: a second later the power server of n has a reading.
Sample(n) ==
  /\ readings' = [readings EXCEPT ![n] = TRUE]
  /\ UNCHANGED <<cluster, Server, upsets, history>>

\* The power server of n starts, and serves before its first sample is taken.
ServerStarts(n) ==
  /\ readings' = [readings EXCEPT ![n] = FALSE]
  /\ UNCHANGED <<cluster, Server, upsets, history>>

-----------------------------------------------------------------------------
(* The main loop                                                           *)

LoopGoto(pc, snap) == loop' = [pc |-> pc, snap |-> snap]

\* The jobs in snap are still to be visited.
Visit(snap) == LoopGoto(IF snap = EmptyMap THEN "check" ELSE "visit", snap)

\* What get_elastic_jobs tells of a job.
Seen(j) == [stage |-> stage[j], replicas |-> Cardinality(pods[j]), progress |-> recorded[j]]

\* Monitors are told to stop by an assignment, which they see when they look.
Told(stopped) ==
  [m \in DOMAIN monitor |->
     IF m \in stopped THEN [monitor[m] EXCEPT !.running = FALSE] ELSE monitor[m]]

\* A bug: the monitors are forgotten, but not told to stop.
FaultyAbort ==
  /\ registry' = EmptyMap
  /\ LoopGoto("list", EmptyMap)
  /\ UNCHANGED <<cluster, readings, monitor, at, history>>

\* Lines 116 to 120: all monitors are told to stop, and forgotten.
Abort ==
  /\ monitor' = Told({registry[j] : j \in DOMAIN registry})
  /\ registry' = EmptyMap
  /\ LoopGoto("list", EmptyMap)
  /\ UNCHANGED <<cluster, readings, at, history>>

\* utils.py:42: a job without status is a KeyError.
ListFails ==
  /\ loop.pc = "list"
  /\ \E j \in Jobs : stage[j] = "bare"
  /\ Abort
  /\ UNCHANGED upsets

\* A call of the API server raises.
LoopRaises == loop.pc \in {"list", "check"} /\ Upset /\ Abort

List ==
  /\ loop.pc = "list"
  /\ \A j \in Jobs : stage[j] # "bare"
  /\ Visit([j \in {k \in Jobs : stage[k] # "absent"} |-> Seen(j)])
  /\ UNCHANGED <<cluster, readings, registry, monitor, at, upsets, history>>

\* The next of the jobs listed is j.
Visiting(j) ==
  /\ loop.pc = "visit" /\ j \in DOMAIN loop.snap
  /\ Visit(Drop(loop.snap, j))
  /\ UNCHANGED <<cluster, readings, upsets, history>>

StartMonitor(j, m) ==
  LET job == loop.snap[j] IN
  /\ Visiting(j)
  /\ j \notin DOMAIN registry /\ job.stage \in {"active", "paused", "failed"}
  /\ at[m] = Free
  /\ monitor' = Put(monitor, m, [job |-> j, running |-> TRUE,
                                 replicas |-> job.replicas, progress |-> job.progress])
  /\ at' = [at EXCEPT ![m] = [pc |-> "locate"]]
  /\ registry' = Put(registry, j, m)

\* A bug: the monitor that was told to stop is not forgotten.
FaultyStopMonitor(j) ==
  /\ Visiting(j)
  /\ j \in DOMAIN registry /\ loop.snap[j].stage = "succeeded"
  /\ monitor' = Told({registry[j]})
  /\ UNCHANGED <<registry, at>>

StopMonitor(j) ==
  /\ Visiting(j)
  /\ j \in DOMAIN registry /\ loop.snap[j].stage = "succeeded"
  /\ monitor' = Told({registry[j]})
  /\ registry' = Drop(registry, j)
  /\ UNCHANGED at

SetReplicas(j) ==
  /\ Visiting(j)
  /\ j \in DOMAIN registry /\ loop.snap[j].stage # "succeeded"
  /\ monitor' = [monitor EXCEPT ![registry[j]].replicas = loop.snap[j].replicas]
  /\ UNCHANGED <<registry, at>>

PassOver(j) ==
  /\ Visiting(j)
  /\ j \notin DOMAIN registry /\ loop.snap[j].stage = "succeeded"
  /\ UNCHANGED <<registry, monitor, at>>

\* elastic_job_exists, for all that are monitored; then the loop sleeps.
Check ==
  LET gone == {j \in DOMAIN registry : stage[j] = "absent"} IN
  /\ loop.pc = "check"
  /\ monitor' = Told({registry[j] : j \in gone})
  /\ registry' = [j \in DOMAIN registry \ gone |-> registry[j]]
  /\ LoopGoto("list", EmptyMap)
  /\ UNCHANGED <<cluster, readings, at, upsets, history>>

LoopStep ==
  \/ ListFails \/ List \/ Check
  \/ \E j \in Jobs :
       \/ StopMonitor(j) \/ SetReplicas(j) \/ PassOver(j)
       \/ \E m \in Monitors : StartMonitor(j, m)

-----------------------------------------------------------------------------
(* A monitor                                                               *)

Goto(m, state) == at' = [at EXCEPT ![m] = state]

MonitorOnly == UNCHANGED <<cluster, loop, registry, upsets, history>>

\* Its thread ends by an exception nobody catches; the object stays.
Dies(m, cause) == Goto(m, [pc |-> "dead", cause |-> cause])

\* read_power has still to ask the nodes left; then the readings are pruned.
Polling(left, size) ==
  IF left # {} THEN [pc |-> "poll", left |-> left, size |-> size]
  ELSE [pc |-> "prune", item |-> 0, size |-> size, kept |-> 0]

\* get_pods_locations: no locations while the launcher is not running.  A node
\* that is not in power_servers counts as 0 and is not asked: any may be missing.
Locate(m) ==
  /\ at[m].pc = "locate"
  /\ \E found \in {pods[monitor[m].job], {}} : \E asked \in SUBSET found :
       Goto(m, Polling(asked, Cardinality(found)))
  /\ MonitorOnly /\ UNCHANGED <<readings, monitor>>

\* read_power of one node: get_readings copies the buffer and clears it under
\* its lock; the average divides by the number of readings, and there are none
\* if the server has not sampled since it started or was last asked.
Poll(m, n) ==
  /\ at[m].pc = "poll" /\ n \in at[m].left
  /\ readings' = [readings EXCEPT ![n] = FALSE]
  /\ IF readings[n] THEN Goto(m, Polling(at[m].left \ {n}, at[m].size))
     ELSE Dies(m, "no readings")
  /\ MonitorOnly /\ UNCHANGED monitor

\* A bug: one reading too many is kept.
FaultyKeeps(item, replicas) == item <= replicas

\* Lines 47 to 49: the item is kept unless item + 1 > self.replicas.
Keeps(item, replicas) == item + 1 <= replicas

Prune(m) ==
  /\ at[m].pc = "prune" /\ at[m].item < at[m].size
  /\ Goto(m, [pc   |-> "prune", item |-> at[m].item + 1, size |-> at[m].size,
              kept |-> at[m].kept + (IF Keeps(at[m].item, monitor[m].replicas) THEN 1 ELSE 0)])
  /\ MonitorOnly /\ UNCHANGED <<readings, monitor>>

\* Line 50: "Reading error".
Assert(m) ==
  /\ at[m].pc = "prune" /\ at[m].item = at[m].size
  /\ IF at[m].kept <= monitor[m].replicas THEN Goto(m, [pc |-> "update"])
     ELSE Dies(m, "reading error")
  /\ MonitorOnly /\ UNCHANGED <<readings, monitor>>

\* A bug: the progress of the object is trusted more than the log.
FaultyLatest(old, new) == old

\* update_progress: a monitor's own progress never goes down.
Latest(old, new) == IF new > old THEN new ELSE old

UpdateProgress(m) ==
  /\ at[m].pc = "update"
  /\ monitor' = [monitor EXCEPT ![m].progress = Latest(@, log[monitor[m].job])]
  /\ Goto(m, [pc |-> "report"])
  /\ MonitorOnly /\ UNCHANGED readings

\* set_progress: lists the object and patches the version it listed, if it exists.
SetProgress(m) ==
  LET j == monitor[m].job IN
  /\ at[m].pc = "report"
  /\ recorded' = IF stage[j] = "absent" THEN recorded
                 ELSE [recorded EXCEPT ![j] = monitor[m].progress]
  /\ Goto(m, [pc |-> "sleep"])
  /\ UNCHANGED <<stage, pods, log, readings, loop, registry, monitor, upsets, history>>

\* The patch conflicts with another writer of the object: nothing is said.
ProgressRefused(m) ==
  /\ at[m].pc = "report" /\ stage[monitor[m].job] # "absent" /\ Upset
  /\ Goto(m, [pc |-> "sleep"])
  /\ UNCHANGED <<cluster, readings, loop, registry, monitor, history>>

\* A bug: the thread does not look whether it should stop.
FaultyWake(m) ==
  /\ at[m].pc = "sleep"
  /\ Goto(m, [pc |-> "locate"])
  /\ MonitorOnly /\ UNCHANGED <<readings, monitor>>

\* The watch period is over, which may be as short as a sample takes.
Wake(m) ==
  /\ at[m].pc = "sleep"
  /\ Goto(m, [pc |-> IF monitor[m].running THEN "locate" ELSE "save"])
  /\ MonitorOnly /\ UNCHANGED <<readings, monitor>>

\* save_results: result-<job>.csv is written anew; the thread ends.
Save(m) ==
  /\ at[m].pc = "save"
  /\ Goto(m, Free)
  /\ monitor' = Drop(monitor, m)
  /\ MonitorOnly /\ UNCHANGED readings

\* Nobody refers to a dead monitor any more.
Collect(m) ==
  /\ at[m].pc = "dead" /\ ~monitor[m].running
  /\ Goto(m, Free)
  /\ monitor' = Drop(monitor, m)
  /\ MonitorOnly /\ UNCHANGED readings

\* Lines 44, 45 and 58 call servers, which may be down, outside of any try.
MonitorRaises(m) ==
  /\ at[m].pc \in {"locate", "poll", "report"} /\ Upset
  /\ Dies(m, "raised")
  /\ UNCHANGED <<cluster, readings, loop, registry, monitor, history>>

MonitorStep(m) ==
  \/ Locate(m) \/ (\E n \in Nodes : Poll(m, n)) \/ Prune(m) \/ Assert(m)
  \/ UpdateProgress(m) \/ SetProgress(m) \/ Wake(m) \/ Save(m) \/ Collect(m)

Next ==
  \/ \E j \in Jobs :
       \/ Submit(j) \/ Reconciled(j) \/ Advances(j) \/ Succeeds(j) \/ Delete(j)
       \/ \E nodes \in SUBSET Nodes :
            Grow(j, nodes) \/ \E next \in Stages : Shrink(j, nodes, next)
  \/ \E n \in Nodes : Sample(n) \/ ServerStarts(n)
  \/ LoopStep \/ LoopRaises
  \/ \E m \in Monitors : MonitorStep(m) \/ MonitorRaises(m) \/ ProgressRefused(m)

\* Threads run, meters read, and the manager gives every job a status.
Spec ==
  /\ Init /\ [][Next]_vars
  /\ WF_vars(LoopStep)
  /\ \A m \in Monitors : WF_vars(MonitorStep(m))
  /\ \A n \in Nodes : WF_vars(Sample(n))
  /\ \A j \in Jobs : WF_vars(Reconciled(j))

-----------------------------------------------------------------------------
AtType(state) ==
  /\ state.pc \in {"free", "locate", "poll", "prune", "update", "report",
                   "sleep", "save", "dead"}
  /\ state.pc = "poll" => state.left \subseteq Nodes /\ state.size \in Nat
  /\ state.pc = "prune" => /\ state.size \in Nat /\ state.item \in 0 .. state.size
                           /\ state.kept \in 0 .. state.item
  /\ state.pc = "dead" => state.cause \in {"no readings", "reading error", "raised"}

TypeOK ==
  /\ stage \in [Jobs -> Stages]
  /\ pods \in [Jobs -> SUBSET Nodes]
  /\ log \in [Jobs -> Progress] /\ recorded \in [Jobs -> Progress]
  /\ readings \in [Nodes -> BOOLEAN]
  /\ loop.pc \in {"list", "visit", "check"} /\ DOMAIN loop.snap \subseteq Jobs
  /\ \A j \in DOMAIN loop.snap :
       loop.snap[j] \in [stage : Stages, replicas : Nat, progress : Progress]
  /\ DOMAIN at = Monitors /\ \A m \in Monitors : AtType(at[m])
  /\ DOMAIN monitor = {m \in Monitors : at[m] # Free}
  /\ \A m \in DOMAIN monitor :
       monitor[m] \in [job : Jobs, running : BOOLEAN, replicas : Nat, progress : Progress]
  /\ DOMAIN registry \subseteq Jobs
  /\ \A j \in DOMAIN registry : registry[j] \in DOMAIN monitor
  /\ upsets \in 0 .. MaxUpsets
  /\ shrunk \subseteq Jobs /\ heirs \subseteq Jobs

(***************************************************************************)
(* A monitor that was not told to stop is the one current_jobs has for its *)
(* job, so that it will be told: no thread is forgotten, and no job has    *)
(* two monitors that mean to go on, whatever raises in the loop.           *)
(***************************************************************************)
RunningIsRegistered ==
  \A m \in DOMAIN monitor :
    monitor[m].running =>
      monitor[m].job \in DOMAIN registry /\ registry[monitor[m].job] = m

(***************************************************************************)
(* The assertion "Reading error" (status-server.py:50) never fails for a   *)
(* job that has only grown: the nodes a monitor finds may outnumber the    *)
(* replicas it was told, by a loop that is slower than the scaling, but    *)
(* the surplus is cut, and the loop writes self.replicas between the cut   *)
(* and the assertion without harm unless the job has lost workers.         *)
(***************************************************************************)
ReadingErrorsExplained ==
  \A m \in DOMAIN monitor :
    (at[m].pc = "dead" /\ at[m].cause = "reading error") => monitor[m].job \in shrunk

\* The job's monitor has died, after which nobody replaces it.
Unwatched(j) == j \in DOMAIN registry /\ at[registry[j]].pc = "dead"

(***************************************************************************)
(* The object of a running job shows the progress in its log in the end -  *)
(* although every exception of the loop replaces all monitors, and a       *)
(* monitor that was told to stop may still write an older number - unless  *)
(* the job's monitor has died.  A job that was submitted while the status  *)
(* server still remembered one of its name (utils.py:76) may be left with  *)
(* the higher number of that one, but never with less than it has done.    *)
(***************************************************************************)
ProgressCatchesUp ==
  \A j \in Jobs :
    <>[](stage[j] = "active") =>
      <>[](\/ recorded[j] = log[j]
           \/ recorded[j] > log[j] /\ j \in heirs
           \/ Unwatched(j))

(***************************************************************************)
(* A monitor that was told to stop finishes its round, writes its results  *)
(* and ends.                                                               *)
(***************************************************************************)
StoppedEnd ==
  \A m \in Monitors :
    (m \in DOMAIN monitor /\ ~monitor[m].running) ~> at[m] = Free

=============================================================================
