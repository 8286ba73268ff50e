# CarbonScaler in TLA+

CarbonScaler runs elastic MPI jobs on Kubernetes so that they emit little
carbon: it scales a job up in the hours in which electricity is clean and down,
or to nothing, in the others. This directory holds TLA+ modules that model the
program, TLC configurations that check them on small instances, and proofs that
TLAPS checks for every value of the constants. Paths below are relative to the
repository; `controllers/` stands for `src/src/controllers/` in `PROJECT.json`.

## 1. The system

| part | code | state it keeps | operations | talks to |
|---|---|---|---|---|
| carbon service (CarbonAgent) | `carbon_service/carbon_service.py` | the current hour of a trace, a flag, a table of registered addresses in a SQLite file | register, set_index, the announcing loop | posts to every registered application |
| CarbonWebhook | `controllers/carbon_webhook.go` | last carbon status (in the AutoScaler) | Register at start-up, Start and Shutdown, ServeHTTP for every push | carbon service; starts a goroutine that runs ScheduleJobs |
| AutoScaler | `controllers/interfaces.go`, `carbon_scaler.go`, `fixed_scaler.go`, `profiles.go` | per job a schedule and a position in it, in memory; the prediction | UpdateCarbonStatus, ComputeSchedule, GetReplicas | called by the webhook, by ScheduleJob and by Reconcile; slock serialises the last two |
| controller | `controllers/carbonscalermpijob_controller.go` | none of its own: objects in the API server, read through informer caches | Reconcile, ScheduleJobs/ScheduleJob, deleteLauncher, UpdateJobStatus | API server, work queue, training operator |
| manager | `src/main.go` | flags, the process itself | registers, waits to lead, serves, ends | wires the parts above |
| API types | `src/api/v1` | the CarbonScalerMPIJob | | |
| status server | `status-server/` | `current_jobs`; one monitor thread per job, its log of readings | main loop (run_forever), JobMonitor.run, set_progress | API server, power servers, log files, carbon service |
| power server | `monitoring/` | a buffer of power readings under a lock | PowerMeter.run, get_readings | RAPL counters; polled by the status server |
| training operator, API server, informers, work queue | not in the repository | MPIJobs, pods, versions | modelled from how the code uses them; marked external in the map | |

How a slot passes: the carbon service posts the current intensity and a
prediction (`carbon_service.py:134`); `ServeHTTP` stores it and starts
`ScheduleJobs` on a goroutine (`carbon_webhook.go:137`); for every job that has
not ended ScheduleJob calls ComputeSchedule (which moves the job to its next
slot, or computes a schedule when there is none), reads the replicas of that
slot and writes them into the CarbonScalerMPIJob. The event of that write queues
the job for Reconcile, which asks the AutoScaler for the replicas *again* and
creates, updates or deletes the MPIJob accordingly; after an update it deletes
the launchers, so that mpirun starts over with the new number of workers.

What is hard about it:

* **No lock around most of it.** `slock` protects the two maps of the scaler
  only. The prediction, the index of the carbon service and the replicas of a
  monitor are written by one thread while another reads them.
* **Stale reads.** Reconcile and ScheduleJob read from informer caches that
  lag; their writes carry the version they read and are refused when it is old.
  MPIJobs are not watched (`SetupWithManager` names only the CR).
* **Partial failure.** Reconcile returns nil after most errors, so nothing is
  retried before the next event, push or ten-hour resync.
* **Crashes.** Schedules live in memory, the objects in the API server; the
  process registers with the carbon service before it leads and listens.
* **Two clocks.** Slot i of a schedule is planned for the i-th hour of the
  prediction but executed when the i-th later push comes, and nothing in a push
  says of which hour it is.
* **Arithmetic at the edges**: the last slot, a deadline of zero or less, a
  prediction shorter than a deadline, a profile with missing rows, a trace that
  wraps and a window longer than it, an energy counter that starts over.

`PROJECT.json` lists each of these at its line under `hazards`, with the
properties that would catch it going wrong.

What makes each component correct: the AutoScaler indexes no schedule that has a
slot out of range, finds a schedule whenever there is one, returns, and wastes no
carbon; the
controller keeps the cluster at what the schedules ask for, runs no job with a
forbidden number of workers, records the end of a job once and truly, and never
destroys what the status server reports; the carbon service tells everybody
every hour, and the right hour; the manager is in the slot of the hour and never
computes from the empty prediction it starts with; the status server forgets no
monitor it has and reports a job's progress as long as the job's monitor is alive;
the power server loses no reading and gives none
twice.

## 2. The modules

`Workload` (parameters of jobs, profiles, what a schedule is worth) is extended
by `CarbonScaler` and `Reconciler`; `GoMaps` is Go's maps as functions. `Manager`
extends `ScheduleStore`; `CarbonAgent`, `StatusServer` and `PowerMeter` stand for
themselves.

**`ScheduleStore`** is the abstract specification of the AutoScaler: per job a
schedule and a position. A call of ComputeSchedule moves the position on
(`Advance`), falls back to minReplicas for good (`Exhaust`) or installs *some*
schedule that fits deadline, range and work (`Install`); it says nothing of how.

**`CarbonScaler`** is `carbon_scaler.go` in detail. `call` is the one call that
holds slock: its locals while it collects options (one step per iteration of the
two loops, because UpdateCarbonStatus takes no lock and a push may fall between
two reads of the prediction), then the list that shrinks and the draft that
grows (one step per option chosen). `Panic` is the index out of range when a
prediction is shorter than the deadline, and make with a negative one; `ReadPanic`
is GetReplicas (line 62) with an empty schedule. Nobody recovers a panic, the
process dies.
The comparison of options by value is `Better` (products instead of quotients);
ties are left open as `sort.Slice` is not stable. Levels without a row in the
profile (`Gaps`) have the zero row, as `LoadProfile` leaves it. `Abstract == INSTANCE
ScheduleStore` and `ImplementsStore == Abstract!Spec` state the refinement; the
refinement mapping is the identity on the two maps.

**`Reconciler`** composes the rest of the manager with its cluster. It uses the
AutoScaler through `Scaler == INSTANCE ScheduleStore`: that ComputeSchedule is
one atomic step there is what the refinement above justifies. Threads are `rec`
(the one worker of the controller) and `sweep[g]` (goroutines of ServeHTTP); a
step ends where the code calls the API server, takes slock or reads a cache.

| code | actions |
|---|---|
| ServeHTTP, ScheduleJobs, ScheduleJob | `Post`, `NextJob`, `Compute` / `ComputeFails`, `ReadReplicas`, `Update` / `UpdateFails` |
| Reconcile | `Dequeue`, `Get`, `Scale`, `Proceed`, then `CreateBase`, `DeleteBase`, `UpdateBase` or `KeepStopped` (or `ApplyFails`), `WriteStatus` / `WriteStatusFails` |
| deleteLauncher | `ListLaunchers`, `DeleteLauncher`, `LaunchersDeleted` |
| set_progress of the status server | `ReportProgress` |
| API server, informers, queue | `Submit`, `CacheObject`, `CacheBase`, `CachePod`, `Resync`, version bookkeeping `crHeld`, `mpiFresh` |
| training operator | `StartLauncher`, `BaseStatus`, `BaseRuns`, `BaseEnds` |
| manager | `Crash` (every thread, cache and schedule is lost, the objects are not) |

Versions are not counted. A write is refused when it names a version the object
no longer has, so it is enough to know *who holds the current one*: `crHeld[j]`
for a CarbonScalerMPIJob (the cache, the worker, a goroutine) and `mpiFresh`
for an MPIJob (the cache). `HeldIsCurrent` says what that representation means.

**`CarbonAgent`** is the carbon service, with a step wherever the code reads or
writes the index or the flag: `Fetch`, `Wait`, `Wake`, `Clear`, `ReadIndex`,
`WriteIndex` are `CarbonAgent.run`; `SetIndex` and `SetFlag` are `set_trace_idx`;
`Register` and the readers are `register_address`, `_send_carbon_update` and
`predict_carbon_real` with numpy's slices, negative bounds and windows beyond the
trace included. An hour stands for its intensity. `Reach(hour)` is how many hours a
message has: the window, or what is left to the end of the second run through the
trace.

**`Manager`** is the process between the two: `main.go` and `carbon_webhook.go`,
against the loop of the carbon service. It extends `ScheduleStore`, so that a
step of a goroutine is one atomic call of ComputeSchedule, again by the
refinement; what the goroutine does to the objects is in `Reconciler`.

| code | actions |
|---|---|
| `main`: flags, NewScaler, Register (`main.go:130`) | `Start`, `Register`, `RegisterRefused` |
| `mgr.Start`: the lease, then the webhook's listener | `Answered`, `Elected` |
| any end of the process | `Stop` |
| ServeHTTP | `Push` (stores the status), `Spawn` (starts the goroutine, answers) |
| the loop of the carbon service | `Push`, `PushUnheard`, `PushLost`, `Tick` |
| one ComputeSchedule of a goroutine | `ComputeNew`, `ComputeNext`, `ComputeLast`, `ComputeRefused` |

`calls[u]` counts the calls that goroutines on their way will still make for
job u. `plan` and `missed` are history variables: of which hour the first slot
of a schedule is, how many pushes were lost since (`late`), and how many calls
were still on their way when it was computed (`early`).

**`StatusServer`** is `status-server.py` and `utils.py`. Threads: the main loop
(`loop`) and one per monitor (`at[m]`), with the meters as far as a poll can tell
(`readings[n]`: is there any since the server started or was last asked?). The
jobs, nodes and logs around them are in `stage`, `pods`, `log` and `recorded`.

| code | actions |
|---|---|
| run_forever: list, visit the jobs, look for deleted ones | `List`, `StartMonitor`, `StopMonitor`, `SetReplicas`, `PassOver`, `Check` |
| its `except` | `Abort`, in `ListFails` (a job without status, `utils.py:42`) and `LoopRaises` |
| JobMonitor.run | `Locate`, `Poll` for every node, `Prune` item by item, `Assert`, `UpdateProgress`, `SetProgress` / `ProgressRefused`, `Wake`, `Save`; `MonitorRaises`, and `Dies` in several |
| power servers | `Sample`, `ServerStarts` |
| the cluster | `Submit`, `Reconciled`, `Grow`, `Shrink`, `Advances`, `Succeeds`, `Delete` |

Identities of monitors are used again when nobody refers to one any more (`Save`,
`Collect`). Two history variables serve the properties: `shrunk` has the names of
jobs that have lost workers or were deleted, for `ReadingErrorsExplained`; `heirs`
those that were submitted again while the server still remembered a job of that
name, listed or monitored, for `ProgressCatchesUp`.

**`PowerMeter`** is `monitoring/`. `SampleFirst` and `SampleSecond` read one domain
each, while every domain may `Draw` energy; `Difference` is `RAPLDomain.__sub__`;
`Append`, `Copy` and `Clear` are what happens under the lock. `drawn` and `got` are
history variables.

`MCCarbonScaler`, `MCReconciler` and `MCManager` give the constants of the runs
values; `CarbonScaler_proofs`, `Reconciler_proofs`, `CarbonAgent_proofs`,
`Manager_proofs`, `StatusServer_proofs`, `StatusServerDeaths_proofs` and
`PowerMeter_proofs` hold the theorems, `Sums_proofs` what they need of sums.

### Choices a reader should know

* Throughputs, powers and intensities are integers; the code parses floats and
  only adds, multiplies and compares them.
* `SpecAssumption`: a job asks for at least one replica. The CRD sets no lower
  bound; with minReplicas 0 the value of an option is 0/0.
* Deadlines are any int32, as in the CRD. With deadline 0 and nothing left to do
  (progress 100, or no work) the stored schedule is empty and `GetReplicas`
  panics; with deadline 0 and work left the job is refused; with a negative one
  make panics. All of that is in CarbonScaler. `DeadLineAssumption` leaves the jobs
  that make the manager die at every push out of Reconciler, and
  `HorizonAssumption` those without a slot out of Manager.
* `ProfileAssumption`: the entries are integers, and of the levels the scheduler
  may use those with a row do more work with more nodes, for more power; some may
  have no row. Nothing is assumed of the order of the rows. The shipped
  profiles end at 7 nodes and `main.go:116` sets the cluster to 8. The value of a
  level without row is 0/0, so the comparison of `carbon_scaler.go:112` is no order
  and `sort.Slice` promises nothing: with such levels the model leaves open which
  option comes first, and `RefusalJustified` and `GreedyFrontier` are about
  profiles without gaps. (Up to 12 options `sort.Slice` is an insertion sort; the
  counterexample of DeadlineTooTight is what that does.)
* A row's marginals are the differences to the row *before it in the file*
  (`profiles.go`), so rows out of order, or two rows of one level, give marginals
  that lead from no level to the next. `GreedyFrontier` is therefore about `Smooth`
  profiles: from one node up, without gaps, concave, and `Stepwise`. The shipped
  files are in order. (TLC's profiles are, too; that the condition is needed came
  out of the proof.)
* `ClearGeneratedFields` (line 187, of the training operator's library) is taken
  to clear UID and creation time, not the resource version.
* "None" stands for an MPIJob without conditions, or with none but Created.
* `ReportProgress` is one step: set_progress lists the object and patches it
  with the whole of what it listed, version included, so a patch that takes
  effect found the object as it was listed. Progress may go *down* in the model:
  a monitor told to stop may still finish its round with an older number.
* The work queue is a set, as it drops duplicates; every queued job has its turn.
* Manager: `Start` of the webhook returns ErrServerClosed (`carbon_webhook.go:66`)
  as soon as Shutdown begins, so line 69 never waits for a handler and `Stop` may
  hit any step of a goroutine. The shipped deployment asks for leader election, so
  `Elected` may come late. One process is modelled; the other replica of a rolling
  update is one that waits. The status in the answer to Register is stored, yet no
  ComputeSchedule runs before the next push. set_index and restarts of the carbon
  service, which make the hours jump, are CarbonAgent's.
* `HorizonAssumption`: a schedule, with all it may be late by, does not reach around
  the trace, as otherwise its place in the trace would not tell which hour is
  meant. The shipped trace has 30 hours (60 rows of half an hour), the shipped
  example job one slot; a schedule longer than that is outside of `SlotOfTheHour`.
* CarbonAgent assumes nothing of the window. Which one the process runs with is
  chosen when it starts (`window`).
* StatusServer assumes nothing of how the watch period (5 s by default, 1 s as
  deployed, `status-server.yaml:39`) compares with the second a sample takes: `Wake`
  and `Sample` are independent steps, buffers start empty, and a power server that
  starts again has an empty one (`ServerStarts`). So any poll may find nothing, and
  its monitor dies.
* StatusServer: a job may be deleted and submitted again under its name, at any
  moment; the log the new one starts with is a new one or that of the job before.
  A shipped job with status has one of the conditions the loop looks for, so
  "undefined" is "active".
* StatusServer: pods of two jobs do not share a node, as README.md:112 demands. The
  power servers a monitor got when it was made are not listed again; one that has
  moved is a call that raises, and a node that had none then is counted as 0 without
  being asked: `Locate` leaves open which nodes of a job these are.
* PowerMeter: a counter runs from 0 to max_energy_range_uj and starts over. The
  sum over domains and the division by the time between the samples are left out.
* A post of the carbon service ends as delivered or as failed; the agent logs
  either and goes on, so one action stands for both.

## 3. The runs

| run | question | instance | states |
|---|---|---|---|
| CarbonScaler | Does the greedy loop keep list and draft in step, refuse only the impossible, pass only through carbon-optimal drafts, return, and implement ScheduleStore? | five jobs: from 1 node, from 2 nodes, one whose range goes beyond its profile, one with deadline 0 and no work and one with a negative deadline; up to 2 slots, progress 0 or 40, three predictions of which one is too short, a push between any two reads | 204 k |
| Reconciler | Does an MPIJob always have an allowed number of workers, and its launcher the same, and is a recorded end real, with stale caches, conflicts, lost answers and crashes? | one job scaled between 1 and 2 nodes, two faults | 1.2 M |
| ReconcilerTwoSweeps | Do two overlapping pushes and a reporting status server never destroy progress, and is a finished MPIJob kept until its end is recorded, under the fixed policy? | two goroutines, one fault | 599 k |
| ReconcilerLive | Does the cluster get to what the schedules ask for, is an end reported, and never replaced by a later slot? | one job that pauses and runs, fairness, no faults | 139 k |
| ReconcilerRefusal | Is a job scheduled although another one cannot be? | two jobs, pushes for ever | 155 k |
| CarbonAgent | Does no prediction ever have a gap? Once set_index is left alone: is every round right, do the hours pass, is everybody told for ever? | two applications, one pool worker, one setter, a trace of 2 hours, windows of 2 and 4 | 132 k |
| Manager | Is every job in the slot of the hour, has the process received a status before it computes, and does a job end up with minReplicas for good? | one job of 1 or 2 slots, one that cannot be scheduled, a trace of 8 hours, two goroutines, two faults | 19 k |
| StatusServer | Is no monitor forgotten, whose reading assertion may fail, is progress reported in the end, do stopped monitors end? | one job on one node, submitted again after its deletion, a monitor and the one after it, one disturbance | 293 k |
| PowerMeter | Is a domain credited with what it drew, and is every reading given once? | two domains, two pollers, counters of 0..2 that may go all the way round | 224 k |
| FinishedJobKept | (violated) is a finished MPIJob kept, under the scaler policy? | one job | |
| SettledLaunchers | (violated) does mpirun run with the workers the MPIJob has? | one job, no faults | |
| DeadlineTooTight | (violated) is a job refused only if no schedule is long enough? | a job of 1 or 2 nodes whose profile ends at 1 | |

Bounds and why they are enough. Hazards here need two actors (two goroutines, or
a goroutine and the worker, or a cache that lags behind either), one stale
object and at most two faults; no condition of the code compares jobs with each
other except the order of the list (ReconcilerRefusal) and the selection of
launchers. Two slots show a pause before and after work; two levels show scaling
up and down. `MaxFaults` caps crashes and failing calls of the API server; in
Manager deaths, lost pushes and refused registrations, and `MaxCalls` the
goroutines on their way. With a trace of two hours, a window of two has an hour that
fits and one that wraps; one of four an hour that is left the whole window by two
runs through the trace and one that is not. (The proofs have any trace and window.)
The pool of one worker makes pushes wait for each other,
which five do to six. `Applicants` caps who registers while we look; the table may
hold anybody before. In StatusServer `MaxUpsets` caps jobs that shrink or are
deleted and calls that fail, together; submissions, samples and restarts of power
servers are free. One such disturbance is enough for a job to be deleted and
submitted again while its monitor goes on, or for the monitors to be replaced by an
exception; a job that goes and its successor need two monitors. Its proofs bound nothing. In PowerMeter `MaxDraw` is one more
than the range, so that a counter may come back to where it was, and
`MaxReadings` is one more than the pollers.

Fairness. CarbonScaler: only that the goroutine of a call runs on
(`WF(CallStep)`), nothing about pushes. Reconciler: goroutines and the worker
run, watches and the resync deliver, the queue is first come first served (strong
fairness of `Dequeue`, since the same job leaves the queue and comes back), the
operator starts what it should; nobody need submit, push, report or end anything
- except in ReconcilerRefusal, where pushes go on. CarbonAgent: threads run and
posts end. `requests.post` is called without a timeout, so that a post ends is
what the agent relies on and does not ensure; if one did not, no user would be
told anything again (`wait(results)`), and all liveness of that run would go.
Manager: main goes on - the container is restarted by its deployment and gets the
lease in the end -, the service's loop goes on, and goroutines are scheduled
(`WF(Call(u))` for every job, as ScheduleJobs visits them all); faults need not
happen and cease. StatusServer: the loop and every monitor run (`WF`), every meter
reads (`WF(Sample(n))`), and the manager gives a submitted job a status; nothing is
assumed of jobs. The calls of `requests` there have no timeout either: that they
end, or raise, is assumed.

What the liveness properties assume is in them: `Converges` needs pushes to stop,
`RoundsSettle` and `HoursPass` need set_index to be left alone and the process to
stay up, `OverdueJobsKeepRunning` that the manager is registered and the job can be
scheduled, `ProgressCatchesUp` that the job keeps running and that its monitor has
not died; of a job that was submitted while the server remembered one of its name it
says that the object shows no less than the job has done.

Every property has a mutant in `PROJECT.json`, a definition `Faulty...` (or
`LooseEligible`, `StrictEligible`, `RecreatingUpdate`, `ShortDifference`) next to
the one it replaces, with which the run finds the property violated.

### What the runs found

* **FinishedJobKept.** Line 91 of the controller asks the CR's own status whether
  the job has ended; that status is written by a later Reconcile, and MPIJobs
  are not watched. A job that ends in a slot followed by one of 0 replicas has
  its finished MPIJob deleted, is reported Paused, and is run a second time.
* **SettledLaunchers.** WORKERS is changed first, launchers are deleted after. A
  launcher the pod cache does not show yet survives, and as WORKERS is right the
  next time nothing restarts it: mpirun goes on with the old number.
* **DeadlineTooTight.** A level without row (level 8 of a shipped profile on the
  8-node cluster of `main.go:116`) replaces the levels below it in its slot and
  counts as no work. In the run a job that may use 1 or 2 nodes, of which only 1
  has a row, has both slots taken to the empty level and is refused with
  "Deadline too tight" (`carbon_scaler.go:134`), although one node in every slot
  is enough. With the shipped files: a job with minReplicas 7 and maxReplicas 8.

What `SlotOfTheHour` says in so many words is also worth knowing: a lost push makes
every job late by a slot for the rest of its schedule, and a goroutine overtaken by
the one that computes the schedule makes it early; nothing corrects either.

### Seen while modelling

* A slot of 0 replicas that finds the new MPIJob missing from the cache reports
  Paused and leaves it running.
* An update of the CR that conflicts or changes nothing makes no event, so the new
  slot takes effect only at the next push or the resync (`Converges` holds through
  the resync).
* Rescaling one job deletes the launcher pods of all jobs of the namespace,
  selected by "launcher" in their names (line 290).
* The greedy schedule is of least carbon *for the work it does*, which may be more
  than was asked for: with throughputs 10 and 15 on one and two nodes, powers 10
  and 20, intensities 19 and 10 and 11 units of work, the greedy loop runs one node
  in both slots (290) although two nodes in the second slot would do (200).
  `GreedyFrontier` is what holds instead of "minimum carbon footprint"
  (README.md:5).
* The carbon service reads its index two or three times while it slices the window
  (`carbon_service.py:161`). An answer to a registration that races with the loop
  has one hour too many, or at the end of the trace one too few, or begins an hour
  after its intensity; `HoursInOrder` says that it has no gap, and `RoundsSettle`
  that the pushes of the loop are right.
* The shipped deployment asks for a window of 1000 hours (`carbon_service.yaml:38`)
  of a trace that has 30 (`data-sample.csv`, 60 rows, averaged in pairs at
  `carbon_service.py:84`). `predict_carbon_real` returns to the start of the trace
  once, so its messages hold 31 to 60 hours, although it says "Predict the carbon
  intensity for the next (included current) prediction_window time steps"
  (`carbon_service.py:156`). A job with a longer deadline than that makes the
  manager die at line 102 of `carbon_scaler.go`.
* A job with deadline 0 that has nothing left to do gets an empty schedule, and the
  first `GetReplicas` for it panics; one with a negative deadline makes `make` panic
  (`carbon_scaler.go:62` and `:115`). The process that comes back dies of the same
  job at the next push.
* As deployed a monitor sleeps a second between its rounds (`status-server.yaml:39`),
  which is what a power server takes for a sample (`power_server.py:19`), and a power
  server that has just started has none at all (`rapl.py:235`). So a single monitor
  may poll an empty buffer, divide by zero (`utils.py:115`) and die.
* README.md:112 says "If a job is found a new `JobMonitor` is created". A job that is
  deleted and submitted again before the loop looks keeps the monitor of the one
  before it, and that monitor, or one that was told to stop and has not yet, writes
  its own, higher progress into the new object (`utils.py:76`); the new job's
  schedule is then computed for less work than it has.
* `carbon_webhook.go:106` returns err on an answer other than 200, and err is nil
  there: "Unable to register webhook" (`main.go:131`) is never said, and a manager
  serves that no push may ever reach (`RegisterRefused`).
* README.md:112 says of a job "Once the job is done, its progress is saved". A
  monitor that is told to stop takes no last reading, so the last progress it
  reports may be short of the end.
* A monitor that died stays in `current_jobs`: its job is watched by nobody until
  the loop raises (`ProgressCatchesUp` excludes it). A job that failed is watched
  for ever. Two monitors of one name write the same `result-<job>.csv`, and the
  later one wins.
* The first reading a monitor gets averages over all that time since the last
  poll. If the counters cannot be read, PowerMeter.run neither sleeps nor stops
  and its buffer grows until it is polled (`rapl.py:248`). `read_average_power` adds
  the subdomains to the packages that contain them.

## 4. The proofs

TLAPS checks the following for all values of the constants that satisfy the
named assumptions (`SpecAssumption`, `PredictionAssumption`, `ProfileAssumption`,
`FallbackAssumption`, `SystemAssumption`, `DeadLineAssumption`, `TraceAssumption`, `HorizonAssumption`,
`MonitorAssumption`, `MeterAssumption`).

`CarbonScaler_proofs`. The inductive invariant `Inv` has a part for the maps
(`MapsInv`: same domain, each schedule one that `ScheduleStore` could have
installed or the fallback, each position a slot of it if it has any), a part for
the call (`CallInv`: types of the locals, and list = the options above the draft),
and that the prediction is one of those pushed. `OptionsAboveDraft` is inductive only
with the types of the draft. `IndexSafe` (`IndexInRange`) is for every deadline: a
schedule's domain is an interval, so that the comparison with its length is the
membership of the next slot, in an empty one too (`NextSlot`), and the loop is left
with an empty draft only if the deadline is 0 and, as the sum over no slots is 0,
nothing was left to do (`FirstSlot`).
`TakeOption` is the heart of the greedy loop: taking an eligible option, which
removes it and the levels below, leaves exactly the options above the new draft.
From `Inv` follow the theorems `TypeCorrect`, `IndexSafe`, `ListAboveDraft` and
`Refinement`: every step is a step of ScheduleStore or leaves the maps alone.
`AssumptionsMet` discharges what ScheduleStore assumes of schedules, and what Manager
and Reconciler do for every job that does not ask for nothing.

`RefusalTrue`: if nothing in the list can be taken every slot is at its highest
level (`NothingAbove`), and then no schedule does more work, term by term.

`GreedyOptimal` is the exchange argument of a greedy algorithm, for any number of
slots and levels. Its invariant `FrontierInv` says that no option above the draft
is better than one the draft has taken; `FrontierStep` keeps it, because the option
taken is the best eligible one and, by concavity, a level is no better than those
below it in its slot (`HigherIsNoBetter`). The worst option taken then sets a price
of C grams for W units of work (`Price`). At that price the draft's level is the
cheapest of each slot - the balance W * carbon - C * work falls up to it and rises
from there (`SlotBalance`) -, so the draft has the least sum of balances; a schedule
that does as much work can thus not emit less (`LeastCarbon`). `LastNodeOnly` says
what that is worth for the stored schedule, which may do more work than was asked
for: up to its last step the draft emitted no more than *any* schedule that finishes.
Both hold for a prediction that did not change while the options were collected
(`Coherent`) and intensities that are positive.

`NeverWaits` and `CallShrinks` are the safety half of `CallReturns`: a call in
progress can always go on (among finitely many candidates one is not bettered, by
`Worst`), and each of its steps lowers `StepsLeft`.

`Sums_proofs` has the facts about `MapThenSumSet` these need. A sum is a recursive
function over the subsets of its set. `Smallest` finds a smallest subset for which a
fact fails (the strict subset ordering of a finite set is well-founded), and `Least`,
from it, the least number; so `SameSum` and `TotalIsSum` need no induction schema,
which the provers here could not instantiate. The others - sums compare term by
term, are linear, a finite set has a worst ratio, a sequence that falls and then
rises is least where it turns - build on these two.

`Reconciler_proofs`. `StoreInv` (the AutoScaler's invariants, through INSTANCE)
and `Types`, split by groups of variables so that each group has its own lemma of
preservation, give `TypeCorrect`. `HeldIsCurrent` is inductive with them: whoever
holds the current version has read what is in the object. It gives `VersionsHeld`
and, by a lemma that lists the writes of each object (`Writes`), the action
properties `EndIsFinal` (a stale cache cannot replace a recorded end, because the
write that would do it names an old version) and `ProgressKept`. `TargetInRange`
(what Reconcile is about to apply is 0 or an allowed number) and `BaseKnown` (an
MPIJob belongs to a job that is known; a cache that is fresh shows what is there)
strengthen `BaseInRange` and `RecordedEndIsReal` to `WorkersInRange` and
`EndIsReal`. `FinishedKept`: under `--policy=fixed` the worker never has 0 replicas
for a target, and nobody else deletes an MPIJob (`WhoDeletes`). `AssumptionsMet`
discharges the assumption of ScheduleStore (`FallbackAssumption`).

`CarbonAgent_proofs`. `Modulo`, `OnePiece` and `TwoPieces` say that numpy's slices,
read at one and the same hour, are the hours from it on, in one piece or across the
end of the trace, as many as `Reach` says; the window may be longer than the trace.
`TypeCorrect` and `NoGaps` hold however the threads interleave: what is joined is a
piece that goes to the end of the trace and one that begins at its start, wherever
the index has got to in between. `RoundsRight` assumes `Setters = {}`: its inductive invariant
`RoundInv` says that while the loop waits everything a push has read was read at
the current hour, and that after the wait the pushes are done and cannot change;
so `RoundAnnounced` holds in every round. With set_index it does not, and what
the run checks is that it holds again once set_index is left alone
(`RoundsSettle`). `HourByHour` ties the module to Manager: seen by one user, and
without set_index, the service alternates between one message (`Told`: this hour,
and the hours from it on, if the user was in the table) and an hour that
moves on by one (`Passes`, the `Tick` of Manager), and only a restart breaks that.

`Manager_proofs`. `TypeCorrect` needs that schedules are those of ScheduleStore, as
in `CarbonScaler_proofs`. The heart is that the two clocks stay together: the
invariant for `SlotOfTheHour` (`Clocks`) says of a job *at any time* that its position,
plus the calls still to come for it, is the hours since its plan began less the
pushes lost plus the calls overtaken - counted in the hours of the last status
(`Synced`: the status is the hour's, but for the pushes lost since and the one on its
way) - and `Capped` that none of these sums reaches the length of the trace, so that
the distance of two hours is unambiguous. `PredictionPresent` follows from `Serving`:
calls are made only by a process that has a status. That its prediction is as long as
a deadline it does not say, and nothing in the code does (`Panic` of CarbonScaler).
`OverdueForGood` is the safety
half of `OverdueJobsKeepRunning`: a job on its fallback stays there, with its number
of replicas, until the process ends.

`StatusServer_proofs`. `Linked` says that current_jobs names exactly the monitors
that were not told to stop, each under its own job. The lemma `Telling` shows that
telling some registered monitors to stop *and* forgetting them keeps it; `Abort`,
`Check` and `StopMonitor` are instances, whatever happens to the monitor's thread
meanwhile. That an ending thread never takes a registered monitor with it needs
`SavingStopped`.

`StatusServerDeaths_proofs` shows `ReadingErrorsExplained`, with the invariant above.
As long as a job has not lost workers its size only grows: what the loop has listed of
it is at most its size, and what its monitor was told is at most what the loop has
listed (`Sizes`), so that the readings kept never exceed `replicas`, however often the
loop writes it meanwhile (`Pruned`). The argument is per job: what happens to the others
does not matter, nor what the power servers answer. TLC finds this invariant true as
well, with one node and with two.

`PowerMeter_proofs`. `DifferenceRight` is the arithmetic of a rollover, for every
range; `CounterFollows` says where the counter of a domain stands while it is being
measured. `CopyIsBuffer` (nothing is appended while a poller holds the lock) makes
`HandedOutOnce` inductive.

Only model-checked: the liveness properties (`CallReturns`, `Converges`,
`EndReported`, `RefusalsHarmless`, `RoundsSettle`, `HoursPass`, `PushesGoOn`,
`OverdueJobsKeepRunning`, `ProgressCatchesUp`, `StoppedEnd`), as TLAPS does not reason
about fairness here, and the three findings, which are counterexamples. Every
safety property that a run checks is also proved.

## 5. Not modelled

* Deletion of a CarbonScalerMPIJob by a user as Reconcile sees it, garbage
  collection, and the time between the deletion of an MPIJob and that of its pods.
* What power is drawn, what carbon that costs, and the csv files of the status
  server: data that decides nothing. The percentile of a carbon message, which
  nothing reads.
* Rows of a profile that are not increasing, and a CarbonScalerMPIJob without
  worker or launcher replicas (a nil pointer at line 103 of the controller).
* Two managers that lead at once while a lease runs out.
* Flags, logging, CRD plumbing, health checks, generated code and the registration
  of API types.

## 6. What is left

1. Reconciler: deletion of CRs and pods that outlive their MPIJob; an abstract
   replica controller that it implements.
2. Manager and Reconciler composed, with the objects of two processes of which one
   loses the lease.
3. CarbonAgent's set_index in Manager: hours that jump make jobs late or early.
4. Proofs: the safety halves of the liveness properties of Reconciler and
   StatusServer (what a thread's step leaves to do), and that StatusServer's
   readings are what PowerMeter hands out.
