----------------------------- MODULE Reconciler -----------------------------
(***************************************************************************)
(* The controller manager in its cluster: Reconcile and ScheduleJobs of    *)
(* carbonscalermpijob_controller.go, the API server they write to, the     *)
(* informer caches they read from, the MPI operator that runs the MPIJobs, *)
(* and the status server that reports progress.                            *)
(*                                                                         *)
(* Threads of the manager:                                                 *)
(*   rec       the one worker of the controller, which takes job names     *)
(*             from the work queue and reconciles them one at a time;      *)
(*   sweep[g]  a goroutine of CarbonWebhook.ServeHTTP, which runs          *)
(*             ScheduleJobs after a push of the carbon service.            *)
(* A step ends where the code calls the API server, takes slock or reads a *)
(* cache, since other threads run in between.                              *)
(*                                                                         *)
(* Resource versions.  Every write gives an object a version that nobody   *)
(* holds yet, and a write that names a version the object no longer has is *)
(* refused with a conflict.  So it is enough to know who holds the current *)
(* version: crHeld[j] for the CarbonScalerMPIJob (the cache, the worker or *)
(* a goroutine) and mpiFresh for the MPIJob (the cache).                   *)
(***************************************************************************)
EXTENDS Workload

CONSTANTS
  ProgressValues, \* the percentages carbonScalerSpec.progress may carry
  Sweeps,         \* goroutines that may run ScheduleJobs at the same time
  Policy,         \* the flag --policy: "scaler" or "fixed"
  Outcomes,       \* how an MPIJob may end: a subset of {"Succeeded", "Failed"}
  MaxFaults       \* bound on crashes and failing calls of the API server

ASSUME SystemAssumption ==
  /\ ProgressValues \subseteq Nat
  /\ Policy \in {"scaler", "fixed"}
  /\ Outcomes \subseteq {"Succeeded", "Failed"}
  /\ MaxFaults \in Nat
  /\ "rec" \notin Sweeps /\ "cache" \notin Sweeps

VARIABLES
  schedule, scheduleIndex,  \* the AutoScaler's maps
  cr,             \* the CarbonScalerMPIJobs in the API server
  crCache,        \* the informer cache of them: what the manager reads
  crHeld,         \* who holds the current version of each
  mpi,            \* the MPIJobs in the API server; cond is "None" while there
                  \* is no condition, or none but Created
  mpiCache,       \* the informer cache of them
  mpiFresh,       \* the jobs whose MPIJob the cache shows as it is
  launcher,       \* the launcher pods, and the WORKERS each was started with
  podCache,       \* the jobs whose launcher pod is in the pod cache
  queue,          \* the work queue: a set, as it drops duplicates
  rec, sweep,     \* the threads
  faults          \* crashes and failures still allowed

\* A job is submitted with progress 0.
Progress == {0} \cup ProgressValues

Scaler == INSTANCE ScheduleStore WITH ProgressValues <- Progress

(***************************************************************************)
(* Left out are the jobs the manager dies of at every push: those with a   *)
(* negative deadline, and those with deadline 0 that have nothing left to  *)
(* do.  CarbonScaler.tla has their panics.                                 *)
(***************************************************************************)
ASSUME DeadLineAssumption ==
  \A u \in Jobs :
    /\ DeadLine[u] >= 0
    /\ \A p \in Progress : \A s \in Fitting(u, p) : 0 \in DOMAIN s

maps    == <<schedule, scheduleIndex>>
objects == <<cr, crCache, crHeld>>
bases   == <<mpi, mpiCache, mpiFresh>>
pods    == <<launcher, podCache>>
vars    == <<maps, objects, bases, pods, queue, rec, sweep, faults>>

-----------------------------------------------------------------------------
\* commonutil.IsSucceeded || commonutil.IsFailed, on the last condition.
Terminal(condition) == condition \in {"Succeeded", "Failed"}

\* AutoScaler.GetReplicas under either policy (carbon_scaler.go, fixed_scaler.go).
GetReplicas(j) == IF Policy = "fixed" THEN MinReplicas[j] ELSE Scaler!GetReplicas(j)

Resting == [pc |-> "idle"]

\* What the caches keep of an object: the fields somebody reads.
CacheView(object) == [progress |-> object.progress, status |-> object.status]

\* A write gave j a new version, or who takes a copy of the cached object.
NewVersion(j) == crHeld' = [crHeld EXCEPT ![j] = {}]
\* A bug: a copy of a stale object passes for current.
FaultyCopyCached(held, who) == held \cup {who}
CopyCached(held, who) == IF "cache" \in held THEN held \cup {who} ELSE held \ {who}
Forget(who) == crHeld' = [j \in Jobs |-> crHeld[j] \ {who}]

Init ==
  /\ Scaler!Init
  /\ cr = EmptyMap /\ crCache = EmptyMap
  /\ crHeld = [j \in Jobs |-> {}]
  /\ mpi = EmptyMap /\ mpiCache = EmptyMap /\ mpiFresh = Jobs
  /\ launcher = EmptyMap /\ podCache = {}
  /\ queue = {}
  /\ rec = Resting
  /\ sweep = [g \in Sweeps |-> Resting]
  /\ faults = MaxFaults

-----------------------------------------------------------------------------
(* Around the manager: users, the status server, the MPI operator, watches *)

\* kubectl apply of a new CarbonScalerMPIJob.
Submit(j) ==
  /\ j \notin DOMAIN cr
  /\ cr' = Put(cr, j, [progress |-> 0, workers |-> MinReplicas[j], status |-> "None"])
  /\ NewVersion(j)
  /\ UNCHANGED <<maps, crCache, bases, pods, queue, rec, sweep, faults>>

(***************************************************************************)
(* set_progress, from a monitor of the status server.  It patches whenever *)
(* what it has differs from what it lists, and a monitor that was told to  *)
(* stop may still be at it with an older number.  The patch holds the      *)
(* whole listed object, version included: one that takes effect is a step. *)
(***************************************************************************)
ReportProgress(j, p) ==
  /\ j \in DOMAIN cr
  /\ p # cr[j].progress
  /\ cr' = [cr EXCEPT ![j].progress = p]
  /\ NewVersion(j)
  /\ UNCHANGED <<maps, crCache, bases, pods, queue, rec, sweep, faults>>

\* A watch event of a CarbonScalerMPIJob reaches the cache and the queue.
CacheObject(j) ==
  /\ j \in DOMAIN cr /\ "cache" \notin crHeld[j]
  /\ crCache' = Put(crCache, j, CacheView(cr[j]))
  /\ crHeld' = [crHeld EXCEPT ![j] = @ \cup {"cache"}]
  /\ queue' = queue \cup {j}
  /\ UNCHANGED <<maps, cr, bases, pods, rec, sweep, faults>>

\* The informer's periodic resync (every ten hours) queues every cached object.
Resync(j) ==
  /\ j \in DOMAIN crCache \ queue
  /\ queue' = queue \cup {j}
  /\ UNCHANGED <<maps, objects, bases, pods, rec, sweep, faults>>

\* A watch event of an MPIJob: SetupWithManager watches only the CR, so
\* nothing is queued.
CacheBase(j) ==
  /\ j \notin mpiFresh
  /\ mpiCache' = IF j \in DOMAIN mpi THEN Put(mpiCache, j, mpi[j]) ELSE Drop(mpiCache, j)
  /\ mpiFresh' = mpiFresh \cup {j}
  /\ UNCHANGED <<maps, objects, mpi, pods, queue, rec, sweep, faults>>

\* A watch event of a launcher pod.
CachePod(j) ==
  /\ (j \in DOMAIN launcher) # (j \in podCache)
  /\ podCache' = IF j \in DOMAIN launcher THEN podCache \cup {j} ELSE podCache \ {j}
  /\ UNCHANGED <<maps, objects, bases, launcher, queue, rec, sweep, faults>>

\* The MPI operator starts the launcher of an unfinished MPIJob that has none.
StartLauncher(j) ==
  /\ j \in DOMAIN mpi \ DOMAIN launcher
  /\ ~Terminal(mpi[j].cond)
  /\ launcher' = Put(launcher, j, mpi[j].env)
  /\ UNCHANGED <<maps, objects, bases, podCache, queue, rec, sweep, faults>>

\* The MPI operator writes the status of an MPIJob whose launcher runs or ends.
BaseStatus(j, from, to) ==
  /\ j \in DOMAIN mpi \cap DOMAIN launcher
  /\ mpi[j].cond = from
  /\ mpi' = [mpi EXCEPT ![j].cond = to]
  /\ mpiFresh' = mpiFresh \ {j}
  /\ UNCHANGED <<maps, objects, mpiCache, pods, queue, rec, sweep, faults>>

BaseRuns(j) == BaseStatus(j, "None", "Running")
BaseEnds(j) == \E outcome \in Outcomes : BaseStatus(j, "Running", outcome)

External(j) ==
  \/ Submit(j)
  \/ \E p \in Progress : ReportProgress(j, p)
  \/ CacheObject(j) \/ Resync(j) \/ CacheBase(j) \/ CachePod(j)
  \/ StartLauncher(j) \/ BaseRuns(j) \/ BaseEnds(j)

-----------------------------------------------------------------------------
(* ScheduleJobs, in a goroutine per push *)

(***************************************************************************)
(* ServeHTTP has stored the new carbon status and starts the goroutine;    *)
(* ScheduleJobs lists the cached jobs and keeps those that have not ended. *)
(* todo maps each of them to the progress of the listed copy.              *)
(***************************************************************************)
Post(g) ==
  LET live == {j \in DOMAIN crCache : ~Terminal(crCache[j].status)} IN
  /\ sweep[g] = Resting /\ live # {}
  /\ sweep' = [sweep EXCEPT ![g] =
       [pc |-> "compute", todo |-> [j \in live |-> crCache[j].progress]]]
  /\ crHeld' = [j \in Jobs |-> IF j \in live THEN CopyCached(crHeld[j], g) ELSE crHeld[j]]
  /\ UNCHANGED <<maps, cr, crCache, bases, pods, queue, rec, faults>>

\* The loop goes on to another job, or ends.
NextJob(g, j) ==
  LET rest == Drop(sweep[g].todo, j) IN
  sweep' = [sweep EXCEPT ![g] =
    IF rest = EmptyMap THEN Resting ELSE [pc |-> "compute", todo |-> rest]]

\* ScheduleJob: ComputeSchedule under slock.
Compute(g, j) ==
  /\ sweep[g].pc = "compute" /\ j \in DOMAIN sweep[g].todo
  /\ IF Policy = "fixed" THEN UNCHANGED maps
     ELSE Scaler!ComputeSchedule(j, sweep[g].todo[j])
  /\ sweep' = [sweep EXCEPT ![g] = [pc |-> "read", todo |-> @.todo, job |-> j]]
  /\ UNCHANGED <<objects, bases, pods, queue, rec, faults>>

\* A bug: the first job that cannot be scheduled ends the loop for all.
FaultyComputeFails(g, j) ==
  /\ sweep[g].pc = "compute" /\ j \in DOMAIN sweep[g].todo
  /\ Policy = "scaler" /\ Scaler!Refuses(j, sweep[g].todo[j])
  /\ sweep' = [sweep EXCEPT ![g] = Resting]
  /\ Forget(g)
  /\ UNCHANGED <<maps, cr, crCache, bases, pods, queue, rec, faults>>

\* ScheduleJob: "Cannot Compute Schedule"; ScheduleJobs prints it and goes on.
ComputeFails(g, j) ==
  /\ sweep[g].pc = "compute" /\ j \in DOMAIN sweep[g].todo
  /\ Policy = "scaler" /\ Scaler!Refuses(j, sweep[g].todo[j])
  /\ NextJob(g, j)
  /\ crHeld' = [crHeld EXCEPT ![j] = @ \ {g}]
  /\ UNCHANGED <<maps, cr, crCache, bases, pods, queue, rec, faults>>

\* ScheduleJob: GetReplicas, under slock again.
ReadReplicas(g) ==
  /\ sweep[g].pc = "read"
  /\ sweep' = [sweep EXCEPT ![g] =
       [pc |-> "update", todo |-> @.todo, job |-> @.job, replicas |-> GetReplicas(@.job)]]
  /\ UNCHANGED <<maps, objects, bases, pods, queue, rec, faults>>

\* The object ScheduleJob sends: as it was listed, with the new replicas.
Rescaled(g) ==
  LET j == sweep[g].job IN
  [cr EXCEPT ![j] = [progress |-> sweep[g].todo[j], workers |-> sweep[g].replicas,
                     status |-> @.status]]

\* A bug: the update names no resource version, and so is never refused.
FaultyUpdate(g) ==
  /\ sweep[g].pc = "update"
  /\ cr' = Rescaled(g)
  /\ NewVersion(sweep[g].job)
  /\ NextJob(g, sweep[g].job)
  /\ UNCHANGED <<maps, crCache, bases, pods, queue, rec, faults>>

(***************************************************************************)
(* ScheduleJob: r.Update.  A write that changes nothing makes no new       *)
(* version and no event.                                                   *)
(***************************************************************************)
Update(g) ==
  /\ sweep[g].pc = "update"
  /\ LET j == sweep[g].job IN
     /\ g \in crHeld[j]
     /\ cr' = Rescaled(g)
     /\ IF cr' = cr THEN crHeld' = [crHeld EXCEPT ![j] = @ \ {g}] ELSE NewVersion(j)
     /\ NextJob(g, j)
  /\ UNCHANGED <<maps, crCache, bases, pods, queue, rec, faults>>

\* "update fail": a conflict, or a failing API server; nothing is retried.
UpdateFails(g) ==
  /\ sweep[g].pc = "update"
  /\ LET j == sweep[g].job IN
     /\ \/ g \notin crHeld[j] /\ UNCHANGED faults
        \/ g \in crHeld[j] /\ faults > 0 /\ faults' = faults - 1
     /\ crHeld' = [crHeld EXCEPT ![j] = @ \ {g}]
     /\ NextJob(g, j)
  /\ UNCHANGED <<maps, cr, crCache, bases, pods, queue, rec>>

SweepStep(g) ==
  \/ \E j \in Jobs : Compute(g, j) \/ ComputeFails(g, j)
  \/ ReadReplicas(g) \/ Update(g) \/ UpdateFails(g)

-----------------------------------------------------------------------------
(* Reconcile, in the controller's worker *)

\* The worker takes a name from the queue.
Dequeue(j) ==
  /\ rec = Resting /\ j \in queue
  /\ queue' = queue \ {j}
  /\ rec' = [pc |-> "get", job |-> j]
  /\ UNCHANGED <<maps, objects, bases, pods, sweep, faults>>

\* Reconcile returns nil: the name is not queued again.
Return ==
  /\ rec' = Resting
  /\ Forget("rec")
  /\ UNCHANGED queue

\* Reconcile returns an error: the name is queued again.
Requeue ==
  /\ rec' = Resting
  /\ Forget("rec")
  /\ queue' = queue \cup {rec.job}

\* A bug: paused jobs are taken for ended ones.
FaultyGet ==
  /\ rec.pc = "get"
  /\ LET j == rec.job IN
     IF Terminal(crCache[j].status) \/ crCache[j].status = "Paused" THEN Return
     ELSE /\ rec' = [pc |-> "scale", job |-> j]
          /\ crHeld' = [crHeld EXCEPT ![j] = CopyCached(@, "rec")]
          /\ UNCHANGED queue
  /\ UNCHANGED <<maps, cr, crCache, bases, pods, sweep, faults>>

\* r.Get of the object from the cache; a job that has ended is left alone.
Get ==
  /\ rec.pc = "get"
  /\ LET j == rec.job IN
     IF Terminal(crCache[j].status) THEN Return
     ELSE /\ rec' = [pc |-> "scale", job |-> j]
          /\ crHeld' = [crHeld EXCEPT ![j] = CopyCached(@, "rec")]
          /\ UNCHANGED queue
  /\ UNCHANGED <<maps, cr, crCache, bases, pods, sweep, faults>>

\* AutoScaler.GetReplicas; the launcher and WORKERS of the copy follow from it.
Scale ==
  /\ rec.pc = "scale"
  /\ rec' = [pc |-> "apply", job |-> rec.job, target |-> GetReplicas(rec.job)]
  /\ UNCHANGED <<maps, objects, bases, pods, queue, sweep, faults>>

\* The worker goes on at pc with what it knows of the MPIJob's conditions.
Proceed(pc, cond) ==
  [pc |-> pc, job |-> rec.job, target |-> rec.target, cond |-> cond]

(***************************************************************************)
(* A call of the API server that took effect: the worker goes on, or the   *)
(* answer was lost and Reconcile returns the error of the call.            *)
(***************************************************************************)
Answered(next) ==
  \/ rec' = next /\ UNCHANGED <<crHeld, queue, faults>>
  \/ faults > 0 /\ faults' = faults - 1 /\ Requeue

ShouldStop == rec.target = 0
BaseFound  == rec.job \in DOMAIN mpiCache

\* "MPIJob Not found, creating one."
CreateBase ==
  /\ rec.pc = "apply" /\ ~BaseFound /\ ~ShouldStop
  /\ LET j == rec.job IN
     IF j \in DOMAIN mpi
     THEN Requeue /\ UNCHANGED <<mpi, mpiFresh, faults>>  \* already exists
     ELSE /\ mpi' = Put(mpi, j, [workers |-> rec.target, env |-> rec.target,
                                 cond |-> "None"])
          /\ mpiFresh' = mpiFresh \ {j}
          /\ Answered(Proceed("status", "None"))
  /\ UNCHANGED <<maps, cr, crCache, mpiCache, pods, sweep>>

\* "Stopping job...": the pods of the MPIJob go with it.
DeleteBase ==
  /\ rec.pc = "apply" /\ BaseFound /\ ShouldStop
  /\ LET j == rec.job IN
     IF j \notin DOMAIN mpi
     THEN Requeue /\ UNCHANGED <<mpi, mpiFresh, launcher, faults>>  \* not found
     ELSE /\ mpi' = Drop(mpi, j)
          /\ launcher' = Drop(launcher, j)
          /\ mpiFresh' = mpiFresh \ {j}
          /\ Answered(Proceed("status", "None"))
  /\ UNCHANGED <<maps, cr, crCache, mpiCache, podCache, sweep>>

\* A bug: WORKERS is left as it was.
FaultyUpdated ==
  [workers |-> rec.target, env |-> mpiCache[rec.job].env, cond |-> mpiCache[rec.job].cond]

\* The cached MPIJob with the new number of workers, in the spec and in WORKERS.
Updated == [workers |-> rec.target, env |-> rec.target, cond |-> mpiCache[rec.job].cond]

\* A bug: the MPIJob is rescaled by deleting it, for the next round to create.
RecreatingUpdate ==
  /\ rec.pc = "apply" /\ BaseFound /\ ~ShouldStop
  /\ mpi' = Drop(mpi, rec.job) /\ launcher' = Drop(launcher, rec.job)
  /\ mpiFresh' = mpiFresh \ {rec.job}
  /\ Requeue
  /\ UNCHANGED <<maps, cr, crCache, mpiCache, podCache, sweep, faults>>

\* A bug: a conflict is taken for success.
FaultyUpdateBase ==
  /\ rec.pc = "apply" /\ BaseFound /\ ~ShouldStop
  /\ LET j == rec.job IN
     /\ IF j \notin mpiFresh
        THEN UNCHANGED <<mpi, mpiFresh>>
        ELSE /\ mpi' = [mpi EXCEPT ![j] = Updated]
             /\ mpiFresh' = IF mpi' = mpi THEN mpiFresh ELSE mpiFresh \ {j}
     /\ Answered(Proceed(IF mpiCache[j].env # rec.target THEN "list" ELSE "status",
                         mpiCache[j].cond))
  /\ UNCHANGED <<maps, cr, crCache, mpiCache, pods, sweep>>

(***************************************************************************)
(* "Updating job": refused when the cached MPIJob is not current.  A       *)
(* changed WORKERS means that the launcher must be started afresh.         *)
(***************************************************************************)
UpdateBase ==
  /\ rec.pc = "apply" /\ BaseFound /\ ~ShouldStop
  /\ LET j == rec.job IN
     IF j \notin mpiFresh
     THEN Requeue /\ UNCHANGED <<mpi, mpiFresh, faults>>
     ELSE /\ mpi' = [mpi EXCEPT ![j] = Updated]
          /\ mpiFresh' = IF mpi' = mpi THEN mpiFresh ELSE mpiFresh \ {j}
          /\ Answered(Proceed(IF mpiCache[j].env # rec.target THEN "list" ELSE "status",
                              mpiCache[j].cond))
  /\ UNCHANGED <<maps, cr, crCache, mpiCache, pods, sweep>>

\* Nothing runs and nothing should.
KeepStopped ==
  /\ rec.pc = "apply" /\ ~BaseFound /\ ShouldStop
  /\ rec' = Proceed("status", "None")
  /\ UNCHANGED <<maps, objects, bases, pods, queue, sweep, faults>>

\* The call of CreateBase, DeleteBase or UpdateBase fails and has no effect.
ApplyFails ==
  /\ rec.pc = "apply" /\ (BaseFound \/ ~ShouldStop)
  /\ faults > 0 /\ faults' = faults - 1
  /\ Requeue
  /\ UNCHANGED <<maps, cr, crCache, bases, pods, sweep>>

\* The worker in the loop of deleteLauncher, with the pods still to delete.
Deleting(doomed) ==
  [pc |-> "delete", job |-> rec.job, target |-> rec.target, cond |-> rec.cond,
   doomed |-> doomed]

(***************************************************************************)
(* deleteLauncher: the cached pods of the namespace whose name contains    *)
(* "launcher" - those of every job, as all live in one namespace.          *)
(***************************************************************************)
ListLaunchers ==
  /\ rec.pc = "list"
  /\ rec' = Deleting(podCache)
  /\ UNCHANGED <<maps, objects, bases, pods, queue, sweep, faults>>

(***************************************************************************)
(* One pod after the other, in no particular order.  A pod that is gone    *)
(* already, or a call that fails, ends Reconcile: the error is logged, nil *)
(* returned, and neither the other pods nor the status are seen to.        *)
(***************************************************************************)
DeleteLauncher(p) ==
  /\ rec.pc = "delete" /\ p \in rec.doomed
  /\ \/ /\ p \in DOMAIN launcher
        /\ launcher' = Drop(launcher, p)
        /\ rec' = Deleting(rec.doomed \ {p})
        /\ UNCHANGED <<crHeld, queue, faults>>
     \/ /\ p \notin DOMAIN launcher
        /\ Return /\ UNCHANGED <<launcher, faults>>
     \/ /\ faults > 0 /\ faults' = faults - 1
        /\ Return /\ UNCHANGED launcher
  /\ UNCHANGED <<maps, cr, crCache, bases, podCache, sweep>>

LaunchersDeleted ==
  /\ rec.pc = "delete" /\ rec.doomed = {}
  /\ rec' = Proceed("status", rec.cond)
  /\ UNCHANGED <<maps, objects, bases, pods, queue, sweep, faults>>

\* A bug: an ended MPIJob is reported as still running.
FaultyJobStatus ==
  IF ShouldStop THEN "Paused"
  ELSE CASE rec.cond = "None" -> "Undefined"
         [] Terminal(rec.cond) -> "Running"
         [] OTHER -> rec.cond

\* UpdateJobStatus: the last condition of the new status.
JobStatus ==
  IF ShouldStop THEN "Paused" ELSE IF rec.cond = "None" THEN "Undefined" ELSE rec.cond

\* A bug: the status is written whatever the version of the object.
FaultyWriteStatus ==
  /\ rec.pc = "status"
  /\ cr' = [cr EXCEPT ![rec.job].status = JobStatus]
  /\ NewVersion(rec.job)
  /\ rec' = Resting
  /\ UNCHANGED <<maps, crCache, bases, pods, queue, sweep, faults>>

(***************************************************************************)
(* UpdateJobStatusInApiServer.  The conditions carry the time in seconds:  *)
(* writing the status the object has already makes a new version unless    *)
(* it happens within the same second.                                      *)
(***************************************************************************)
WriteStatus ==
  /\ rec.pc = "status" /\ "rec" \in crHeld[rec.job]
  /\ cr' = [cr EXCEPT ![rec.job].status = JobStatus]
  /\ \/ NewVersion(rec.job)
     \/ cr' = cr /\ Forget("rec")
  /\ rec' = Resting
  /\ UNCHANGED <<maps, crCache, bases, pods, queue, sweep, faults>>

\* A conflict or a failing API server: logged, nil returned.
WriteStatusFails ==
  /\ rec.pc = "status"
  /\ \/ "rec" \notin crHeld[rec.job] /\ UNCHANGED faults
     \/ "rec" \in crHeld[rec.job] /\ faults > 0 /\ faults' = faults - 1
  /\ Return
  /\ UNCHANGED <<maps, cr, crCache, bases, pods, sweep>>

ReconcileStep ==
  \/ Get \/ Scale
  \/ CreateBase \/ DeleteBase \/ UpdateBase \/ KeepStopped \/ ApplyFails
  \/ ListLaunchers \/ (\E p \in Jobs : DeleteLauncher(p)) \/ LaunchersDeleted
  \/ WriteStatus \/ WriteStatusFails

\* A bug: the worker starts before the caches are listed.
FaultyCrash ==
  /\ faults > 0 /\ faults' = faults - 1
  /\ Scaler!Restart
  /\ crCache' = EmptyMap /\ crHeld' = [j \in Jobs |-> {}]
  /\ mpiCache' = EmptyMap /\ mpiFresh' = Jobs \ DOMAIN mpi
  /\ podCache' = {}
  /\ queue' = DOMAIN cr
  /\ rec' = Resting
  /\ sweep' = [g \in Sweeps |-> Resting]
  /\ UNCHANGED <<cr, mpi, launcher>>

(***************************************************************************)
(* The manager dies, of a panic in a goroutine or of anything else, and is *)
(* started again: new AutoScaler, new threads, caches listed afresh, every *)
(* object queued.                                                          *)
(***************************************************************************)
Crash ==
  /\ faults > 0 /\ faults' = faults - 1
  /\ Scaler!Restart
  /\ crCache' = [j \in DOMAIN cr |-> CacheView(cr[j])]
  /\ crHeld' = [j \in Jobs |-> IF j \in DOMAIN cr THEN {"cache"} ELSE {}]
  /\ mpiCache' = mpi /\ mpiFresh' = Jobs
  /\ podCache' = DOMAIN launcher
  /\ queue' = DOMAIN cr
  /\ rec' = Resting
  /\ sweep' = [g \in Sweeps |-> Resting]
  /\ UNCHANGED <<cr, mpi, launcher>>

-----------------------------------------------------------------------------
Next ==
  \/ \E j \in Jobs : External(j)
  \/ \E g \in Sweeps : Post(g) \/ SweepStep(g)
  \/ \E j \in Jobs : Dequeue(j)
  \/ ReconcileStep
  \/ Crash

Safety == Init /\ [][Next]_vars

(***************************************************************************)
(* Goroutines and the worker run; watches and the periodic resync deliver; *)
(* the queue is first come first served, so a queued job has its turn; the *)
(* operator starts launchers.  Nobody need push, submit or end anything.   *)
(***************************************************************************)
Fairness ==
  /\ WF_vars(ReconcileStep)
  /\ \A g \in Sweeps : WF_vars(SweepStep(g))
  /\ \A j \in Jobs :
       /\ SF_vars(Dequeue(j))
       /\ WF_vars(CacheObject(j)) /\ WF_vars(CacheBase(j)) /\ WF_vars(CachePod(j))
       /\ WF_vars(Resync(j))
       /\ WF_vars(StartLauncher(j)) /\ WF_vars(BaseRuns(j))

Spec == Safety /\ Fairness

\* The carbon service pushes for ever.
PushedSpec == Spec /\ \A g \in Sweeps : WF_vars(Post(g))

-----------------------------------------------------------------------------
Conditions == {"None", "Paused", "Undefined", "Running", "Succeeded", "Failed"}

BaseType(m) ==
  /\ DOMAIN m \subseteq Jobs
  /\ \A j \in DOMAIN m :
       m[j] \in [workers : Nat, env : Nat, cond : {"None", "Running", "Succeeded", "Failed"}]

TypeOK ==
  /\ Scaler!TypeOK
  /\ DOMAIN cr \subseteq Jobs /\ DOMAIN crCache \subseteq DOMAIN cr
  /\ \A j \in DOMAIN cr :
       cr[j] \in [progress : Progress, workers : Nat, status : Conditions]
  /\ \A j \in DOMAIN crCache :
       crCache[j] \in [progress : Progress, status : Conditions]
  /\ crHeld \in [Jobs -> SUBSET ({"cache", "rec"} \cup Sweeps)]
  /\ BaseType(mpi) /\ BaseType(mpiCache)
  /\ mpiFresh \subseteq Jobs
  /\ DOMAIN launcher \subseteq Jobs /\ \A j \in DOMAIN launcher : launcher[j] \in Nat
  /\ podCache \subseteq Jobs
  /\ queue \subseteq DOMAIN crCache
  /\ rec.pc \in {"idle", "get", "scale", "apply", "list", "delete", "status"}
  /\ rec.pc # "idle" => rec.job \in DOMAIN crCache
  /\ rec.pc \in {"apply", "list", "delete", "status"} => rec.target \in Nat
  /\ rec.pc \in {"list", "delete", "status"} =>
       rec.cond \in {"None", "Running", "Succeeded", "Failed"}
  /\ rec.pc = "delete" => rec.doomed \subseteq Jobs
  /\ DOMAIN sweep = Sweeps
  /\ \A g \in Sweeps :
       /\ sweep[g].pc \in {"idle", "compute", "read", "update"}
       /\ sweep[g].pc # "idle" =>
            /\ DOMAIN sweep[g].todo \subseteq DOMAIN crCache
            /\ \A j \in DOMAIN sweep[g].todo : sweep[g].todo[j] \in Progress
       /\ sweep[g].pc \in {"read", "update"} => sweep[g].job \in DOMAIN sweep[g].todo
       /\ sweep[g].pc = "update" => sweep[g].replicas \in Nat
  /\ faults \in 0 .. MaxFaults

(***************************************************************************)
(* Whoever holds the current version of an object has read what is in it,  *)
(* and the threads hold only objects that have not ended: what makes the   *)
(* conflict check of the API server enough.                                *)
(***************************************************************************)
HeldIsCurrent ==
  \A j \in Jobs :
    /\ crHeld[j] # {} => j \in DOMAIN cr
    /\ "cache" \in crHeld[j] => j \in DOMAIN crCache /\ crCache[j] = CacheView(cr[j])
    /\ "rec" \in crHeld[j] =>
         /\ rec.pc \notin {"idle", "get"} /\ rec.job = j
         /\ ~Terminal(cr[j].status)
    /\ \A g \in Sweeps \cap crHeld[j] :
         /\ sweep[g].pc # "idle" /\ j \in DOMAIN sweep[g].todo
         /\ sweep[g].todo[j] = cr[j].progress

(***************************************************************************)
(* "If job has succeeded or failed, no need to reconcile": a recorded end  *)
(* is final.  The cached copy that Reconcile checks may be older than the  *)
(* end it recorded itself, so it is the conflict on the status write that  *)
(* keeps the slot's Paused or Running from replacing it.                   *)
(***************************************************************************)
TerminalStatusFinal ==
  [][\A j \in DOMAIN cr : Terminal(cr[j].status) => cr'[j].status = cr[j].status]_vars

(***************************************************************************)
(* Progress that the status server reported is never overwritten by the    *)
(* manager: ScheduleJob writes the whole object it listed, progress        *)
(* included, after other threads may have run for long.                    *)
(***************************************************************************)
ProgressNeverLost ==
  [][\A j \in DOMAIN cr :
       cr'[j].progress # cr[j].progress => \E p \in Progress : ReportProgress(j, p)]_vars

(***************************************************************************)
(* An end is recorded only for an MPIJob that has ended that way, although *)
(* the conditions come from a cache that may show an earlier MPIJob of the *)
(* same name.                                                              *)
(***************************************************************************)
RecordedEndIsReal ==
  [][\A j \in DOMAIN cr :
       (Terminal(cr'[j].status) /\ ~Terminal(cr[j].status)) =>
          j \in DOMAIN mpi /\ mpi[j].cond = cr'[j].status]_vars

(***************************************************************************)
(* An MPIJob always has a number of workers its CarbonScalerMPIJob allows, *)
(* never 0, and a launcher that is started from it is told that number.    *)
(***************************************************************************)
BaseInRange ==
  \A j \in DOMAIN mpi :
    /\ mpi[j].workers \in Levels(j) \cup {MinReplicas[j]}
    /\ mpi[j].env = mpi[j].workers

\* What the cluster should run for j, by the slot it is in.
Matches(j) ==
  LET replicas == GetReplicas(j) IN
  \/ Terminal(cr[j].status)
  \/ replicas = 0 /\ j \notin DOMAIN mpi
  \/ replicas # 0 /\ j \in DOMAIN mpi /\ mpi[j].workers = replicas

SweepsRest == \A g \in Sweeps : sweep[g] = Resting

(***************************************************************************)
(* Between carbon updates the MPIJobs reach what the schedules ask for and *)
(* stay there - thanks to the resync, after ten hours at the worst.        *)
(***************************************************************************)
Converges == <>[]SweepsRest => <>[](\A j \in DOMAIN cr : Matches(j))

(***************************************************************************)
(* An MPIJob that has ended is reported on its CarbonScalerMPIJob, unless  *)
(* it is deleted before (see FinishedJobKept).                             *)
(***************************************************************************)
EndReported ==
  \A j \in Jobs :
    (j \in DOMAIN mpi /\ Terminal(mpi[j].cond))
       ~> (j \notin DOMAIN mpi \/ Terminal(cr[j].status))

(***************************************************************************)
(* One job that cannot be scheduled does not keep the others from being    *)
(* scheduled: while updates come, every job whose work fits its deadline   *)
(* gets a schedule, in whatever order ScheduleJobs meets the jobs.         *)
(***************************************************************************)
RefusalsHarmless ==
  \A j \in Jobs :
    (j \in DOMAIN crCache /\ ~Scaler!Refuses(j, 0)) ~> j \in DOMAIN schedule

-----------------------------------------------------------------------------
(* What the documentation says and the code does not do *)

(***************************************************************************)
(* carbonscalermpijob_controller.go:90, "If job has succeeded or failed,   *)
(* no need to reconcile": the MPIJob of a job that has ended stays until   *)
(* the end is on record, so the job is not run a second time.              *)
(***************************************************************************)
FinishedJobKept ==
  [][\A j \in DOMAIN mpi \cap DOMAIN cr :
       (Terminal(mpi[j].cond) /\ ~Terminal(cr[j].status)) => j \in DOMAIN mpi']_vars

\* All threads rest, every cache is up to date and the queue is empty.
Settled ==
  /\ queue = {} /\ rec = Resting /\ SweepsRest
  /\ mpiFresh = Jobs /\ podCache = DOMAIN launcher
  /\ \A j \in DOMAIN cr : "cache" \in crHeld[j]

(***************************************************************************)
(* src/README.md:42: reconciling goes on "until the desired state is       *)
(* reached on the cluster".  When everything has settled, mpirun runs with *)
(* the number of workers the MPIJob has now.                               *)
(***************************************************************************)
SettledLaunchers ==
  Settled => \A j \in DOMAIN launcher : launcher[j] = mpi[j].env
=============================================================================
