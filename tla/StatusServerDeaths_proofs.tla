---------------------- MODULE StatusServerDeaths_proofs ----------------------
(***************************************************************************)
(* Proof that the assertion of StatusServer's monitors fails only for a    *)
(* job that has lost workers, for any jobs, nodes and monitors: as long as *)
(* a job has not, its size goes up from a monitor to the listing and from  *)
(* the listing to the pods, so that its monitor's replicas only grow.      *)
(***************************************************************************)
EXTENDS StatusServer_proofs

\* The size of a job, as told to its monitor, as listed, and as it is.
Sizes ==
  /\ \A j \in DOMAIN loop.snap \ shrunk :
       loop.snap[j].stage # "succeeded" /\ stage[j] # "succeeded" =>
         loop.snap[j].replicas <= Cardinality(pods[j])
  /\ \A j \in DOMAIN registry \ shrunk :
       stage[j] # "succeeded" => monitor[registry[j]].replicas <= Cardinality(pods[j])
  /\ \A j \in (DOMAIN registry \cap DOMAIN loop.snap) \ shrunk :
       loop.snap[j].stage # "succeeded" =>
         monitor[registry[j]].replicas <= loop.snap[j].replicas

\* No more readings are kept than the monitor has been told of.
Pruned ==
  \A m \in DOMAIN monitor :
    at[m].pc = "prune" /\ monitor[m].job \notin shrunk => at[m].kept <= monitor[m].replicas

Explained == Sizes /\ Pruned /\ ReadingErrorsExplained

-----------------------------------------------------------------------------
LEMMA ExplainedInitially == Init => Explained
BY DEF Init, Explained, Sizes, Pruned, ReadingErrorsExplained, EmptyMap

-----------------------------------------------------------------------------
(* Sizes *)

LEMMA PodsFinite ==
  ASSUME ClusterOK, NEW j \in Jobs
  PROVE  /\ IsFiniteSet(pods[j]) /\ Cardinality(pods[j]) \in Nat
<1>1. IsFiniteSet(pods[j])  BY FS_Subset, MonitorAssumption DEF ClusterOK
<1> QED  BY <1>1, FS_CardinalityType

\* Everything is as it was, but for jobs that have grown or come to an end.
LEMMA GrowingSizes ==
  ASSUME Inv, Sizes, Pruned, UNCHANGED Server,
         shrunk \subseteq shrunk',
         \A k \in Jobs \ shrunk' :
           /\ stage'[k] # "succeeded" => stage[k] # "succeeded"
           /\ Cardinality(pods[k]) <= Cardinality(pods'[k]) \/ stage'[k] = "succeeded"
           /\ Cardinality(pods'[k]) \in Nat
  PROVE  Sizes' /\ Pruned'
<1>1. UNCHANGED <<loop, registry, monitor, at>>  BY DEF Server
<1>2. Pruned'  BY <1>1 DEF Pruned
<1>3. \A j \in DOMAIN loop.snap : j \in Jobs /\ loop.snap[j].replicas \in Nat
  BY DEF Inv, ServerOK, LoopOK, Snapshot
<1>4. \A j \in DOMAIN registry : j \in Jobs /\ monitor[registry[j]].replicas \in Nat
  BY DEF Inv, ServerOK, MonitorsOK, Linked, Monitor
<1>5. \A j \in Jobs : Cardinality(pods[j]) \in Nat  BY PodsFinite DEF Inv
<1>6. Sizes'
  BY <1>1, <1>3, <1>4, <1>5 DEF Sizes
<1> QED  BY <1>2, <1>6

LEMMA ClusterSizes ==
  ASSUME Inv, Sizes, Pruned, Inv', ClusterStep
  PROVE  Sizes' /\ Pruned'
<1>1. UNCHANGED Server
  BY DEF ClusterStep, Submit, Reconciled, Advances, Succeeds, Delete, Grow, Shrink
<1>2. shrunk \subseteq shrunk'
  BY DEF ClusterStep, Submit, Reconciled, Advances, Succeeds, Delete, Grow, Shrink, history
<1>3. \A k \in Jobs : Cardinality(pods[k]) \in Nat /\ Cardinality(pods'[k]) \in Nat
                        /\ IsFiniteSet(pods'[k])
  <2> TAKE k \in Jobs
  <2>1. pods'[k] \in SUBSET Nodes  BY DEF Inv, ClusterOK
  <2>2. IsFiniteSet(pods'[k]) /\ Cardinality(pods'[k]) \in Nat
    BY <2>1, FS_Subset, FS_CardinalityType, MonitorAssumption
  <2> QED  BY <2>2, PodsFinite DEF Inv
<1> PICK j \in Jobs :
      \/ Submit(j) \/ Reconciled(j) \/ Advances(j) \/ Succeeds(j) \/ Delete(j)
      \/ \E nodes \in SUBSET Nodes :
           Grow(j, nodes) \/ \E next \in Stages : Shrink(j, nodes, next)
  BY DEF ClusterStep
<1>4. CASE Submit(j) \/ Reconciled(j) \/ Advances(j)
  <2>1. UNCHANGED pods /\ \A k \in Jobs : stage'[k] # "succeeded" => stage[k] # "succeeded"
    BY <1>4 DEF Submit, Reconciled, Advances, Becomes, Inv, ClusterOK
  <2> QED  BY <1>1, <1>2, <1>3, <2>1, GrowingSizes
<1>5. CASE Succeeds(j)
  <2>1. \A k \in Jobs : IF k = j THEN stage'[k] = "succeeded"
                        ELSE stage'[k] = stage[k] /\ pods'[k] = pods[k]
    BY <1>5 DEF Succeeds, Becomes, Inv, ClusterOK
  <2> QED  BY <1>1, <1>2, <1>3, <2>1, GrowingSizes
<1>6. ASSUME NEW nodes \in SUBSET Nodes, Grow(j, nodes)
      PROVE  Sizes' /\ Pruned'
  <2>1. \A k \in Jobs : pods[k] \subseteq pods'[k]
    BY <1>6 DEF Grow, Inv, ClusterOK
  <2>2. \A k \in Jobs : Cardinality(pods[k]) <= Cardinality(pods'[k])
    BY <1>3, <2>1, FS_Subset
  <2>3. \A k \in Jobs : stage'[k] # "succeeded" => stage[k] # "succeeded"
    BY <1>6 DEF Grow, Becomes, Inv, ClusterOK
  <2> QED  BY <1>1, <1>2, <1>3, <2>2, <2>3, GrowingSizes
<1>7. CASE Delete(j) \/ \E nodes \in SUBSET Nodes : \E next \in Stages : Shrink(j, nodes, next)
  <2>1. \A k \in Jobs \ shrunk' : pods'[k] = pods[k] /\ stage'[k] = stage[k]
    BY <1>7 DEF Delete, Shrink, Becomes, Inv, ClusterOK
  <2> QED  BY <1>1, <1>2, <1>3, <2>1, GrowingSizes
<1> QED  BY <1>4, <1>5, <1>6, <1>7

LEMMA ToldSize ==
  ASSUME MonitorsOK, NEW stopped, NEW m \in DOMAIN monitor
  PROVE  /\ Told(stopped)[m].replicas = monitor[m].replicas
         /\ Told(stopped)[m].job = monitor[m].job
<1>1. monitor[m] \in Monitor  BY DEF MonitorsOK
<1> QED  BY <1>1 DEF Told, Monitor

\* Some monitors are told to stop and forgotten.
LEMMA TellingSizes ==
  ASSUME Inv, Sizes, Pruned, NEW stopped, monitor' = Told(stopped),
         UNCHANGED <<stage, pods, at>>,
         DOMAIN registry' \subseteq DOMAIN registry,
         \A j \in DOMAIN registry' : registry'[j] = registry[j],
         shrunk \subseteq shrunk',
         DOMAIN loop'.snap \subseteq DOMAIN loop.snap,
         \A j \in DOMAIN loop'.snap : loop'.snap[j] = loop.snap[j]
  PROVE  Sizes' /\ Pruned'
<1>1. /\ DOMAIN monitor' = DOMAIN monitor
      /\ \A m \in DOMAIN monitor :
           monitor'[m].replicas = monitor[m].replicas /\ monitor'[m].job = monitor[m].job
  BY ToldSize DEF Told, Inv, ServerOK
<1>2. \A j \in DOMAIN registry : registry[j] \in DOMAIN monitor
  BY DEF Inv, ServerOK, Linked
<1>3. Pruned'  BY <1>1 DEF Pruned
<1>4. Sizes'  BY <1>1, <1>2 DEF Sizes
<1> QED  BY <1>3, <1>4

LEMMA Visited ==
  ASSUME NEW j, Visiting(j)
  PROVE  /\ loop'.snap = Drop(loop.snap, j)
         /\ DOMAIN loop'.snap = DOMAIN loop.snap \ {j}
         /\ \A k \in DOMAIN loop'.snap : loop'.snap[k] = loop.snap[k]
         /\ UNCHANGED <<stage, pods, readings, shrunk>>
BY DEF Visiting, Visit, LoopGoto, Drop, cluster, history

LEMMA LoopSizes ==
  ASSUME Inv, Sizes, Pruned, Inv', LoopStep \/ LoopRaises
  PROVE  Sizes' /\ Pruned'
<1>1. CASE ListFails \/ LoopRaises
  <2>1. Abort  BY <1>1 DEF ListFails, LoopRaises
  <2>2. DOMAIN registry' = {} /\ DOMAIN loop'.snap = {}
    BY <2>1 DEF Abort, LoopGoto, EmptyMap
  <2>3. UNCHANGED shrunk
    BY <2>1 DEF Abort, history
  <2>4. monitor' = Told({registry[j] : j \in DOMAIN registry}) /\ UNCHANGED <<stage, pods, at>>
    BY <2>1 DEF Abort, cluster
  <2> QED  BY <2>2, <2>3, <2>4, TellingSizes
<1>2. CASE List
  <2>1. /\ \A j \in DOMAIN loop'.snap : loop'.snap[j] = Seen(j)
        /\ UNCHANGED <<stage, pods, registry, monitor, at, shrunk>>
    BY <1>2 DEF List, Visit, LoopGoto, cluster, history
  <2>2. \A j \in DOMAIN loop'.snap : j \in Jobs /\ Cardinality(pods[j]) \in Nat
    BY PodsFinite DEF Inv, ServerOK, LoopOK
  <2>3. Pruned'  BY <2>1 DEF Pruned
  <2>4. \A j \in DOMAIN loop'.snap :
          loop'.snap[j].stage = stage[j] /\ loop'.snap[j].replicas = Cardinality(pods[j])
    <3> TAKE j \in DOMAIN loop'.snap
    <3>1. loop'.snap[j] =
            [stage |-> stage[j], replicas |-> Cardinality(pods[j]), progress |-> recorded[j]]
      BY <2>1 DEF Seen
    <3> QED  BY <3>1
  <2>5. Sizes'  BY <2>1, <2>2, <2>4 DEF Sizes
  <2> QED  BY <2>3, <2>5
<1>3. CASE Check
  <2>1. DOMAIN loop'.snap = {}  BY <1>3 DEF Check, LoopGoto, EmptyMap
  <2>2. /\ DOMAIN registry' \subseteq DOMAIN registry
        /\ \A j \in DOMAIN registry' : registry'[j] = registry[j]
        /\ UNCHANGED <<stage, pods, at, shrunk>>
    BY <1>3 DEF Check, cluster, history
  <2>3. \E stopped : monitor' = Told(stopped)  BY <1>3 DEF Check
  <2> QED  BY <2>1, <2>2, <2>3, TellingSizes
<1>4. ASSUME NEW j \in Jobs, StopMonitor(j)
      PROVE  Sizes' /\ Pruned'
  <2>1. /\ DOMAIN registry' \subseteq DOMAIN registry
        /\ \A k \in DOMAIN registry' : registry'[k] = registry[k]
        /\ monitor' = Told({registry[j]}) /\ UNCHANGED at /\ Visiting(j)
    BY <1>4 DEF StopMonitor, Drop
  <2> QED  BY <2>1, Visited, TellingSizes
<1>5. ASSUME NEW j \in Jobs, PassOver(j)
      PROVE  Sizes' /\ Pruned'
  <2>1. Visiting(j) /\ UNCHANGED <<registry, monitor, at>>  BY <1>5 DEF PassOver
  <2> QED  BY <2>1, Visited DEF Sizes, Pruned
<1>6. ASSUME NEW j \in Jobs, SetReplicas(j)
      PROVE  Sizes' /\ Pruned'
  <2>1. /\ Visiting(j) /\ UNCHANGED <<registry, at>>
        /\ j \in DOMAIN registry /\ j \in DOMAIN loop.snap /\ loop.snap[j].stage # "succeeded"
        /\ monitor' = [monitor EXCEPT ![registry[j]] =
                         [monitor[registry[j]] EXCEPT !.replicas = loop.snap[j].replicas]]
    BY <1>6 DEF SetReplicas, Visiting
  <2>2. \A m \in DOMAIN monitor : monitor[m] \in Monitor /\ monitor[m].replicas \in Nat
    BY DEF Inv, ServerOK, MonitorsOK, Monitor
  <2>3. /\ DOMAIN monitor' = DOMAIN monitor /\ registry[j] \in DOMAIN monitor
        /\ monitor'[registry[j]].replicas = loop.snap[j].replicas
        /\ monitor[registry[j]].job = j /\ monitor'[registry[j]].job = j
        /\ \A m \in DOMAIN monitor \ {registry[j]} : monitor'[m] = monitor[m]
    BY <2>1, <2>2 DEF Monitor, Inv, ServerOK, Linked
  <2>4. \A k \in DOMAIN registry \ {j} : registry[k] \in DOMAIN monitor \ {registry[j]}
    BY <2>1 DEF Inv, ServerOK, Linked
  <2>5. loop.snap[j].replicas \in Nat
    BY <2>1 DEF Inv, ServerOK, LoopOK, Snapshot
  <2>6. j \notin shrunk => monitor[registry[j]].replicas <= loop.snap[j].replicas
    BY <2>1 DEF Sizes
  <2>7. \A m \in DOMAIN monitor : at[m].pc = "prune" => at[m].kept \in Nat
    <3> TAKE m \in DOMAIN monitor
    <3>1. AtType(at[m])  BY DEF Inv, ServerOK, MonitorsOK
    <3> QED  BY <3>1 DEF AtType
  <2>8. Pruned'
    <3> SUFFICES ASSUME NEW m \in DOMAIN monitor, at[m].pc = "prune",
                        monitor[m].job \notin shrunk
        PROVE  at[m].kept <= monitor'[m].replicas
      BY <2>1, <2>3, Visited DEF Pruned
    <3>1. at[m].kept <= monitor[m].replicas  BY DEF Pruned
    <3>2. CASE m = registry[j]
      BY <2>2, <2>3, <2>5, <2>6, <2>7, <3>1, <3>2
    <3>3. CASE m # registry[j]
      BY <2>3, <3>1, <3>3
    <3> QED  BY <3>2, <3>3
  <2>9. Sizes'
    BY <2>1, <2>3, <2>4, Visited DEF Sizes
  <2> QED  BY <2>8, <2>9
<1>7. ASSUME NEW j \in Jobs, NEW m \in Monitors, StartMonitor(j, m)
      PROVE  Sizes' /\ Pruned'
  <2>1. /\ Visiting(j) /\ j \notin DOMAIN registry /\ at[m] = Free
        /\ j \in DOMAIN loop.snap /\ loop.snap[j].stage # "succeeded"
        /\ registry' = Put(registry, j, m)
        /\ monitor' = Put(monitor, m, [job |-> j, running |-> TRUE,
                 replicas |-> loop.snap[j].replicas, progress |-> loop.snap[j].progress])
        /\ at' = [at EXCEPT ![m] = [pc |-> "locate"]]
    BY <1>7 DEF StartMonitor, Visiting
  <2>2. m \notin DOMAIN monitor /\ DOMAIN at = Monitors
    BY <2>1 DEF Inv, ServerOK, MonitorsOK
  <2>3. /\ DOMAIN monitor' = DOMAIN monitor \cup {m}
        /\ monitor'[m].replicas = loop.snap[j].replicas
        /\ \A k \in DOMAIN monitor : monitor'[k] = monitor[k] /\ k # m
    BY <2>1, <2>2 DEF Put
  <2>4. /\ DOMAIN registry' = DOMAIN registry \cup {j} /\ registry'[j] = m
        /\ \A k \in DOMAIN registry : registry'[k] = registry[k] /\ k # j
    BY <2>1 DEF Put
  <2>5. at'[m].pc = "locate" /\ \A k \in DOMAIN monitor : at'[k] = at[k]
    BY <2>1, <2>2, <2>3 DEF Inv, ServerOK, MonitorsOK
  <2>6. \A k \in DOMAIN registry : registry[k] \in DOMAIN monitor
    BY DEF Inv, ServerOK, Linked
  <2>7. Pruned'
    <3>1. UNCHANGED shrunk  BY <2>1, Visited
    <3> QED  BY <2>3, <2>5, <3>1 DEF Pruned
  <2>8. Sizes'
    <3>1. /\ DOMAIN loop'.snap = DOMAIN loop.snap \ {j}
          /\ \A k \in DOMAIN loop'.snap : loop'.snap[k] = loop.snap[k]
          /\ UNCHANGED <<stage, pods, shrunk>>
      BY <2>1, Visited
    <3>2. \A k \in DOMAIN registry' : k = j \/ k \in DOMAIN registry  BY <2>4
    <3>3. stage[j] # "succeeded" /\ j \notin shrunk =>
            monitor'[registry'[j]].replicas <= Cardinality(pods[j])
      BY <2>1, <2>3, <2>4 DEF Sizes
    <3>4. \A k \in DOMAIN registry : monitor'[registry'[k]] = monitor[registry[k]]
      BY <2>3, <2>4, <2>6
    <3>5. \A k \in DOMAIN registry' \ shrunk :
            stage[k] # "succeeded" => monitor'[registry'[k]].replicas <= Cardinality(pods[k])
      BY <3>2, <3>3, <3>4 DEF Sizes
    <3>6. \A k \in (DOMAIN registry' \cap DOMAIN loop'.snap) \ shrunk :
            loop'.snap[k].stage # "succeeded" =>
              monitor'[registry'[k]].replicas <= loop'.snap[k].replicas
      BY <3>1, <3>2, <3>4 DEF Sizes
    <3> QED  BY <3>1, <3>5, <3>6 DEF Sizes
  <2> QED  BY <2>7, <2>8
<1> QED  BY <1>1, <1>2, <1>3, <1>4, <1>5, <1>6, <1>7 DEF LoopStep

\* The monitor goes on somewhere else than to another item.
LEMMA GoingSizes ==
  ASSUME Inv, Sizes, Pruned, NEW m \in Monitors, NEW state, Goto(m, state),
         state.pc = "prune" => state.kept = 0, at[m] # Free,
         UNCHANGED <<stage, pods, loop, registry, shrunk, monitor>>
  PROVE  Sizes' /\ Pruned'
<1>1. at'[m] = state /\ \A k \in Monitors \ {m} : at'[k] = at[k]
  BY DEF Goto, Inv, ServerOK, MonitorsOK
<1>2. \A k \in DOMAIN monitor : k \in Monitors /\ monitor[k].replicas \in Nat
  BY DEF Inv, ServerOK, MonitorsOK, Monitor
<1>3. Pruned'  BY <1>1, <1>2 DEF Pruned
<1>4. Sizes'  BY DEF Sizes
<1> QED  BY <1>3, <1>4

LEMMA PollingFirst ==
  ASSUME NEW left, NEW size
  PROVE  Polling(left, size).pc = "prune" => Polling(left, size).kept = 0
BY DEF Polling

LEMMA MonitorSizes ==
  ASSUME Inv, Sizes, Pruned, NEW m \in Monitors,
         MonitorStep(m) \/ MonitorRaises(m) \/ ProgressRefused(m)
  PROVE  Sizes' /\ Pruned'
<1>1. CASE Prune(m)
  <2> DEFINE next == [pc   |-> "prune", item |-> at[m].item + 1, size |-> at[m].size,
                      kept |-> at[m].kept + (IF Keeps(at[m].item, monitor[m].replicas) THEN 1 ELSE 0)]
  <2>1. /\ UNCHANGED <<stage, pods, loop, registry, shrunk, monitor>>
        /\ at[m].pc = "prune" /\ Goto(m, next)
    BY <1>1 DEF Prune, MonitorOnly, cluster, history
  <2>2. m \in DOMAIN monitor /\ AtType(at[m]) /\ DOMAIN at = Monitors
    BY <2>1 DEF Inv, ServerOK, MonitorsOK, Free
  <2>3. /\ at[m].item \in Nat /\ at[m].kept \in 0 .. at[m].item
        /\ monitor[m].replicas \in Nat
    <3>1. at[m].size \in Nat /\ at[m].item \in 0 .. at[m].size /\ at[m].kept \in 0 .. at[m].item
      BY <2>1, <2>2 DEF AtType
    <3>2. monitor[m] \in Monitor  BY <2>2 DEF Inv, ServerOK, MonitorsOK
    <3> QED  BY <3>1, <3>2 DEF Monitor
  <2>4. \/ next.kept = at[m].kept
        \/ next.kept = at[m].kept + 1 /\ at[m].item + 1 <= monitor[m].replicas
    BY <2>3 DEF Keeps
  <2>5. at'[m] = next /\ \A k \in Monitors \ {m} : at'[k] = at[k]
    BY <2>1, <2>2 DEF Goto
  <2> HIDE DEF next
  <2>6. monitor[m].job \notin shrunk => next.kept <= monitor[m].replicas
    BY <2>1, <2>2, <2>3, <2>4 DEF Pruned
  <2>7. Pruned'
    BY <2>1, <2>5, <2>6 DEF Pruned, Inv, ServerOK, MonitorsOK
  <2>8. Sizes'  BY <2>1 DEF Sizes
  <2> QED  BY <2>7, <2>8
<1>2. CASE UpdateProgress(m)
  <2>1. /\ UNCHANGED <<stage, pods, loop, registry, shrunk>>
        /\ Goto(m, [pc |-> "report"]) /\ at[m].pc = "update"
        /\ monitor' = [monitor EXCEPT ![m] =
              [monitor[m] EXCEPT !.progress = Latest(monitor[m].progress, log[monitor[m].job])]]
    BY <1>2 DEF UpdateProgress, MonitorOnly, cluster, history
  <2>2. /\ DOMAIN monitor' = DOMAIN monitor
        /\ \A k \in DOMAIN monitor :
             monitor'[k].replicas = monitor[k].replicas /\ monitor'[k].job = monitor[k].job
    BY <2>1 DEF Inv, ServerOK, MonitorsOK, Monitor
  <2>3. at'[m].pc = "report" /\ \A k \in DOMAIN monitor \ {m} : at'[k] = at[k]
    BY <2>1 DEF Goto, Inv, ServerOK, MonitorsOK
  <2>4. Pruned'  BY <2>1, <2>2, <2>3 DEF Pruned
  <2>5. Sizes'  BY <2>1, <2>2 DEF Sizes, Inv, ServerOK, Linked
  <2> QED  BY <2>4, <2>5
<1>3. CASE Save(m) \/ Collect(m)
  <2>1. /\ UNCHANGED <<stage, pods, loop, registry, shrunk>>
        /\ Goto(m, Free) /\ monitor' = Drop(monitor, m) /\ at[m] # Free
    BY <1>3 DEF Save, Collect, MonitorOnly, cluster, history, Free
  <2>2. m \in DOMAIN monitor  BY <2>1 DEF Inv, ServerOK, MonitorsOK
  <2>3. ~monitor[m].running
    BY <1>3, <2>2 DEF Save, Collect, Inv, ServerOK, SavingStopped
  <2>4. /\ DOMAIN monitor' = DOMAIN monitor \ {m}
        /\ \A k \in DOMAIN monitor \ {m} : monitor'[k] = monitor[k] /\ at'[k] = at[k]
    BY <2>1 DEF Drop, Goto, Inv, ServerOK, MonitorsOK
  <2>5. \A j \in DOMAIN registry : registry[j] \in DOMAIN monitor \ {m}
    BY <2>3 DEF Inv, ServerOK, Linked
  <2>6. Pruned'  BY <2>1, <2>4 DEF Pruned
  <2>7. Sizes'  BY <2>1, <2>4, <2>5 DEF Sizes
  <2> QED  BY <2>6, <2>7
<1>4. CASE \/ Locate(m) \/ (\E n \in Nodes : Poll(m, n)) \/ Assert(m)
           \/ SetProgress(m) \/ Wake(m) \/ MonitorRaises(m) \/ ProgressRefused(m)
  <2>1. UNCHANGED <<stage, pods, loop, registry, shrunk, monitor>>
    BY <1>4 DEF Locate, Poll, Assert, SetProgress, Wake, MonitorRaises, ProgressRefused,
                MonitorOnly, cluster, history
  <2>2. at[m] # Free
    <3>1. at[m].pc \in {"locate", "poll", "prune", "report", "sleep"}
      BY <1>4 DEF Locate, Poll, Assert, SetProgress, Wake, MonitorRaises, ProgressRefused
    <3> QED  BY <3>1 DEF Free
  <2>3. \E state : Goto(m, state) /\ (state.pc = "prune" => state.kept = 0)
    <3>1. ASSUME NEW cause, Dies(m, cause)
          PROVE  \E state : Goto(m, state) /\ (state.pc = "prune" => state.kept = 0)
      BY <3>1 DEF Dies
    <3>2. ASSUME NEW pc \in {"update", "sleep", "locate", "save"}, Goto(m, [pc |-> pc])
          PROVE  \E state : Goto(m, state) /\ (state.pc = "prune" => state.kept = 0)
      BY <3>2
    <3>3. ASSUME NEW left, NEW size, Goto(m, Polling(left, size))
          PROVE  \E state : Goto(m, state) /\ (state.pc = "prune" => state.kept = 0)
      BY <3>3, PollingFirst
    <3>4. CASE Locate(m) \/ \E n \in Nodes : Poll(m, n)
      BY <3>1, <3>3, <3>4 DEF Locate, Poll
    <3>5. CASE Assert(m) \/ SetProgress(m) \/ ProgressRefused(m) \/ MonitorRaises(m)
      BY <3>1, <3>2, <3>5 DEF Assert, SetProgress, ProgressRefused, MonitorRaises
    <3>6. CASE Wake(m)
      BY <3>2, <3>6 DEF Wake
    <3> QED  BY <1>4, <3>4, <3>5, <3>6
  <2> QED  BY <2>1, <2>2, <2>3, GoingSizes
<1> QED  BY <1>1, <1>2, <1>3, <1>4 DEF MonitorStep

-----------------------------------------------------------------------------
(* The deaths *)

Failed(state) == state.pc = "dead" /\ state.cause = "reading error"

\* The others are as they were, or have not failed.
LEMMA FailingExplained ==
  ASSUME Inv, ReadingErrorsExplained, shrunk \subseteq shrunk',
         \A m \in DOMAIN monitor' :
           \/ m \in DOMAIN monitor /\ at'[m] = at[m] /\ monitor'[m].job = monitor[m].job
           \/ Failed(at'[m]) => monitor'[m].job \in shrunk'
  PROVE  ReadingErrorsExplained'
BY DEF ReadingErrorsExplained, Failed

LEMMA ClusterDeaths ==
  ASSUME Inv, ReadingErrorsExplained, ClusterStep
  PROVE  ReadingErrorsExplained'
<1>1. UNCHANGED <<monitor, at>>
  BY DEF ClusterStep, Submit, Reconciled, Advances, Succeeds, Delete, Grow, Shrink, Server
<1>2. shrunk \subseteq shrunk'
  BY DEF ClusterStep, Submit, Reconciled, Advances, Succeeds, Delete, Grow, Shrink, history
<1> QED  BY <1>1, <1>2, FailingExplained

LEMMA LoopDeaths ==
  ASSUME Inv, ReadingErrorsExplained, LoopStep \/ LoopRaises
  PROVE  ReadingErrorsExplained'
<1>1. ASSUME UNCHANGED <<at, shrunk>>, DOMAIN monitor' = DOMAIN monitor,
             \A m \in DOMAIN monitor : monitor'[m].job = monitor[m].job
      PROVE  ReadingErrorsExplained'
  BY <1>1, FailingExplained
<1>2. ASSUME UNCHANGED <<at, shrunk>>, NEW stopped, monitor' = Told(stopped)
      PROVE  ReadingErrorsExplained'
  <2>1. DOMAIN monitor' = DOMAIN monitor  BY <1>2 DEF Told
  <2> QED  BY <1>1, <1>2, <2>1, ToldSize DEF Inv, ServerOK
<1>3. CASE ListFails \/ LoopRaises
  <2>1. UNCHANGED <<at, shrunk>> /\ \E stopped : monitor' = Told(stopped)
    BY <1>3 DEF ListFails, LoopRaises, Abort, history
  <2> QED  BY <1>2, <2>1
<1>4. CASE List
  BY <1>1, <1>4 DEF List, history
<1>5. CASE Check
  <2>1. UNCHANGED <<at, shrunk>> /\ \E stopped : monitor' = Told(stopped)
    BY <1>5 DEF Check, history
  <2> QED  BY <1>2, <2>1
<1>6. ASSUME NEW j \in Jobs, StopMonitor(j) \/ SetReplicas(j) \/ PassOver(j)
      PROVE  ReadingErrorsExplained'
  <2>1. UNCHANGED <<at, shrunk>>
    BY <1>6, Visited DEF StopMonitor, SetReplicas, PassOver
  <2>2. CASE StopMonitor(j)
    BY <1>2, <2>1, <2>2 DEF StopMonitor
  <2>3. CASE PassOver(j)
    BY <1>1, <2>1, <2>3 DEF PassOver
  <2>4. CASE SetReplicas(j)
    <3>1. monitor' = [monitor EXCEPT ![registry[j]] =
                        [monitor[registry[j]] EXCEPT !.replicas = loop.snap[j].replicas]]
      BY <2>4 DEF SetReplicas
    <3>2. \A m \in DOMAIN monitor : monitor[m] \in Monitor
      BY DEF Inv, ServerOK, MonitorsOK
    <3>3. DOMAIN monitor' = DOMAIN monitor /\ \A m \in DOMAIN monitor : monitor'[m].job = monitor[m].job
      BY <3>1, <3>2 DEF Monitor
    <3> QED  BY <1>1, <2>1, <3>3
  <2> QED  BY <1>6, <2>2, <2>3, <2>4
<1>7. ASSUME NEW j \in Jobs, NEW m \in Monitors, StartMonitor(j, m)
      PROVE  ReadingErrorsExplained'
  <2> DEFINE new == [job |-> j, running |-> TRUE, replicas |-> loop.snap[j].replicas,
                     progress |-> loop.snap[j].progress]
  <2>1. /\ Visiting(j) /\ monitor' = Put(monitor, m, new)
        /\ at' = [at EXCEPT ![m] = [pc |-> "locate"]]
    BY <1>7 DEF StartMonitor
  <2> HIDE DEF new
  <2>2. DOMAIN at = Monitors /\ DOMAIN monitor \subseteq Monitors
    BY DEF Inv, ServerOK, MonitorsOK
  <2>3. /\ DOMAIN monitor' = DOMAIN monitor \cup {m} /\ at'[m] = [pc |-> "locate"]
        /\ \A k \in DOMAIN monitor \ {m} : at'[k] = at[k] /\ monitor'[k] = monitor[k]
    BY <2>1, <2>2 DEF Put
  <2>4. ~Failed(at'[m])  BY <2>3 DEF Failed
  <2>5. UNCHANGED shrunk  BY <2>1, Visited
  <2> QED  BY <2>3, <2>4, <2>5, FailingExplained
<1> QED  BY <1>3, <1>4, <1>5, <1>6, <1>7 DEF LoopStep

\* One monitor goes on.
LEMMA GoingDeaths ==
  ASSUME Inv, ReadingErrorsExplained, NEW m \in Monitors, NEW state, Goto(m, state),
         UNCHANGED shrunk, DOMAIN monitor' \subseteq DOMAIN monitor,
         \A k \in DOMAIN monitor' : monitor'[k].job = monitor[k].job,
         Failed(state) => monitor[m].job \in shrunk
  PROVE  ReadingErrorsExplained'
<1>1. DOMAIN at = Monitors /\ DOMAIN monitor \subseteq Monitors
  BY DEF Inv, ServerOK, MonitorsOK
<1>2. at'[m] = state /\ \A k \in DOMAIN monitor \ {m} : at'[k] = at[k]
  BY <1>1 DEF Goto
<1> QED  BY <1>2, FailingExplained

LEMMA MonitorDeaths ==
  ASSUME Inv, Pruned, ReadingErrorsExplained, NEW m \in Monitors,
         MonitorStep(m) \/ MonitorRaises(m) \/ ProgressRefused(m)
  PROVE  ReadingErrorsExplained'
<1>1. /\ UNCHANGED shrunk /\ DOMAIN monitor' \subseteq DOMAIN monitor
      /\ \A k \in DOMAIN monitor' : monitor'[k].job = monitor[k].job
  <2>1. UNCHANGED shrunk
    BY DEF MonitorStep, Locate, Poll, Prune, Assert, UpdateProgress, SetProgress, Wake, Save,
           Collect, MonitorRaises, ProgressRefused, MonitorOnly, history
  <2>2. CASE UpdateProgress(m)
    <3>1. monitor' = [monitor EXCEPT ![m] =
            [monitor[m] EXCEPT !.progress = Latest(monitor[m].progress, log[monitor[m].job])]]
      BY <2>2 DEF UpdateProgress
    <3> QED  BY <2>1, <3>1 DEF Inv, ServerOK, MonitorsOK, Monitor
  <2>3. CASE Save(m) \/ Collect(m)
    BY <2>1, <2>3 DEF Save, Collect, Drop
  <2>4. CASE UNCHANGED monitor
    BY <2>1, <2>4
  <2> QED
    BY <2>2, <2>3, <2>4
    DEF MonitorStep, Locate, Poll, Prune, Assert, SetProgress, Wake, MonitorRaises,
        ProgressRefused
<1>2. ASSUME NEW state, Goto(m, state), ~Failed(state)
      PROVE  ReadingErrorsExplained'
  BY <1>1, <1>2, GoingDeaths
<1>3. ASSUME NEW pc \in {"locate", "update", "report", "sleep", "save", "free"},
             Goto(m, [pc |-> pc])
      PROVE  ReadingErrorsExplained'
  <2>1. ~Failed([pc |-> pc])  BY DEF Failed
  <2> QED  BY <1>2, <1>3, <2>1
<1>4. ASSUME NEW cause \in {"no readings", "raised"}, Dies(m, cause)
      PROVE  ReadingErrorsExplained'
  <2>1. ~Failed([pc |-> "dead", cause |-> cause])  BY DEF Failed
  <2> QED  BY <1>2, <1>4, <2>1 DEF Dies
<1>5. ASSUME NEW left, NEW size, Goto(m, Polling(left, size))
      PROVE  ReadingErrorsExplained'
  <2>1. ~Failed(Polling(left, size))  BY DEF Failed, Polling
  <2> QED  BY <1>2, <1>5, <2>1
<1>6. CASE Locate(m) \/ \E n \in Nodes : Poll(m, n)
  BY <1>4, <1>5, <1>6 DEF Locate, Poll
<1>7. CASE Prune(m)
  <2> DEFINE next == [pc   |-> "prune", item |-> at[m].item + 1, size |-> at[m].size,
                      kept |-> at[m].kept + (IF Keeps(at[m].item, monitor[m].replicas) THEN 1 ELSE 0)]
  <2>1. Goto(m, next) /\ ~Failed(next)  BY <1>7 DEF Prune, Failed
  <2> HIDE DEF next
  <2> QED  BY <1>2, <2>1
<1>8. CASE Assert(m)
  <2>1. CASE at[m].kept <= monitor[m].replicas
    BY <1>3, <1>8, <2>1 DEF Assert
  <2>2. CASE ~(at[m].kept <= monitor[m].replicas)
    <3>1. m \in DOMAIN monitor /\ at[m].pc = "prune"
      <4>1. at[m].pc = "prune"  BY <1>8 DEF Assert
      <4>2. at[m] # Free  BY <4>1 DEF Free
      <4> QED  BY <4>1, <4>2 DEF Inv, ServerOK, MonitorsOK
    <3>2. monitor[m].job \in shrunk  BY <2>2, <3>1 DEF Pruned
    <3>3. Goto(m, [pc |-> "dead", cause |-> "reading error"])
      BY <1>8, <2>2 DEF Assert, Dies
    <3> QED  BY <1>1, <3>2, <3>3, GoingDeaths
  <2> QED  BY <2>1, <2>2
<1>9. CASE UpdateProgress(m) \/ SetProgress(m) \/ ProgressRefused(m)
  BY <1>3, <1>9 DEF UpdateProgress, SetProgress, ProgressRefused
<1>10. CASE Wake(m) \/ Save(m) \/ Collect(m)
  BY <1>3, <1>10 DEF Wake, Save, Collect, Free
<1>11. CASE MonitorRaises(m)
  BY <1>4, <1>11 DEF MonitorRaises
<1> QED
  BY <1>6, <1>7, <1>8, <1>9, <1>10, <1>11 DEF MonitorStep

-----------------------------------------------------------------------------
LEMMA ExplainedNext == Inv /\ Inv' /\ Explained /\ [Next]_vars => Explained'
<1> SUFFICES ASSUME Inv, Inv', Explained, [Next]_vars PROVE Explained'
  OBVIOUS
<1>0. Sizes /\ Pruned /\ ReadingErrorsExplained  BY DEF Explained
<1>1. CASE ClusterStep
  BY <1>0, <1>1, ClusterSizes, ClusterDeaths DEF Explained
<1>2. CASE MeterStep \/ UNCHANGED vars
  <2>1. UNCHANGED <<stage, pods, loop, registry, monitor, at, shrunk>>
    BY <1>2 DEF MeterStep, Sample, ServerStarts, vars, cluster, Server, history
  <2> QED  BY <1>0, <2>1 DEF Explained, Sizes, Pruned, ReadingErrorsExplained
<1>3. CASE LoopStep \/ LoopRaises
  BY <1>0, <1>3, LoopSizes, LoopDeaths DEF Explained
<1>4. ASSUME NEW m \in Monitors,
             MonitorStep(m) \/ MonitorRaises(m) \/ ProgressRefused(m)
      PROVE  Explained'
  BY <1>0, <1>4, MonitorSizes, MonitorDeaths DEF Explained
<1> QED  BY <1>1, <1>2, <1>3, <1>4 DEF Next, ClusterStep, MeterStep

(***************************************************************************)
(* For any number of jobs, nodes, monitors and disturbances, whatever      *)
(* raises and whoever is told to stop, a monitor fails the assertion of    *)
(* status-server.py:50 only if its job has lost workers or was deleted.    *)
(***************************************************************************)
THEOREM ReadingErrorsAreExplained == Spec => []ReadingErrorsExplained
<1>1. Explained => ReadingErrorsExplained  BY DEF Explained
<1> QED
  BY <1>1, ExplainedInitially, ExplainedNext, Invariant, PTL DEF Spec
=============================================================================
