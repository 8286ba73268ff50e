--------------------------- MODULE MCCarbonScaler ---------------------------
(***************************************************************************)
(* Small jobs for CarbonScaler.  "wide" may run on one node and asks for   *)
(* up to 4, more than the cluster has; "pair" needs 2 nodes to start with  *)
(* and has no option at level 1; the profile of "gap" ends before its      *)
(* range does, and only one node in both slots is enough for it.  "none"   *)
(* has deadline 0 and no work, and so an empty schedule; the deadline of   *)
(* "past" is negative.  No progress is 100 in the run: a job that reports  *)
(* it may be given any schedule, and the refinement would say nothing.     *)
(***************************************************************************)
EXTENDS CarbonScaler, Sequences

\* The shape of nbody10k.csv, scaled down: concave, about linear in power.
Concave4 ==
  << [nodes |-> 0, throughput |-> 0,  power |-> 0],
     [nodes |-> 1, throughput |-> 16, power |-> 5],
     [nodes |-> 2, throughput |-> 26, power |-> 10],
     [nodes |-> 3, throughput |-> 35, power |-> 15],
     [nodes |-> 4, throughput |-> 41, power |-> 20] >>

MCMinReplicas == [u \in Jobs |-> IF u = "pair" THEN 2 ELSE 1]
MCMaxReplicas ==
  [u \in Jobs |-> CASE u = "wide" -> 4 [] u = "pair" -> 3 [] u = "gap" -> 2 [] OTHER -> 1]
MCDeadLine ==
  [u \in Jobs |-> CASE u = "pair" -> 1 [] u = "none" -> 0 [] u = "past" -> -1 [] OTHER -> 2]
MCWorkSize ==
  [u \in Jobs |-> CASE u = "wide" -> 75 [] u = "pair" -> 30 [] u = "gap" -> 32
                    [] u = "none" -> 0 [] OTHER -> 10]
MCProfileRows == [u \in Jobs |-> IF u = "gap" THEN SubSeq(Concave4, 1, 2) ELSE Concave4]

\* A day that gets cleaner, one that gets dirtier, and a prediction shorter
\* than the deadlines that begins like the first.
MCPredictions ==
  { [t \in 0 .. 1 |-> 5 - 3 * t], [t \in 0 .. 1 |-> 2 + 4 * t], [t \in {0} |-> 5] }
=============================================================================
