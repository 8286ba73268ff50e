---------------------------- MODULE MCReconciler ----------------------------
(***************************************************************************)
(* Small instances of Reconciler.  A node does 10 units of work in a slot, *)
(* two nodes do 15: 10 units fill one slot of one node, 15 one slot of two *)
(* nodes or two slots of one, and 20 do not fit into a slot.  So schedules *)
(* pause and run, with One replica at most, or scale up and down.          *)
(***************************************************************************)
EXTENDS Reconciler, TLC

One == [j \in Jobs |-> 1]
Two == [j \in Jobs |-> 2]

Work10 == [j \in Jobs |-> 10]
Work15 == [j \in Jobs |-> 15]

\* One job fits into its slot, the other does not.
Work20IfTight == [j \in Jobs |-> IF j = "tight" THEN 20 ELSE 10]

MCProfileRows ==
  [j \in Jobs |->
    << [nodes |-> 0, throughput |-> 0,  power |-> 0],
       [nodes |-> 1, throughput |-> 10, power |-> 5],
       [nodes |-> 2, throughput |-> 15, power |-> 10] >>]

Symmetry == Permutations(Jobs)
=============================================================================
