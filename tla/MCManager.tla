----------------------------- MODULE MCManager ------------------------------
(***************************************************************************)
(* A job of one or two slots, with every schedule over 0 .. 1 replicas     *)
(* that does some amount of work, and one that no schedule fits.           *)
(***************************************************************************)
EXTENDS Manager, FiniteSetsExt

MCFitting(u, progress) ==
  IF u = "tight" THEN {}
  ELSE {s \in [0 .. 1 -> 0 .. 1] : MapThenSumSet(LAMBDA t : s[t], 0 .. 1) >= 1}

MCFallback(u) == [t \in {0} |-> 1]
=============================================================================
