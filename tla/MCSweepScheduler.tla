--------------------------- MODULE MCSweepScheduler ---------------------------
(* Model values, schedules and symmetry for the runs of SweepScheduler.    *)
EXTENDS SweepScheduler, TLC

CONSTANTS k1, k2, k3

ThreeCycles     == {k1, k2, k3}
Interchangeable == Permutations(Cycles)

\* Every minute, every minute and a half, and never.
Schedules == {"minute", "longer", "never"}
Periods   == ("minute" :> 2) @@ ("longer" :> 3)
Nexts     ==
  [e \in Schedules |-> [t \in 0..MaxClock |->
    IF e = "never" THEN Never ELSE (t \div Periods[e] + 1) * Periods[e]]]
==============================================================================
