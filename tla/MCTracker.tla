------------------------------ MODULE MCTracker ------------------------------
(* Model values and symmetry for the runs of Tracker.                      *)
EXTENDS TrackerQueue, TLC

CONSTANTS w1, w2, h1, h2

OneWorker   == {w1}
TwoWorkers  == {w1, w2}
OneHandler  == {h1}
TwoHandlers == {h1, h2}

\* Goroutines and requests are interchangeable; row ids are ordered.
Interchangeable == Permutations(Workers) \cup Permutations(Handlers)

EveryTarget == AllStatuses \ {"inbox"}
FewTargets  == {"evaluated", "applied", "discarded"}
==============================================================================
