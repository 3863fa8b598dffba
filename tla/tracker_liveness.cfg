CONSTANTS
  w1 = w1
  w2 = w2
  h1 = h1
  h2 = h2
  Apps = {1, 2}
  Imported = {1}
  Workers <- OneWorker
  Handlers <- OneHandler
  UserTargets = {"applied"}
  Threshold = 1
  ReprobeEnabled = FALSE
  AdminEnabled = TRUE
  DBFaults = FALSE
SPECIFICATION FairSpec
INVARIANTS QueuedHasPosting
PROPERTIES EveryRoleRated
