CONSTANTS
  w1 = w1
  w2 = w2
  h1 = h1
  h2 = h2
  Apps = {1}
  Imported = {}
  Workers <- TwoWorkers
  Handlers <- TwoHandlers
  UserTargets <- EveryTarget
  Threshold = 2
  ReprobeEnabled = TRUE
  AdminEnabled = TRUE
  DBFaults = FALSE
SPECIFICATION Spec
SYMMETRY Interchangeable
INVARIANTS TypeOK NoOrphanClaim LedgerFollowsStatus ScoredHasReport ExpiredIsGone
PROPERTIES PipelineNeverExpires OnlyStaleGoesBack
