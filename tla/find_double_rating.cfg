CONSTANTS
  w1 = w1
  w2 = w2
  h1 = h1
  h2 = h2
  Apps = {1}
  Imported = {}
  Workers <- TwoWorkers
  Handlers <- OneHandler
  UserTargets <- EveryTarget
  Threshold = 2
  ReprobeEnabled = FALSE
  AdminEnabled = FALSE
  DBFaults = FALSE
SPECIFICATION Spec
INVARIANTS NoDoubleRating
