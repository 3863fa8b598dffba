CONSTANTS
  w1 = w1
  w2 = w2
  h1 = h1
  h2 = h2
  Apps = {1, 2}
  Imported = {}
  Workers <- TwoWorkers
  Handlers <- OneHandler
  UserTargets = {"applied"}
  Threshold = 1
  ReprobeEnabled = TRUE
  AdminEnabled = FALSE
  DBFaults = TRUE
SPECIFICATION Spec
SYMMETRY Interchangeable
INVARIANTS NoDoubleRating
PROPERTIES ServesAsWorkQueue
