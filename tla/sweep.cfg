CONSTANTS
  k1 = k1
  k2 = k2
  k3 = k3
  Exprs <- Schedules
  NextTime <- Nexts
  BadExprs = {"bad"}
  Cycles <- ThreeCycles
  MaxClock = 9
SPECIFICATION Spec
SYMMETRY Interchangeable
INVARIANTS GuardReleased OverlapNeedsManual FiredOncePerDue
