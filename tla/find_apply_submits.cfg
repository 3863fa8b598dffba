CONSTANTS
  Pages <- SomePages
  Profiles <- TwoProfiles
  MaxTurns = 3
SPECIFICATION Spec
INVARIANT NeverSubmits
CHECK_DEADLOCK FALSE
