CONSTANTS
  Pages <- SomePages
  Profiles <- TwoProfiles
  MaxTurns = 3
SPECIFICATION FairSpec
INVARIANTS TypeOK NothingTypedIsSubmitted TypedIsSafe ReportIsTrue
PROPERTIES EveryRequestAnswered
CHECK_DEADLOCK FALSE
