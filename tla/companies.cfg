CONSTANTS
  w1 = w1
  w2 = w2
  v1 = v1
  v2 = v2
  Companies = {1, 2}
  Workers <- TwoWorkers
  Views <- TwoViews
  MaxReprofiles = 1
SPECIFICATION FairSpec
INVARIANTS TypeOK NoOrphanClaim ReprofileReaches OneSynthesis
PROPERTIES ServesAsWorkQueue EveryCompanyProfiled
