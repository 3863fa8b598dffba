CONSTANTS
  i1 = i1
  i2 = i2
  c1 = c1
  c2 = c2
  Urls = {1, 2, 3}
  Hashes = {0, 2}
  MaxBits = 1
  MaxId = 3
  Ingests <- TwoIngests
  Collapses <- OneCollapse
  OldUrls = {1}
SPECIFICATION Spec
SYMMETRY Interchangeable
INVARIANTS TypeOK CanonicalIsOlder UrlTrackedOnce
