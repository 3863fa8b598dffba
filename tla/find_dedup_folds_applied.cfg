CONSTANTS
  i1 = i1
  i2 = i2
  c1 = c1
  c2 = c2
  Urls = {1, 2}
  Hashes = {0, 1}
  MaxBits = 1
  MaxId = 2
  Ingests <- OneIngest
  Collapses <- OneCollapse
  OldUrls = {}
SPECIFICATION Spec
SYMMETRY Interchangeable
PROPERTIES FoldsInboxOnly
