CONSTANTS
  g1 = g1
  g2 = g2
  imp = imp
  rem = rem
  mov = mov
  Keys = {"a", "b"}
  Documents <- TwoDocs
  Urls = {1, 2}
  UrlKey <- KeyOfUrl
  Files = {1, 2}
  FileKey <- KeyOfFile
  FileLength <- Lengths
  FileUrl <- UrlOfFile
  Raters <- TwoRaters
  Imports <- OneImport
  Remedies <- OneRemedy
  Movers <- OneMover
  MaxId = 2
  MaxReloads = 1
SPECIFICATION Spec
SYMMETRY Interchangeable
INVARIANTS TypeOK ForeignIsLate OneMigratedReport ClaimsHaveRaters
