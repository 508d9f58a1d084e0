SPECIFICATION Spec
CONSTANTS
  Films <- MCFilms
  FirstSeqs <- MCFirstSeqs
  Names <- MCNames
  Answer = 108
  Shorts = {4, 100}
  MaxReports = 2
  Reports <- MCReports
CHECK_DEADLOCK FALSE
INVARIANTS Framed Carried ParsedOnce
