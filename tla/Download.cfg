SPECIFICATION FairSpec
CONSTANTS
  Item = {one}
  Other = other
  Attempts = 2
  MaxMishaps = 1
  Env <- OneKind
INVARIANTS Announced
PROPERTIES  DownloadEnds
CHECK_DEADLOCK FALSE
