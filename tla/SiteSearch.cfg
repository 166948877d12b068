SPECIFICATION SearchSpec
CONSTANTS
  s = s  t = t  k = k  l = l  c = c
  Absent = Absent
  Site = {s, t}
  Keyword = {k, l}
  Found <- Answers
  Wanted = {"r1", "r2", "r3", "r5"}
  ByArtist = {"r1", "r2", "r4", "r5"}
  Concurrency <- Places
  Client = {c}
  MaxFailures = 1
INVARIANTS FinalResults
PROPERTIES StreamsEnd
CHECK_DEADLOCK FALSE
