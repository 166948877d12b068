SPECIFICATION FairSpec
CONSTANTS
  j1 = j1 j2 = j2 p1 = p1 p2 = p2 a1 = a1 issue = issue
  None = None
  Job = {j1, j2}
  Place = {p1, p2}
  Artist = {a1}
  Id = {issue}
  Olds <- Before
  Nameless = TRUE
  Mishaps = 1
INVARIANTS Agreed Together
PROPERTIES OrganisationEnds
CHECK_DEADLOCK FALSE
