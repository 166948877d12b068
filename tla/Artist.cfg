SPECIFICATION Spec
CONSTANTS
  simple = simple  full = full  jay = jay  JAY = JAY  both = both  kay = kay
  None = None
  Name = {simple, full, jay, JAY, both, kay}
  Candidates <- Stands
  Norm <- Writings
  Chinese = {simple, full}
  Known <- Aliases
  Typed = {jay, full}
  Heard = {jay, both, kay}
  Jobs = 2
  Starts = 3
  Ids = 3
INVARIANTS OneArtistPerName AliasesOwned
PROPERTIES StableCanonical
CHECK_DEADLOCK FALSE
