SPECIFICATION Spec
CONSTANTS
  a = a
  b = b
  x = x
  song = song
  None = None
  Source = {a, b}
  Jobs = 2
  Place = {x}
  Places <- OnePlace
  Song <- OneSong
  Version <- TwoVersions
  Album <- OneAlbum
  Size <- Sizes
  Field = {"lyrics", "cover"}
  Scope <- Scopes
  Finding <- Findings
  Numbers = 4
INVARIANTS VersionsKept
PROPERTIES   JobsEnd
CHECK_DEADLOCK FALSE
