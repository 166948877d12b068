SPECIFICATION FairSpec
CONSTANTS
  one = one
  album = album
  single = single
  Track = {one}
  Artist <- Artists
  Torrent = {album, single}
  Holds <- Contents
  MaxRecords = 2
  MaxRequests = 2
  MaxMishaps = 1
  Env <- OneKind
INVARIANTS Owned 
PROPERTIES SweepsOnlyAbandoned PlaylistEnds
CHECK_DEADLOCK FALSE
