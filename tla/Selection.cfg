SPECIFICATION SelectionSpec
CONSTANTS
  Nil = Nil
  Text <- Texts
  Near <- Contained
  Within <- Substrings
  Files <- SomeFiles
  Configs <- SomeConfigs
  Songs <- Catalog
  Replies <- SomeReplies
  Given <- Handed
  Learnt = {"ann"}
INVARIANTS RequiredWhenMissing VersionHeld GainMost 
CHECK_DEADLOCK FALSE
