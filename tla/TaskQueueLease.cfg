SPECIFICATION FairSpec
CONSTANTS
  a = a  b = b  c = c  x = x
  k1 = k1  k2 = k2  k3 = k3
  NoKey = NoKey
  Task = {b, x}
  Key = {k1}
  Needs <- DuoNeeds
  Inheritable <- DuoInheritable
  Successors <- DuoSuccessors
  MaxAttempts <- DuoMaxAttempts
  AttemptLimit = 2
  Enqueued = {b}
  Exclusive = {x}
  Scrape = {b, x}
  Interruptible = {b, x}
  MaxConcurrent = 2
  MaxScrape = 1
  Env = {"stall", "early"}
  MaxRestarts = 1
INVARIANTS LeaseOwned OneRunner Capacity
PROPERTIES Finality EveryTaskFinishes KeysReturn
CHECK_DEADLOCK FALSE
