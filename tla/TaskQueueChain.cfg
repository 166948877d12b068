SPECIFICATION Spec
CONSTANTS
  a = a  b = b  c = c  x = x
  k1 = k1  k2 = k2  k3 = k3
  NoKey = NoKey
  Task = {a, b, c}
  Key = {k1, k2, k3}
  Needs <- ChainNeeds
  Inheritable <- ChainInheritable
  Successors <- ChainSuccessors
  MaxAttempts <- ChainMaxAttempts
  AttemptLimit = 2
  Enqueued = {a, b, c}
  Exclusive = {}
  Scrape = {a}
  Interruptible = {a}
  MaxConcurrent = 2
  MaxScrape = 1
  Env = {}
  MaxRestarts = 1
INVARIANTS Exclusion Handover LinearChains
PROPERTIES ChainKeyKept MutualExclusion
CHECK_DEADLOCK FALSE
