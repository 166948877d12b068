SPECIFICATION FairSpec
CONSTANTS
  p = p  q = q  i = i  j = j
  None = None
  File = {p}
  Initial = {p}
  Inode = {i, j}
  Required = 2
  MaxBirths = 1
  MaxWrites = 1
  MaxReloads = 1
INVARIANTS CapturedOnce
 
CHECK_DEADLOCK FALSE
