SPECIFICATION Spec
CONSTANTS
  N = 2
  Slots = 2
  Scope <- Scopes
INVARIANTS Fresh
PROPERTIES DeletesOnlyDropped Converges 
CHECK_DEADLOCK FALSE
