\* One waiting job at a time is enough: each is cancelled before the next.
CONSTANTS
  MaxQueued = 1
  MaxRetained = 2
  MaxRuns = 4
  CloseMayFail = FALSE
  ServesAfterShutdown = TRUE
SPECIFICATION Spec
INVARIANTS
  NoKeyError
