\* As the server uses the manager: no request after shutdown.
CONSTANTS
  MaxQueued = 2
  MaxRetained = 3
  MaxRuns = 4
  CloseMayFail = TRUE
  ServesAfterShutdown = FALSE
SPECIFICATION Spec
INVARIANTS
  WorkerServes
  WaitingInOrder
PROPERTIES
  CancelIsKept
  ImplementsResource
  WaitsOnlyForADeadWorker
