CONSTANTS
  a = a
  b = b
  Requests <- MCRequests
  Processes <- MCProcesses
  Replayers <- MCReplayers
  Labels <- MCLabels
  Workers <- MCWorkers
  MaxAttempts = 2
  Threshold = 2
  MaxCost = 2
  MaxCrashes = 1
SPECIFICATION Spec
INVARIANTS
  OneCallerPerRequest
  PredictionsAreReplayable
  PublishedIsWhole
  NoRunIsStuck
PROPERTIES
  SpendStaysWithinCap
  EveryStepLeavesLess
