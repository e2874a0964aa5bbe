CONSTANTS
  a = a
  b = b
  Requests <- MCRequests
  Processes <- MCProcesses
  Replayers <- MCReplayers
  Labels <- MCLabels
  Workers <- MCWorkers
  MaxAttempts = 2
  Threshold = 2
  MaxCost = 2
  MaxCrashes = 0
SPECIFICATION Spec
INVARIANTS
  DispatchOnce
