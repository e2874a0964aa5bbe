\* Three processes contend for one lock, and two of them may be killed.
CONSTANTS
  a = a
  b = b
  Requests <- MCOneRequest
  Processes = {a, b, c}
  Replayers <- MCReplayers
  Labels <- MCLabels
  Workers <- MCOneWorker
  MaxAttempts = 2
  Threshold = 1
  MaxCost = 1
  MaxCrashes = 2
SPECIFICATION Spec
PROPERTIES
  EveryStepLeavesLess
