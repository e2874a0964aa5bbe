CONSTANTS
  t1 = t1
  e1 = e1
  e2 = e2
  live = live
  again = again
  replay = replay
  Theories <- MCTheories
  Examples <- MCExamples
  TheoryOf <- MCTheoryOf
  Worlds <- MCWorlds
  Order <- MCOrder
  Runs <- MCRuns
  Replays <- MCReplays
  Unsealed <- MCUnsealed
  FrozenErrors = 1
  KnownInvalid = {e1}
  KnownMissing = {t1}
  Interrupted = t1
  Ends <- MCEnds
  MaxNewCalls = 2
  MaxCrashes = 1
SPECIFICATION Spec
SYMMETRY Symmetry
INVARIANTS
  MaterializationIsExact
  SealIsEvidence
  PoliciesNest
  ReportAddsUp
  ReplayAgrees
CHECK_DEADLOCK FALSE
