\* Limits that all bind, and a deadline that may strike at any check.
CONSTANTS
  a = a
  b = b
  c = c
  Atoms <- MCAtoms
  Theories <- MCTheories
  MaxDerivedLiterals = 4
  MaxRuleFirings = 3
  MaxRounds = 2
  MaxProofNodes = 7
  HasTimeout = TRUE
SPECIFICATION Spec
INVARIANTS
  NoMatchIsLost
  SaturatedIsLeastModel
  ProofsAreSelfContained
  BestProofIsKept
  LimitsAreExact
PROPERTIES
  ClosureGrowsToAnEnd
  ImplementsEntailment
