\* Limits the engine keeps within and the verifier's recount may exceed.
CONSTANTS
  a = a
  b = b
  Atoms <- MCAtoms
  Theories <- MCTheories
  MaxDerivedLiterals = 3
  MaxRuleFirings = 6
  MaxRounds = 2
  MaxProofNodes = 5
  HasTimeout = FALSE
SPECIFICATION VSpec
INVARIANTS
  OwnResultsVerify
  VerifiedIsRight
