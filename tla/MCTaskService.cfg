CONSTANTS
  parse = parse
  critic = critic
  correct = correct
  long = long
  ParserTasks <- MCParserTasks
  CorrectionTasks <- MCCorrectionTasks
  Oversized <- MCOversized
  Answers <- MCAnswers
  DispatchLimit = 3
  MaxAttempts = 2
  MaxNewCalls = 1
SPECIFICATION Spec
INVARIANTS
  SeenIsStored
PROPERTIES
  CallsArePaidFor
  OutcomesAreReplayed
  TaskReturns
