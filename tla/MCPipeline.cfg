CONSTANTS
  c1 = c1
  c2 = c2
  c3 = c3
  Candidates <- MCCandidates
SPECIFICATION PipelineSpec
INVARIANTS
  TasksAreBounded
  DecisionStands
  AnsweredOnEvidence
  FailuresStayErrors
  TraceIsTerminal
PROPERTIES
  RequestGetsOn
  RequestEnds
