\* Parsed requests and formal records, up to two statements each.
CONSTANTS
  Requests <- MCRequests
  Candidates <- MCCandidates
  Questions <- MCQuestions
  QueryNames <- MCQueryNames
  Numbered <- MCNumbered
  Unnamed = Unnamed
  Nothing = Nothing
  Records <- MCRecords
  Pronouns = {3}
  Is = 0
  EntityBase <- MCBase
  PredicateBase <- MCBase
  Hyphenated = {7}
  NoTheory = NoTheory
SPECIFICATION IntakeSpec
INVARIANTS
  ValidatedIsATheory
  NamesStayApart
\* A request ends with its theory.
CHECK_DEADLOCK FALSE
