-------------------------------- MODULE Pipeline --------------------------------
(***************************************************************************)
(* NeuroSymbolicPipeline.run: one request through the eleven stages, with  *)
(* the correction controller run for the theory and then for the query,    *)
(* and the cancellation flag read between stages.                          *)
(*                                                                         *)
(* Parsing, reasoning and verification are single steps with the outcomes  *)
(* their modules describe; the controller's steps are those of             *)
(* CorrectionController.                                                   *)
(***************************************************************************)
EXTENDS CorrectionController

VARIABLES
  mode,       \* input_mode
  policy,     \* policy_mode
  pc,         \* where run() is
  cancelled,  \* the cancel event of the job
  parsed,     \* component |-> the parsed candidate, or "none"
  decisions,  \* component |-> the controller's decision
  trace,      \* stage |-> its status, the TraceCollector
  answer      \* the result, once there is one

pipelineVars == <<mode, policy, pc, cancelled, parsed, decisions, trace, answer>>

allVars == <<machineVars, pipelineVars>>

-----------------------------------------------------------------------------

Stages == {"INPUT_VALIDATION", "THEORY_PARSING", "QUERY_PARSING",
           "SOURCE_COVERAGE", "SEMANTIC_VALIDATION", "CRITIC", "CORRECTION",
           "RELIABILITY_POLICY", "SYMBOLIC_REASONING", "PROOF_VERIFICATION",
           "FINAL_DECISION"}

ModelStages == {"THEORY_PARSING", "QUERY_PARSING", "SOURCE_COVERAGE",
                "SEMANTIC_VALIDATION", "CRITIC", "CORRECTION",
                "RELIABILITY_POLICY"}

Components == {"theory", "query"}

NoAnswer == [disposition |-> "none"]

Set(t, stages, status) == [s \in Stages |-> IF s \in stages THEN status ELSE t[s]]

(* finish_unstarted. *)
Finished(t) == [s \in Stages |-> IF t[s] = "NOT_STARTED" THEN "SKIPPED" ELSE t[s]]

(* The results: _error_result, _abstained_result, and the end of _reason.  *)
Error(t, stage) ==
  /\ trace' = Finished(Set(t, {stage, "FINAL_DECISION"}, "FAILED"))
  /\ answer' = [disposition |-> "ERROR", stage |-> stage]
  /\ pc' = "done"

(* A slip: the last stage is left out of the trace. *)
AbstainUntraced(t, reason) ==
  /\ trace' = Finished(Set(t, {"RELIABILITY_POLICY"}, "ABSTAINED"))
  /\ answer' = [disposition |-> "ABSTAINED", reason |-> reason]
  /\ pc' = "done"

Abstain(t, reason) ==
  /\ trace' = Finished(Set(t, {"RELIABILITY_POLICY", "FINAL_DECISION"}, "ABSTAINED"))
  /\ answer' = [disposition |-> "ABSTAINED", reason |-> reason]
  /\ pc' = "done"

PipelineInit ==
  /\ mode \in {"FORMAL_AST", "NATURAL_LANGUAGE"}
  /\ policy \in {"P0_RAW", "P1_CORRECTED", "P2_SELECTIVE"}
  /\ pc = "start"
  /\ cancelled = FALSE
  /\ parsed = [c \in Components |-> "none"]
  /\ decisions = [c \in Components |-> NoDecision]
  /\ trace = [s \in Stages |-> IF s = "INPUT_VALIDATION" THEN "SUCCEEDED"
                                                         ELSE "NOT_STARTED"]
  /\ answer = NoAnswer
  /\ Start(CHOOSE c \in Candidates : TRUE, [c \in Candidates |-> "invalid"])

-----------------------------------------------------------------------------
(***************************************************************************)
(* Cancellation: a request to cancel sets the flag at any time, and run()  *)
(* reads it before each of these.                                          *)
(***************************************************************************)

CheckPoints == {"start", "parse_theory", "parse_query", "theory", "query",
                "reason", "verify"}

Cancel ==
  /\ ~cancelled
  /\ cancelled' = TRUE
  /\ UNCHANGED <<machineVars, mode, policy, pc, parsed, decisions, trace, answer>>

(* A slip: run() waits for the flag to be cleared. *)
StopWaits ==
  /\ pc \in CheckPoints
  /\ cancelled
  /\ UNCHANGED allVars

(* _check_cancel raises PipelineCancelled, which leaves run().             *)
Stop ==
  /\ pc \in CheckPoints
  /\ cancelled
  /\ pc' = "cancelled"
  /\ UNCHANGED <<machineVars, mode, policy, cancelled, parsed, decisions,
                 trace, answer>>

(* A slip: the flag is not read before the stage. *)
ProceedAnyway(p) == pc = p

Proceed(p) == pc = p /\ ~cancelled

-----------------------------------------------------------------------------
(***************************************************************************)
(* Parsing.                                                                *)
(***************************************************************************)

Begin ==
  /\ Proceed("start")
  /\ \/ /\ mode = "FORMAL_AST"
        /\ trace' = Set(trace, ModelStages, "SKIPPED")
        /\ pc' = "reason"
     \/ /\ mode = "NATURAL_LANGUAGE"
        /\ pc' = "parse_theory"
        /\ UNCHANGED trace
  /\ UNCHANGED <<machineVars, mode, policy, cancelled, parsed, decisions, answer>>

Parse(component, stage, next) ==
  /\ \E c \in Candidates \cup {"none"} :
       /\ parsed' = [parsed EXCEPT ![component] = c]
       /\ trace' = Set(trace, {stage}, IF c = "none" THEN "FAILED" ELSE "SUCCEEDED")
  /\ pc' = next
  /\ UNCHANGED <<machineVars, mode, policy, cancelled, decisions, answer>>

ParseTheory ==
  /\ Proceed("parse_theory")
  /\ Parse("theory", "THEORY_PARSING", "parse_query")

ParseQuery ==
  /\ Proceed("parse_query")
  /\ Parse("query", "QUERY_PARSING", "parsed")

(* Both parsers are asked before the failure of either is looked at.       *)
ParsingDone ==
  /\ pc = "parsed"
  /\ \/ /\ parsed["theory"] = "none"
        /\ Error(trace, "THEORY_PARSING")
     \/ /\ parsed["theory"] # "none"
        /\ parsed["query"] = "none"
        /\ Error(trace, "QUERY_PARSING")
     \/ /\ \A c \in Components : parsed[c] # "none"
        /\ pc' = IF policy = "P0_RAW" THEN "validate" ELSE "theory"
        /\ UNCHANGED <<trace, answer>>
  /\ UNCHANGED <<machineVars, mode, policy, cancelled, parsed, decisions>>

(* P0: the raw candidates are validated, and the controller is left out.   *)
WithoutController == Set(trace, {"CRITIC", "CORRECTION", "RELIABILITY_POLICY"}, "SKIPPED")

ValidationTrace(t, v) ==
  Set(Set(t, {"SOURCE_COVERAGE"}, IF v = "coverage" THEN "FAILED" ELSE "SUCCEEDED"),
      {"SEMANTIC_VALIDATION"}, IF v = "valid" THEN "SUCCEEDED" ELSE "FAILED")

ValidateRaw ==
  /\ pc = "validate"
  /\ \E v \in Verdicts :
       LET t == ValidationTrace(WithoutController, v)
       IN  \/ /\ v # "valid"
              /\ Error(t, IF v = "coverage" THEN "SOURCE_COVERAGE"
                                            ELSE "SEMANTIC_VALIDATION")
           \/ /\ v = "valid"
              /\ \/ Error(t, "SEMANTIC_VALIDATION")
                 \/ /\ trace' = t
                    /\ pc' = "reason"
                    /\ UNCHANGED answer
  /\ UNCHANGED <<machineVars, mode, policy, cancelled, parsed, decisions>>

-----------------------------------------------------------------------------
(***************************************************************************)
(* Correction: P1 and P2.                                                  *)
(***************************************************************************)

(* The verdict of a query candidate depends on the accepted theory, so it  *)
(* is chosen when the controller starts.                                   *)
RunController(component, next) ==
  /\ verdict' \in [Candidates -> Verdicts]
  /\ raw' = parsed[component]
  /\ candidate' = parsed[component]
  /\ path' = <<"RAW">>
  /\ seen' = {parsed[component]}
  /\ corrections' = 0
  /\ tasks' = <<>>
  /\ decision' = NoDecision
  /\ pc' = next
  /\ UNCHANGED <<mode, policy, cancelled, parsed, decisions, trace, answer>>

RunTheory == Proceed("theory") /\ RunController("theory", "theory_control")

RunQuery == Proceed("query") /\ RunController("query", "query_control")

(* The controller does not read the flag. *)
ControlStep ==
  /\ pc \in {"theory_control", "query_control"}
  /\ Control
  /\ UNCHANGED pipelineVars

Ended(kind) == {tasks[k].end : k \in {n \in 1..Len(tasks) : tasks[n].kind = kind}}

TaskFailures == ProviderFailures \cup {"RESOURCE_LIMIT"}

(* _merge_task_stage: without tasks, the query leaves the theory's entry;  *)
(* with tasks it replaces it.                                              *)
TaskStage(t, stage, ends, merge) ==
  IF ends = {}
  THEN IF merge THEN t ELSE Set(t, {stage}, "SKIPPED")
  ELSE Set(t, {stage}, IF ends \cap TaskFailures = {} THEN "SUCCEEDED" ELSE "FAILED")

(* _record_decision_stages: coverage and validation are set to succeeded   *)
(* whatever the decision is.                                               *)
DecisionTrace(merge) ==
  Set(TaskStage(TaskStage(trace, "CRITIC", Ended("critic"), merge),
                "CORRECTION", Ended("correction"), merge),
      {"SOURCE_COVERAGE", "SEMANTIC_VALIDATION"}, "SUCCEEDED")

(* _terminal_decision_error: the stage of the last task that failed.       *)
FailedStage ==
  LET failed == {k \in 1..Len(tasks) : tasks[k].end \in TaskFailures}
      last   == CHOOSE k \in failed : \A n \in failed : n <= k
  IN  IF tasks[last].kind = "correction" THEN "CORRECTION" ELSE "CRITIC"

(* Slips: the policies are swapped; an error counts as a rejection. *)
AcceptedSwapped(d) ==
  IF policy = "P1_CORRECTED" THEN d.selective ELSE d.deterministic

IsNoError(d) == FALSE

(* _accepted. *)
Accepted(d) ==
  IF policy = "P1_CORRECTED" THEN d.deterministic ELSE d.selective

IsError(d) == d.state = "ERROR"

PolicyTrace(merge) ==
  IF merge THEN Set(DecisionTrace(merge), {"RELIABILITY_POLICY"}, "SUCCEEDED")
           ELSE DecisionTrace(merge)

(* The final candidate is validated once more before it is used. *)
Judge(component, merge, next) ==
  /\ decision # NoDecision
  /\ decisions' = [decisions EXCEPT ![component] = decision]
  /\ \/ /\ IsError(decision)
        /\ Error(DecisionTrace(merge), FailedStage)
     \/ /\ ~IsError(decision)
        /\ ~Accepted(decision)
        /\ Abstain(DecisionTrace(merge), decision.reason)
     \/ /\ ~IsError(decision)
        /\ Accepted(decision)
        /\ IF verdict[decision.candidate] = "valid"
           THEN /\ trace' = PolicyTrace(merge)
                /\ pc' = next
                /\ UNCHANGED answer
           ELSE Error(DecisionTrace(merge), "SEMANTIC_VALIDATION")
  /\ UNCHANGED <<machineVars, mode, policy, cancelled, parsed>>

TheoryDecided == pc = "theory_control" /\ Judge("theory", FALSE, "query")

QueryDecided == pc = "query_control" /\ Judge("query", TRUE, "reason")

-----------------------------------------------------------------------------
(***************************************************************************)
(* Reasoning and verification.                                             *)
(***************************************************************************)

(* The engine answers, or a limit stops it.                                *)
Reason ==
  /\ Proceed("reason")
  /\ \/ /\ trace' = Set(trace, {"SYMBOLIC_REASONING"}, "SUCCEEDED")
        /\ pc' = "verify"
        /\ UNCHANGED answer
     \/ Error(trace, "SYMBOLIC_REASONING")
  /\ UNCHANGED <<machineVars, mode, policy, cancelled, parsed, decisions>>

(* The verifier accepts, or it refuses or a limit stops it.                *)
Verify ==
  /\ Proceed("verify")
  /\ \/ /\ trace' = Finished(Set(trace, {"PROOF_VERIFICATION", "FINAL_DECISION"},
                                 "SUCCEEDED"))
        /\ answer' = [disposition |-> "ANSWERED"]
        /\ pc' = "done"
     \/ Error(trace, "PROOF_VERIFICATION")
  /\ UNCHANGED <<machineVars, mode, policy, cancelled, parsed, decisions>>

(* The stage that measures its time, and so marks itself as failed. *)
Measured ==
  CASE pc = "reason" -> {"SYMBOLIC_REASONING"}
    [] pc = "verify" -> {"PROOF_VERIFICATION"}
    [] OTHER         -> {}

(* Any other exception: a cache that cannot be written, say.               *)
Unexpected ==
  /\ pc \notin {"done", "cancelled"}
  /\ Error(Set(trace, Measured, "FAILED"), "FINAL_DECISION")
  /\ UNCHANGED <<machineVars, mode, policy, cancelled, parsed, decisions>>

Run ==
  \/ Stop \/ Begin \/ ParseTheory \/ ParseQuery \/ ParsingDone \/ ValidateRaw
  \/ RunTheory \/ RunQuery \/ ControlStep \/ TheoryDecided \/ QueryDecided
  \/ Reason \/ Verify

Over ==
  /\ pc \in {"done", "cancelled"}
  /\ UNCHANGED allVars

PipelineNext == Run \/ Unexpected \/ Cancel \/ Over

(* run() is a sequential call whose tasks return. *)
PipelineSpec == PipelineInit /\ [][PipelineNext]_allVars /\ WF_allVars(Run)
-----------------------------------------------------------------------------
(***************************************************************************)
(* Properties.                                                             *)
(***************************************************************************)

(* An answer rests on all the evidence its policy demands, of both         *)
(* components: P1 on candidates that validate, P2 on candidates that a     *)
(* critic accepted as well, and every answer on a verified proof.          *)
AnsweredOnEvidence ==
  answer.disposition = "ANSWERED" =>
    /\ \A s \in {"SYMBOLIC_REASONING", "PROOF_VERIFICATION", "FINAL_DECISION"} :
         trace[s] = "SUCCEEDED"
    /\ mode = "NATURAL_LANGUAGE" =>
         /\ trace["SOURCE_COVERAGE"] = "SUCCEEDED"
         /\ trace["SEMANTIC_VALIDATION"] = "SUCCEEDED"
    /\ mode = "NATURAL_LANGUAGE" /\ policy # "P0_RAW" =>
         \A c \in Components :
           /\ decisions[c] # NoDecision
           /\ decisions[c].state # "ERROR"
           /\ decisions[c].deterministic
           /\ policy = "P2_SELECTIVE" => decisions[c].selective

(* A failed provider or component stays an error and a rejection by the    *)
(* policy stays an abstention: the controller gives up exactly when a      *)
(* provider failed, and neither result turns into the other.               *)
FailuresStayErrors ==
  /\ decision # NoDecision =>
       (decision.state = "ERROR" <=>
          \E k \in 1..Len(tasks) : tasks[k].end \in ProviderFailures)
  /\ pc = "done" =>
       /\ (\E c \in Components : decisions[c] # NoDecision /\ decisions[c].state = "ERROR")
            => answer.disposition = "ERROR"
       /\ (\E s \in Stages : trace[s] = "FAILED") /\ policy = "P0_RAW" =>
            answer.disposition = "ERROR"
       /\ answer.disposition = "ABSTAINED" =>
            /\ mode = "NATURAL_LANGUAGE"
            /\ policy # "P0_RAW"
            /\ trace["SYMBOLIC_REASONING"] = "SKIPPED"
            /\ \E c \in Components :
                 /\ decisions[c] # NoDecision
                 /\ decisions[c].state = "ABSTAINED"
                 /\ decisions[c].reason = answer.reason

(* Every result has all stages in a terminal status, the last of which is  *)
(* that of the disposition; an error shows at its stage.                   *)
TraceIsTerminal ==
  pc = "done" =>
    /\ \A s \in Stages : trace[s] # "NOT_STARTED"
    /\ trace["FINAL_DECISION"] =
         CASE answer.disposition = "ANSWERED"  -> "SUCCEEDED"
           [] answer.disposition = "ABSTAINED" -> "ABSTAINED"
           [] OTHER                            -> "FAILED"
    /\ answer.disposition = "ERROR" => trace[answer.stage] = "FAILED"
    /\ mode = "FORMAL_AST" /\ answer.disposition = "ANSWERED" =>
         \A s \in ModelStages : trace[s] = "SKIPPED"

(* The tasks the controller may still ask for, and its validation.         *)
ControlLeft ==
  IF pc \notin {"theory_control", "query_control"} THEN 0
  ELSE CASE State = "RAW"            -> 4
         [] State = "CRITIQUING"     -> 3
         [] State = "CORRECTING"     -> 2
         [] State = "FINAL_CRITIQUE" -> 1
         [] OTHER                    -> 0

(* The steps before a request that nobody cancels, without those of the    *)
(* controller while it runs.                                               *)
StagesLeft ==
  CASE pc = "start"          -> 18
    [] pc = "parse_theory"   -> 17
    [] pc = "parse_query"    -> 16
    [] pc = "parsed"         -> 15
    [] pc = "theory"         -> 14
    [] pc = "theory_control" -> 9
    [] pc = "query"          -> 8
    [] pc \in {"query_control", "validate"} -> 3
    [] pc = "reason"         -> 2
    [] pc = "verify"         -> 1
    [] OTHER                 -> 0

(* A cancelled request only gets to the next reading of the flag.          *)
ReadingsLeft ==
  CASE pc = "parsed" -> 3
    [] pc \in {"validate", "theory_control", "query_control"} -> 2
    [] pc \in CheckPoints -> 1
    [] OTHER -> 0

StepsLeft == ControlLeft + (IF cancelled THEN ReadingsLeft ELSE 1 + StagesLeft)

(* Every step takes a request nearer to its end, whatever the parsers, the *)
(* critics and the corrections return; and once it is cancelled it gets no *)
(* further than the next reading of the flag: neither another parser nor   *)
(* the controller nor reasoning starts.                                    *)
RequestGetsOn == [][StepsLeft' < StepsLeft]_allVars

(* Every request ends, cancelled or not, with one result or none.          *)
RequestEnds == <>(pc \in {"done", "cancelled"})
=============================================================================
