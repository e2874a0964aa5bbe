--------------------------- MODULE PolicyEvaluation ---------------------------
(***************************************************************************)
(* What an offline evaluation makes of the parser's candidates and of the  *)
(* controller's decisions: the predictions of the raw policy (P0), of the  *)
(* corrected one (P1) and of the selective one (P2), the predictions of    *)
(* the semantic parser's own evaluation, and the counts in their reports.  *)
(*                                                                         *)
(* A component is a theory or the query of an example; it is named by the  *)
(* theory or by the example.  A world fixes what no evaluation changes:    *)
(*   raw     component |-> what its raw candidate is worth                 *)
(*   answer  example |-> version |-> how the engine and the verifier end   *)
(*   gold    example |-> its label                                         *)
(* The versions are "raw", both candidates as they were parsed, and        *)
(* "corrected", at least one of them corrected.                            *)
(***************************************************************************)
EXTENDS Naturals, FiniteSets

CONSTANTS
  Theories,
  Examples,
  TheoryOf   \* example |-> its theory

ASSUME ExamplesAssumption ==
  /\ TheoryOf \in [Examples -> Theories]
  /\ Theories \cap Examples = {}

Components == Theories \cup Examples

Answered == {"ENTAILED", "CONTRADICTED", "UNKNOWN"}

Labels == Answered \cup {"ABSTAIN", "ERROR"}

(* A raw candidate: the task failed for good, the content is not of the    *)
(* schema, it does not cover the sources, it is no theory (of a query: it  *)
(* contradicts the arities of the theory), or it is valid.                 *)
RawValues == {"terminal", "structural", "coverage", "semantic", "valid"}

Statuses == Answered \cup {"INCONSISTENT", "UNVERIFIED"}

Prediction(label, why) == [label |-> label, why |-> why]

Error(why) == Prediction("ERROR", why)

Abstain(why) == Prediction("ABSTAIN", why)

IsAnswered(p) == p.label \in Answered

-----------------------------------------------------------------------------
(***************************************************************************)
(* P0, twice: _raw_policy when the predictions are sealed, and             *)
(* run_parser_evaluation when they are evaluated.                          *)
(***************************************************************************)

(* An error of the engine is not an answer; a proof counts only verified.  *)
Reasoned(status, inconsistent) ==
  CASE status = "INCONSISTENT" -> inconsistent
    [] status = "UNVERIFIED"   -> Error("PROOF_VERIFICATION_ERROR")
    [] OTHER                   -> Prediction(status, "none")

RawError(raw, invalid) ==
  Error(IF raw = "terminal" THEN "STRUCTURED_OUTPUT_ERROR" ELSE invalid)

RawPrediction(w, e) ==
  LET t == TheoryOf[e] IN
  CASE w.raw[t] # "valid" -> RawError(w.raw[t], "RAW_THEORY_INVALID")
    [] w.raw[t] = "valid" /\ w.raw[e] # "valid" ->
         RawError(w.raw[e], "RAW_QUERY_INVALID")
    [] OTHER -> Reasoned(w.answer[e]["raw"], Error("INCONSISTENT"))

(* The status SemanticParser._parse returns for a component. *)
ParserStatus(raw) ==
  IF raw \in {"terminal", "structural"} THEN "STRUCTURED_OUTPUT_ERROR" ELSE "PARSED"

Parsed(w, c) == ParserStatus(w.raw[c]) = "PARSED"

(* A slip: a proof that is not verified keeps the label it would have had. *)
TrustedPrediction(w, e) ==
  LET t == TheoryOf[e] IN
  CASE ~Parsed(w, t) -> Error(ParserStatus(w.raw[t]))
    [] Parsed(w, t) /\ ~Parsed(w, e) -> Error(ParserStatus(w.raw[e]))
    [] OTHER -> IF w.answer[e]["raw"] = "INCONSISTENT"
                THEN Error("INCONSISTENT") ELSE Prediction("UNKNOWN", "none")

ParserPrediction(w, e) ==
  LET t == TheoryOf[e] IN
  CASE ~Parsed(w, t) -> Error(ParserStatus(w.raw[t]))
    [] Parsed(w, t) /\ ~Parsed(w, e) -> Error(ParserStatus(w.raw[e]))
    [] Parsed(w, t) /\ Parsed(w, e) /\ w.raw[t] = "coverage" ->
         Error("SOURCE_COVERAGE_ERROR")
    [] Parsed(w, t) /\ Parsed(w, e) /\ w.raw[t] # "coverage"
         /\ (w.raw[t] = "semantic" \/ w.raw[e] = "semantic") ->
         Error("SEMANTIC_INVALID")
    [] OTHER -> Reasoned(w.answer[e]["raw"], Error("INCONSISTENT"))

(* The examples whose theory and query were converted. *)
ParsedExamples(w) ==
  {e \in Examples : w.raw[TheoryOf[e]] = "valid" /\ w.raw[e] = "valid"}

-----------------------------------------------------------------------------
(***************************************************************************)
(* The controller's decision about a component, by how its tasks ended.    *)
(* CorrectionController has the machine; here only its end matters.        *)
(***************************************************************************)

(* The tasks ended with an outcome that is kept on disk. *)
KeptEnds == {"accepted", "critic_failed", "corrected", "rejected",
             "final_critic_failed", "unrepaired", "repeated", "correction_failed"}

(* The run was out of calls, or had no provider to call: nothing is kept.  *)
LimitEnds == {"critic_limit", "correction_limit", "final_critic_limit"}

LostEnds == LimitEnds \cup {"missed"}

(* The ends that need a valid raw candidate, and those that need none. *)
FirstCritique == {"accepted", "critic_failed", "critic_limit"}

EndsOf(ends, valid) == IF valid THEN ends ELSE ends \ FirstCritique

Replaced == {"corrected", "rejected", "final_critic_failed", "final_critic_limit"}

DecisionOf(end, valid) ==
  [valid         |-> \/ end \in FirstCritique \cup Replaced
                     \/ end \in {"repeated", "missed"} /\ valid,
   corrected     |-> end \in Replaced,
   attempts      |-> IF end \in FirstCritique \cup {"missed"} THEN 0 ELSE 1,
   deterministic |-> end \in {"accepted", "critic_limit", "corrected",
                              "rejected", "final_critic_limit"},
   selective     |-> end \in {"accepted", "corrected"},
   error         |-> CASE end \in {"critic_failed", "correction_failed",
                                   "final_critic_failed"} ->
                            "STRUCTURED_OUTPUT_ERROR"
                       [] end = "missed" -> "PROVIDER_ERROR"
                       [] OTHER -> "none",
   reason        |-> CASE end = "rejected"   -> "CRITIC_REJECTED"
                       [] end = "unrepaired" -> "INCOMPLETE_SOURCE_COVERAGE"
                       [] end = "repeated"   -> "NO_CORRECTION_PROGRESS"
                       [] end \in LimitEnds  -> "RESOURCE_LIMIT"
                       [] OTHER              -> "none"]

(* A slip: the flags of the two policies are swapped. *)
AcceptsSwapped(d, selective) ==
  IF selective THEN d.deterministic ELSE d.selective

Accepts(d, selective) == IF selective THEN d.selective ELSE d.deterministic

Reason(d) == IF d.reason = "none" THEN "RELIABILITY_GATE_FAILED" ELSE d.reason

(* apply_policy: P1 and P2 answer from accepted candidates, validated once *)
(* more.                                                                   *)
PolicyPrediction(w, decisions, selective, e) ==
  LET td == decisions[TheoryOf[e]]
      qd == decisions[e]
      version == IF td.corrected \/ qd.corrected THEN "corrected" ELSE "raw" IN
  CASE td.error # "none" -> Error(td.error)
    [] td.error = "none" /\ qd.error # "none" -> Error(qd.error)
    [] OTHER ->
         IF ~Accepts(td, selective) THEN Abstain(Reason(td))
         ELSE IF ~Accepts(qd, selective) THEN Abstain(Reason(qd))
         ELSE IF ~td.valid \/ ~qd.valid THEN Abstain("RELIABILITY_GATE_FAILED")
         ELSE Reasoned(w.answer[e][version], Abstain("UNEXPECTED_INCONSISTENCY"))

P0(w) == [e \in Examples |-> RawPrediction(w, e)]

ParserP0(w) == [e \in Examples |-> ParserPrediction(w, e)]

P1(w, d) == [e \in Examples |-> PolicyPrediction(w, d, FALSE, e)]

P2(w, d) == [e \in Examples |-> PolicyPrediction(w, d, TRUE, e)]

-----------------------------------------------------------------------------
(***************************************************************************)
(* The reports.                                                            *)
(***************************************************************************)

Count(p, labels) == Cardinality({e \in Examples : p[e].label \in labels})

(* compute_metrics, without the quotients. *)
Metrics(w, p) ==
  [total     |-> Cardinality(Examples),
   answered  |-> Count(p, Answered),
   abstained |-> Count(p, {"ABSTAIN"}),
   errored   |-> Count(p, {"ERROR"}),
   correct   |-> Cardinality({e \in Examples : p[e].label = w.gold[e]}),
   confusion |-> [g \in Answered, l \in Labels |->
                    Cardinality({e \in Examples : w.gold[e] = g /\ p[e].label = l})]]

TransitionMatrix(p, q) ==
  [cell \in Labels \X Labels |->
     Cardinality({e \in Examples : p[e].label = cell[1] /\ q[e].label = cell[2]})]

(* _abstention_metrics: how much of what P1 answers P2 still answers.      *)
AbstentionMetrics(p1, p2) ==
  [retained   |-> Count(p2, Answered),
   answered   |-> Count(p1, Answered),
   abstained  |-> Count(p2, {"ABSTAIN"}),
   p1_errors  |-> Count(p1, {"ERROR"}),
   p2_errors  |-> Count(p2, {"ERROR"})]

NewlyAnswerable(p0, p1) ==
  Cardinality({e \in Examples : p0[e].label = "ERROR" /\ IsAnswered(p1[e])})

LostAfterCorrection(p0, p1) ==
  Cardinality({e \in Examples : IsAnswered(p0[e]) /\ ~IsAnswered(p1[e])})

(* _correction_metrics over the decisions; how many attempts there were,   *)
(* how many of them recovered the component, and how many lost it.         *)
CorrectionMetrics(valid, d) ==
  LET attempted == {c \in Components : d[c].attempts > 0} IN
  [attempted   |-> Cardinality(attempted),
   recovered   |-> Cardinality({c \in attempted : d[c].deterministic}),
   accepted    |-> Cardinality({c \in attempted : d[c].selective}),
   regressions |-> Cardinality({c \in attempted : valid[c] /\ ~d[c].deterministic})]

(* The validation funnel of _build_report: what is left after each stage,  *)
(* and how many examples each error took.                                  *)
ErrorCount(p, why) == Cardinality({e \in Examples : p[e].why = why})

Funnel(w, p) ==
  LET structured == Cardinality({e \in Examples : Parsed(w, TheoryOf[e]) /\ Parsed(w, e)}) IN
  [structured |-> structured,
   covered    |-> structured - ErrorCount(p, "SOURCE_COVERAGE_ERROR"),
   parsed     |-> Cardinality(ParsedExamples(w))]

(* _validation_only_predictions: an error of P0 becomes an abstention.     *)
ValidationOnly(p) ==
  [e \in Examples |-> IF p[e].label = "ERROR" THEN Abstain("RAW_VALIDATION_FAILED")
                      ELSE p[e]]
=============================================================================
