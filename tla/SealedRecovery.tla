---------------------------- MODULE SealedRecovery ----------------------------
(***************************************************************************)
(* The recovery experiments: a preserved parser cache is materialized into *)
(* a new one (recovery_r3), a run decides every component and seals its    *)
(* predictions before it may look at a gold label, the sealed run is       *)
(* evaluated, and a replay is compared with it (recovery_r2).  The older   *)
(* kind of run evaluates, decides and reports in one go, with no seal      *)
(* (evaluation.py).                                                        *)
(*                                                                         *)
(* Each is a command of its own, started by hand, one at a time, and each  *)
(* may be killed at any point: what it wrote so far stays.  The directory  *)
(* of a run is never removed or reused.  The tasks of a component are      *)
(* taken together: their request is the component with the validity of its *)
(* raw candidate, which decides what the first of them asks.               *)
(***************************************************************************)
EXTENDS PolicyEvaluation, Sequences

CONSTANTS
  Worlds,        \* worlds; with the preserved entry of a component (source),
                 \* and what is in the new cache to begin with (present)
  Order,         \* the components in the order they are decided
  Runs,          \* run identifiers, each with a directory
  Replays,       \* the runs that are replays, which have no provider
  Unsealed,      \* the runs that may be of the older kind
  FrozenErrors,  \* the number of errors P0 had when it was frozen
  KnownInvalid,  \* requests whose preserved response may be invalid
  KnownMissing,  \* requests whose preserved response may be missing
  Interrupted,   \* the component whose task R3.1 makes terminal
  Ends,          \* component |-> how its tasks may end in this instance
  MaxNewCalls,   \* limits.maximum_new_pilot_calls
  MaxCrashes

(* The theories are the keys of a dictionary, and a selection manifest     *)
(* holds no example twice (baselines/models.py).                           *)
ASSUME RunsAssumption ==
  /\ Order \in Seq(Components)
  /\ {Order[k] : k \in 1..Len(Order)} = Components
  /\ \A j, k \in 1..Len(Order) : Order[j] = Order[k] => j = k
  /\ \A e \in Examples : \E j, k \in 1..Len(Order) :
       j < k /\ Order[j] = TheoryOf[e] /\ Order[k] = e
  /\ Replays \subseteq Runs /\ Unsealed \subseteq Runs
  /\ \A c \in Components : Ends[c] \subseteq KeptEnds
  /\ MaxNewCalls \in Nat /\ MaxCrashes \in Nat

(* A preserved response is there, and of the schema, or it is not.  The    *)
(* new cache may hold something else for a component.  A query covers no   *)
(* sources, so it cannot fail to (combine_theory_and_query).               *)
ASSUME WorldsAssumption ==
  \A w \in Worlds :
    /\ w.raw \in [Components -> RawValues]
    /\ \A e \in Examples : w.raw[e] # "coverage"
    /\ w.answer \in [Examples -> [{"raw", "corrected"} -> Statuses]]
    /\ w.source \in [Components -> {"success", "invalid", "missing"}]
    /\ w.present \in [Components -> {"none", "success", "terminal", "other"}]

VARIABLES
  world,         \* the inputs
  phase5,        \* component |-> entry of the materialized parser cache
  materialized,  \* its report is written
  store,         \* request |-> how its tasks ended, on disk
  left,          \* the store as the last crash left it (the R3.1 amendment)
  terminalReport,\* the report of the R3.1 materialization is written
  dirs,          \* run |-> its directory
  job,           \* the command in progress
  calls,         \* new_call_count of the command's service
  verdict,       \* the comparison in progress
  crashes

vars == <<world, phase5, materialized, store, left, terminalReport, dirs, job,
          calls, verdict, crashes>>

-----------------------------------------------------------------------------

Requests == Components \X BOOLEAN

Idle == [name |-> "idle", run |-> "none", at |-> 0]

JobAt(name, r, at) == [name |-> name, run |-> r, at |-> at]

Job(name, r) == JobAt(name, r, 1)

NoDirectory == [state |-> "none", kind |-> "none", files |-> {}, decisions |-> <<>>, calls |-> 0,
                p0 |-> "none"]

Init ==
  /\ world \in Worlds
  /\ phase5 = world.present
  /\ materialized = FALSE
  /\ store = [q \in Requests |-> "none"]
  /\ left = store
  /\ terminalReport = FALSE
  /\ dirs = [r \in Runs |-> NoDirectory]
  /\ job = Idle
  /\ calls = 0
  /\ verdict = [end |-> "none"]
  /\ crashes = 0

Step == job' = [job EXCEPT !.at = job.at + 1]

End == job' = Idle

-----------------------------------------------------------------------------
(***************************************************************************)
(* materialize_r3_phase5: every preserved response is copied, or made a    *)
(* terminal outcome when it is one of the two that are known to be bad.    *)
(***************************************************************************)

(* A bound: it is started again only while its report is missing; after    *)
(* that it finds every entry as it would write it.                         *)
StartMaterialize ==
  /\ job = Idle
  /\ ~materialized
  /\ job' = Job("materialize", "none")
  /\ UNCHANGED <<world, phase5, materialized, store, left, terminalReport, dirs,
                 calls, verdict, crashes>>

(* A slip: an entry that is there already is not compared with its source. *)
MaterializedOver(c) ==
  CASE phase5[c] # "none"            -> phase5[c]
    [] world.source[c] = "success"   -> "success"
    [] OTHER                         -> "terminal"

(* The entry for a component's request, "refused" if there can be none: an *)
(* unexpected gap, or an entry that differs from the preserved one.        *)
Materialized(c) ==
  CASE world.source[c] = "success" ->
         IF phase5[c] \in {"none", "success"} THEN "success" ELSE "refused"
    [] world.source[c] = "invalid" ->
         IF c \in KnownInvalid THEN "terminal" ELSE "refused"
    [] world.source[c] = "missing" ->
         IF c \in KnownMissing THEN "terminal" ELSE "refused"

MaterializeOne ==
  /\ job.name = "materialize"
  /\ job.at <= Len(Order)
  /\ LET c == Order[job.at] IN
       IF Materialized(c) = "refused" THEN End /\ UNCHANGED phase5
       ELSE Step /\ phase5' = [phase5 EXCEPT ![c] = Materialized(c)]
  /\ UNCHANGED <<world, materialized, store, left, terminalReport, dirs, calls,
                 verdict, crashes>>

(* The report is written when every logical request resolves. *)
Resolves == \A c \in Components : phase5[c] # "none"

ReportMaterialization ==
  /\ job.name = "materialize"
  /\ job.at > Len(Order)
  /\ materialized' = (materialized \/ Resolves)
  /\ End
  /\ UNCHANGED <<world, phase5, store, left, terminalReport, dirs, calls,
                 verdict, crashes>>

-----------------------------------------------------------------------------
(***************************************************************************)
(* seal_recovery_predictions.                                              *)
(***************************************************************************)

(* A run directory is created once. *)
StartSeal(r) ==
  /\ job = Idle
  /\ dirs[r].state = "none"
  /\ dirs' = [dirs EXCEPT ![r].state = "incomplete", ![r].kind = "sealed"]
  /\ calls' = 0
  /\ job' = IF Resolves THEN Job("seal", r) ELSE Idle
  /\ UNCHANGED <<world, phase5, materialized, store, left, terminalReport,
                 verdict, crashes>>

(* A raw query is judged against the theory only if there is one.          *)
RawValid(c, decisions) ==
  \/ world.raw[c] = "valid"
  \/ /\ world.raw[c] = "semantic"
     /\ c \in Examples
     /\ ~decisions[TheoryOf[c]].valid

Decided(r) == dirs[r].decisions

IsKept(end) == end \in KeptEnds

(* How the tasks of a request end: as they are kept; missed, for a replay; *)
(* at the limit on new calls; or as the model behind the provider likes.   *)
EndOf(r, q) ==
  IF store[q] # "none" THEN {store[q]}
  ELSE IF r \in Replays THEN {"missed"}
  ELSE IF calls >= MaxNewCalls THEN EndsOf(LimitEnds, q[2])
  ELSE EndsOf(Ends[q[1]], q[2])

DecideOne ==
  /\ job.name \in {"seal", "unsealed"}
  /\ job.at \in 1..Len(Order)
  /\ LET r == job.run
         c == Order[job.at]
         q == <<c, RawValid(c, Decided(r))>> IN
     \E end \in EndOf(r, q) :
       /\ dirs' = [dirs EXCEPT ![r].decisions =
                     [x \in {c} \cup DOMAIN Decided(r) |->
                        IF x = c THEN DecisionOf(end, q[2]) ELSE Decided(r)[x]]]
       /\ store' = IF IsKept(end) THEN [store EXCEPT ![q] = end] ELSE store
       /\ calls' = IF store[q] = "none" /\ end \notin LostEnds THEN calls + 1 ELSE calls
  /\ Step
  /\ UNCHANGED <<world, phase5, materialized, left, terminalReport, verdict, crashes>>

(* A slip: the seal goes to disk before what it seals. *)
SealFirst == <<"seal", "decisions", "policies", "audit", "ledger", "traces">>

(* What is written for the decided components, in this order. *)
Artefacts == <<"decisions", "policies", "audit", "ledger", "traces", "seal">>

SealOne ==
  /\ job.name = "seal"
  /\ job.at > Len(Order)
  /\ LET k == job.at - Len(Order) IN
     \/ /\ k <= Len(Artefacts)
        /\ dirs' = [dirs EXCEPT ![job.run].files = @ \cup {Artefacts[k]},
                                ![job.run].calls = calls]
        /\ Step
     \/ /\ k > Len(Artefacts)
        /\ dirs' = [dirs EXCEPT ![job.run].state = "sealed"]
        /\ job' = Job("evaluate", job.run)
  /\ UNCHANGED <<world, phase5, materialized, store, left, terminalReport, calls,
                 verdict, crashes>>

-----------------------------------------------------------------------------
(***************************************************************************)
(* run_correction_evaluation: the parser's evaluation, whose predictions   *)
(* are its P0, the decisions as above, and the report.                     *)
(***************************************************************************)

StartUnsealed(r) ==
  /\ job = Idle
  /\ r \in Unsealed
  /\ dirs[r].state = "none"
  /\ dirs' = [dirs EXCEPT ![r].state = "incomplete", ![r].kind = "unsealed"]
  /\ calls' = 0
  /\ job' = JobAt("unsealed", r, 0)
  /\ UNCHANGED <<world, phase5, materialized, store, left, terminalReport,
                 verdict, crashes>>

(* A pilot must have as many errors in P0 as were frozen; the conditions   *)
(* of phase 9 need not.  Nothing is decided without the parser's answers.  *)
EvaluateRaw ==
  /\ job.name = "unsealed" /\ job.at = 0
  /\ dirs' = [dirs EXCEPT ![job.run].p0 = "complete"]
  /\ \E pilot \in BOOLEAN :
       IF Resolves /\ (pilot => Metrics(world, ParserP0(world)).errored = FrozenErrors)
       THEN Step ELSE End
  /\ UNCHANGED <<world, phase5, materialized, store, left, terminalReport, calls,
                 verdict, crashes>>

UnsealedArtefacts == <<"traces", "policies", "report">>

ReportOne ==
  /\ job.name = "unsealed" /\ job.at > Len(Order)
  /\ LET k == job.at - Len(Order) IN
     \/ /\ k <= Len(UnsealedArtefacts)
        /\ dirs' = [dirs EXCEPT ![job.run].files = @ \cup {UnsealedArtefacts[k]},
                                ![job.run].calls = calls]
        /\ Step
     \/ /\ k > Len(UnsealedArtefacts)
        /\ dirs' = [dirs EXCEPT ![job.run].state = "complete"]
        /\ End
  /\ UNCHANGED <<world, phase5, materialized, store, left, terminalReport, calls,
                 verdict, crashes>>

-----------------------------------------------------------------------------
(***************************************************************************)
(* evaluate_sealed_recovery, after the seal or by r3-evaluate.             *)
(***************************************************************************)

Sealed(r) == {"seal", "decisions", "policies", "audit", "ledger"} \subseteq dirs[r].files

(* What else is asked for is refused with nothing changed.  The directory  *)
(* of the evaluation of P0 must not exist.                                 *)
Evaluable(r) == Sealed(r) /\ dirs[r].p0 = "none"

StartEvaluate(r) ==
  /\ job = Idle
  /\ Evaluable(r)
  /\ job' = Job("evaluate", r)
  /\ UNCHANGED <<world, phase5, materialized, store, left, terminalReport, dirs,
                 calls, verdict, crashes>>

SameLabels ==
  \A e \in Examples : RawPrediction(world, e).label = ParserPrediction(world, e).label

EvaluateP0 ==
  /\ job.name = "evaluate" /\ job.at = 1
  /\ IF Evaluable(job.run)
     THEN Step /\ dirs' = [dirs EXCEPT ![job.run].p0 = "begun"]
     ELSE End /\ UNCHANGED dirs
  /\ UNCHANGED <<world, phase5, materialized, store, left, terminalReport, calls,
                 verdict, crashes>>

FinishP0 ==
  /\ job.name = "evaluate" /\ job.at = 2
  /\ dirs' = [dirs EXCEPT ![job.run].p0 = "complete"]
  /\ IF SameLabels THEN Step ELSE End
  /\ UNCHANGED <<world, phase5, materialized, store, left, terminalReport, calls,
                 verdict, crashes>>

WriteReport ==
  /\ job.name = "evaluate" /\ job.at = 3
  /\ dirs' = [dirs EXCEPT ![job.run].files = @ \cup {"report"}]
  /\ Step
  /\ UNCHANGED <<world, phase5, materialized, store, left, terminalReport, calls,
                 verdict, crashes>>

Complete ==
  /\ job.name = "evaluate" /\ job.at = 4
  /\ dirs' = [dirs EXCEPT ![job.run].state = "complete"]
  /\ End
  /\ UNCHANGED <<world, phase5, materialized, store, left, terminalReport, calls,
                 verdict, crashes>>

-----------------------------------------------------------------------------
(***************************************************************************)
(* compare_recovery_replay: both reports are there, the decisions (and so  *)
(* the seals and the reports) agree, and the second run called nobody.     *)
(***************************************************************************)

Misses(r) ==
  Cardinality({c \in Components : Decided(r)[c].error = "PROVIDER_ERROR"
                                    \/ Decided(r)[c].reason = "RESOURCE_LIMIT"})

(* A slip: misses do not matter when the predictions agree. *)
Agree(a, b) == P1(world, Decided(a)) = P1(world, Decided(b)) /\ dirs[b].calls = 0

Passes(a, b) ==
  /\ Decided(a) = Decided(b)
  /\ Misses(b) = 0
  /\ dirs[b].calls = 0

Compare(a, b) ==
  /\ job = Idle
  /\ a # b
  /\ {"seal", "report"} \subseteq dirs[a].files \cap dirs[b].files
  /\ verdict' = [end |-> IF Passes(a, b) THEN "passed" ELSE "refused",
                 live |-> a, replay |-> b]
  /\ job' = Job("compare", b)
  /\ UNCHANGED <<world, phase5, materialized, store, left, terminalReport, dirs,
                 calls, crashes>>

(* The command ends with its verdict; nothing reads it later. *)
EndCompare ==
  /\ job.name = "compare"
  /\ verdict' = [end |-> "none"]
  /\ End
  /\ UNCHANGED <<world, phase5, materialized, store, left, terminalReport, dirs,
                 calls, crashes>>

-----------------------------------------------------------------------------
(***************************************************************************)
(* materialize_r3_1_interrupted_terminal: the request a crash interrupted  *)
(* becomes terminal if the cache is as the crash left it.                  *)
(***************************************************************************)

InterruptedRequest == <<Interrupted, FALSE>>

StartInterrupted ==
  /\ job = Idle
  /\ crashes > 0
  /\ Resolves /\ world.raw[Interrupted] # "valid"
  /\ store[InterruptedRequest] = "none"
  /\ store = left
  /\ store' = [store EXCEPT ![InterruptedRequest] = "correction_failed"]
  /\ job' = Job("interrupted", "none")
  /\ UNCHANGED <<world, phase5, materialized, left, terminalReport, dirs, calls,
                 verdict, crashes>>

ReportInterrupted ==
  /\ job.name = "interrupted"
  /\ terminalReport' = TRUE
  /\ End
  /\ UNCHANGED <<world, phase5, materialized, store, left, dirs, calls, verdict,
                 crashes>>

-----------------------------------------------------------------------------

Crash ==
  /\ job # Idle /\ job.name # "compare"
  /\ crashes < MaxCrashes
  /\ crashes' = crashes + 1
  /\ left' = store
  /\ End
  /\ UNCHANGED <<world, phase5, materialized, store, terminalReport, dirs, calls,
                 verdict>>

Next ==
  \/ StartMaterialize \/ MaterializeOne \/ ReportMaterialization
  \/ \E r \in Runs : StartSeal(r) \/ StartUnsealed(r) \/ StartEvaluate(r)
  \/ DecideOne \/ SealOne \/ EvaluateRaw \/ ReportOne
  \/ EvaluateP0 \/ FinishP0 \/ WriteReport \/ Complete
  \/ \E a, b \in Runs : Compare(a, b)
  \/ EndCompare
  \/ StartInterrupted \/ ReportInterrupted
  \/ Crash

Spec == Init /\ [][Next]_vars
-----------------------------------------------------------------------------
(***************************************************************************)
(* Properties.                                                             *)
(***************************************************************************)

(* materialize_r3_phase5: when its report is there, whatever crashed and   *)
(* was run again, every request of the parser resolves to the preserved    *)
(* success, or to a terminal outcome if there is none.                     *)
MaterializationIsExact ==
  materialized => \A c \in Components :
    phase5[c] = IF world.source[c] = "success" THEN "success" ELSE "terminal"

(* prediction-seal.json is evidence: when it is there, so is everything it *)
(* fingerprints; of the runs that seal, gold labels are read only for one  *)
(* that has; and no state of a run claims more than its files show, at     *)
(* whatever point it died.                                                 *)
SealIsEvidence ==
  \A r \in Runs :
    /\ "seal" \in dirs[r].files =>
         /\ {"decisions", "policies", "audit", "ledger"} \subseteq dirs[r].files
         /\ DOMAIN Decided(r) = Components
    /\ dirs[r].kind = "sealed" /\ dirs[r].p0 # "none" => "seal" \in dirs[r].files
    /\ dirs[r].kind = "unsealed" =>
         /\ "seal" \notin dirs[r].files
         /\ "report" \in dirs[r].files =>
              dirs[r].p0 = "complete" /\ DOMAIN Decided(r) = Components
    /\ dirs[r].state = "sealed" => "seal" \in dirs[r].files
    /\ dirs[r].state = "complete" => "report" \in dirs[r].files

(* A report does not change, and neither do the decisions it is made from; *)
(* it is judged while the command that wrote it is running.                *)
HasReport(r) == job.run = r /\ "report" \in dirs[r].files

(* The policies of apply_policy: P2 answers only what P1 answers, and the  *)
(* same; it gives no error that P1 does not give; where it differs, it     *)
(* abstains for a reason of a component.  No candidate that was accepted   *)
(* fails the second validation, and what P0 answered stays, unless a       *)
(* component was corrected.                                                *)
PoliciesNest ==
  \A r \in Runs : HasReport(r) => \A e \in Examples :
    LET d  == Decided(r)
        p0 == P0(world)[e]
        p1 == P1(world, d)[e]
        p2 == P2(world, d)[e] IN
    /\ IsAnswered(p2) => p1 = p2
    /\ p2.label = "ERROR" => p1 = p2
    /\ p1 # p2 => p2.label = "ABSTAIN" /\ p2.why \in {"CRITIC_REJECTED", "RESOURCE_LIMIT"}
    /\ p1.why # "RELIABILITY_GATE_FAILED"
    /\ IsAnswered(p0) /\ IsAnswered(p1) /\ p0 # p1
       => d[e].corrected \/ d[TheoryOf[e]].corrected

(* The two computations of P0 label alike, so the check between them never *)
(* refuses a sealed run; and the numbers of a report agree: every stage of *)
(* the funnel keeps at most what it was given and every converted example  *)
(* reaches the engine, the answers gained and lost make up the difference, *)
(* the selective policy only trades answers for abstentions,               *)
(* and what fails validation in P0 is answered by P1 only if a correction  *)
(* replaced a component.                                                   *)
ReportAddsUp ==
  /\ \A r \in Runs : dirs[r].p0 = "complete" => SameLabels
  /\ \A r \in Runs : HasReport(r) =>
    LET d  == Decided(r)
        pp == ParserP0(world)
        p0 == IF dirs[r].kind = "sealed" THEN P0(world) ELSE pp
        p1 == P1(world, d)
        p2 == P2(world, d)
        vo == Metrics(world, ValidationOnly(pp))
        f  == Funnel(world, pp)
        am == AbstentionMetrics(p1, p2)
        cm == CorrectionMetrics([c \in Components |-> RawValid(c, d)], d) IN
    /\ f.parsed <= f.covered /\ f.covered <= f.structured
    /\ f.parsed = Metrics(world, pp).answered + ErrorCount(pp, "INCONSISTENT")
                    + ErrorCount(pp, "PROOF_VERIFICATION_ERROR")
    /\ Metrics(world, p1).answered + LostAfterCorrection(p0, p1)
         = Metrics(world, p0).answered + NewlyAnswerable(p0, p1)
    /\ vo.errored = 0 /\ vo.answered = Metrics(world, pp).answered
    /\ \A from, to \in Labels :
         TransitionMatrix(p1, p2)[<<from, to>>] > 0 => from = to \/ to = "ABSTAIN"
    /\ am.retained <= am.answered /\ am.p2_errors <= am.p1_errors
    /\ cm.accepted <= cm.recovered /\ cm.recovered + cm.regressions <= cm.attempted
    /\ \A e \in Examples \ ParsedExamples(world) :
         IsAnswered(p1[e]) => d[e].corrected \/ d[TheoryOf[e]].corrected

(* compare_recovery_replay: a comparison passes exactly when both runs     *)
(* found an outcome for every request and the second one made no call; the *)
(* decisions are then the same although one of them had a provider.        *)
ReplayAgrees ==
  verdict.end # "none" =>
    (verdict.end = "passed"
       <=> /\ Misses(verdict.live) = 0
           /\ Misses(verdict.replay) = 0
           /\ dirs[verdict.replay].calls = 0)
=============================================================================
