# TLA+ models of VeriLogic NS (NeuroSym)

VeriLogic NS answers whether a query follows from a theory. A local language
model translates sentences into a typed candidate, deterministic validation and
a critic accept, correct or reject it, a symbolic engine saturates the theory,
and an independent verifier checks the engine's proof before anything is
answered. A web API runs these requests one at a time behind a small queue.
Around this product there are offline experiments on a public benchmark: the
data and its samples, language-model baselines over a shared response cache,
and a sealed recovery run with its evaluation.

This directory models the program's core logic under
`src/backend/src/verilogic_ns_api/` (paths below are relative to it), checks the
models with TLC and proves theorems about all of them with TLAPS.
`PROJECT.json` lists components, runs, mutants, the map from definitions to
source lines, findings, hazards and theorems.

## 1. Inventory

### Components, their state and operations

| Component | State | Operations | What makes it correct | Status |
|---|---|---|---|---|
| Symbolic engine, `reasoning/engine.py`, with `unification.py`, `proofs.py` | closure, delta, candidates of a round, counters | load facts, open a round, consider an instance, close a round, answer; five limits | the closure is the least model, no partial closure is answered from, one minimal and final proof per literal, limits stop only what exceeds them | modelled, proved |
| Proof verifier, `reasoning/verifier.py` | its own closure and counters | naive closure, checks of conflicts, roots, nodes, reachability, status | never refuses the engine's result, never accepts anything else that is wrong | modelled, proved |
| Theory models, `reasoning/models.py` | none | checks of names, arities, variables, sources | a theory that is built is one the engine may reason about | partly |
| Candidates, `feedback.py`, `converter.py`, `canonicalization.py`, `views.py`, `raw.py` | none | judge a candidate, convert it, combine it with the query | what is accepted is a theory and says what the candidate said | partly, proved |
| Job manager, `orchestration/jobs.py` | jobs, queue, shutdown flag, worker thread | submit, get, cancel, shutdown, the worker's loop, pruning | documented run states, one active run, order of submission, bounds, a kept cancellation, no run left waiting | modelled, proved |
| HTTP API, `api/routes/*`, `main.py` | none of its own | submit, poll, cancel, shutdown | the calls are the requests of the job manager | partly |
| Pipeline, `orchestration/pipeline.py`, `trace.py` | parsed candidates, decisions, trace, result | eleven stages, two input modes, three policies, cancellation points | every request ends with one result, answers only on evidence, failures are not abstentions, the trace agrees with the result | modelled, proved |
| Correction controller, `validation_correction/controller.py` | state machine with history, seen candidates, correction count | validate, critique, correct once, revalidate, critique, decide | no refused transition, bounded tasks, what is accepted was judged and validates | modelled, proved |
| Task services, `semantic_parsing/service.py`, `validation_correction/service.py`, caches, `terminal_outcomes.py`, `orchestration/budget.py` | entries on disk, budget of the run, count of new calls | look up, refuse, dispatch, retry, store a success or a terminal outcome | calls are not repeated for what is decided, budgets hold, an outcome that was seen stays | modelled, proved; caches and outcomes partly |
| Orchestration factory, `orchestration/factory.py` | cached readiness | build a runtime per run, probe the local model | each run has its own budget and services | partly |
| LLM baselines, `baselines/*` | response cache and lock files, budget, circuit breaker | look up, lock, reserve, call with retries, settle, store; plan, run | one caller per request, the cap holds, runs agree and replay, what is published is whole | partly, proved |
| Evaluation runner, `evaluation/*` | a run directory | predict with threads, write, rename | a published directory is whole | modelled, proved |
| Offline recovery, `recovery_r2.py`, `recovery_r3.py` | materialized cache, run directories, reports | materialize, decide and seal, evaluate, compare with a replay, repair the interrupted request | labels are read only after the seal, no state claims more than the files show, reports add up | partly, proved |
| Offline evaluation, `validation_correction/evaluation.py`, `policy.py`, `semantic_parsing/evaluation.py` | reports | predictions of three policies, funnel, metrics | the policies nest, the counts agree | partly, proved |
| ProofWriter adapter, `reasoning/proofwriter.py`, `datasets/proofwriter.py` | none | normalize names, convert a record, load splits | names stay apart, the theory is valid | partly, proved |
| Datasets, `datasets/*` | archive, partial download, extraction, record, prepared copy | download, verify, extract, record, prepare; draw a sample | files are whole, a sample does not depend on the order of arrival | partly, proved |
| Research catalogue, phase 9 and 10 tooling, web frontend, schemas and command lines | | presentation and offline reports | | not modelled, section 8 |

### How they interact

The API's threads call the job manager, which holds its lock for each of them;
one worker thread takes runs off the queue and calls the pipeline without the
lock. The pipeline reads the job's cancel event between stages and reports
progress through a callback that takes the lock again. It calls the parser for
the theory and for the query, then runs the correction controller once for
each; parser, critic and corrector share the budget of the run and find their
answers in caches on disk that outlive runs. An accepted theory goes to the
engine, and the result to the verifier.

The experiments are command lines. The dataset commands leave files that the
samplers and loaders read. A baseline run plans over the cache directory, which
other processes share, predicts with threads through cache, lock, budget and
breaker, and publishes its directory with one rename. The recovery reads a
preserved parser cache, decides every component with the task services and the
controller, seals, and only then evaluates against the labels.

### What is hard here

- **Interleavings** of requests, shutdown and the worker; of two processes and
  their threads over one cache directory with lock files.
- **Order**: the semi-naive delta must neither lose nor repeat a match, the
  proof that is kept must not depend on scanning order, a sample not on the
  order of the stream, a label must not be read before the seal.
- **Limits**: five limits of the engine, the queue, the retention, the budget,
  the attempts, the cost cap, each reached in the middle of something.
- **Crashes** between a paid call and the entry that records it, between a
  manifest and a rename, between any two files of a seal or a preparation;
  **retries** against a budget.
- **Long protocols**: two controllers in one pipeline, with failures, rejections
  and exceptions at any stage, that must be told apart in the end; a live run, a
  crash, an amendment and a replay that must agree.

All of it is listed line by line under `hazards` in `PROJECT.json`.

## 2. Modules

| Module | Models | Used by |
|---|---|---|
| `HornTheory` | literals, theories, least model, four-valued classification | all of the engine |
| `Entailment` | abstract: ask, then answer by the least model or give up | refined by `ForwardChaining` |
| `ForwardChaining` | the engine | `VerifiedReasoning`, proofs |
| `VerifiedReasoning` | the engine composed with the verifier | proofs |
| `RunResource` | abstract: the documented life of a run | refined by `JobManager` |
| `JobManager` | requests and worker thread of the job manager | proofs |
| `TaskService` | parser, critic and correction tasks over cache and budget | proofs |
| `CorrectionController` | one controller run | `Pipeline` |
| `Pipeline` | a request through all stages, with two controller runs | proofs |
| `TypedTheory` | when a typed theory is valid | `Conversion`, `FormalAdapter` |
| `Conversion` | a model's candidate and query: judged, converted, combined | `TheoryIntake` |
| `FormalAdapter` | a formal record and one of its questions made a theory | `TheoryIntake` |
| `TheoryIntake` | the two producers side by side | proofs |
| `CachedProvider` | one baseline request: cache, lock, budget, breaker, retries | `BaselineRun` |
| `BaselineRun` | planning, threads, publication, kills, over several processes | proofs |
| `PolicyEvaluation` | predictions and counts of the policies (operators only) | `SealedRecovery` |
| `SealedRecovery` | materialization, seal, evaluation, comparison, the interrupted request | proofs |
| `DatasetFiles` | download, extraction, record, preparation | `Dataset` |
| `Sampling` | all sampling strategies and selections | `Dataset` |
| `Dataset` | the two halves side by side | proofs |
| `..._proofs` | theorems about the module they are named after and what it is composed of | |
| `MC...` | values of the constants for TLC | |

`TheoryIntake` and `Dataset` only put two independent machines into one state
space; nothing passes between their halves.

A definition whose comment begins with "A slip" (or speaks of "the slip") is a
wrong variant of the one below it; no specification uses it. It stands for a
plausible bug, and `mutants` in `PROJECT.json` says which property notices it.

### State and actions against the code

**Engine.** `closure` maps a literal to its `Derivation` (depth, origin, the steps
of its proof); `delta`, `candidates`, `rounds`, `firings` are the locals of
`_saturate`. A step is a literal with its origin and depth; a rule step stands
for the application node and the derived node, which `ProofSize` counts. Rules
appear as their ground instances, numbered in the canonical order, so
unification is abstracted to the set of instances whose body is known
(`NewMatches`). `LoadFacts`, `OpenRound`, `Consider`, `CloseRound`, `TimeOut` and
`Answer` follow `_saturate` and `reason` check by check. The engine walks a round
in one order; the model allows any order, which is more.

**Verifier.** `NaiveRound` is one turn of `_naive_closure`, with the limits tested in
its order (firings, fixpoint, rounds, literals). `Check` tests conflicts, size,
roots, every step, reachability and status, in the order in which they can tell
a refusal from a limit. Claims are the engine's own result, results tampered
with as in the repository's tests (and some more), and a fabricated `UNKNOWN`,
also for theories the engine gave up on. Hashes and identifiers are left out: a
claim is about this theory and this query. `_assert_acyclic` has no counterpart
because depths, checked first, already exclude a cycle.

**Theories and candidates.** `TypedTheory!IsValid` is what the model of a theory
checks when it is built. `Conversion` lets a language model return any candidate:
`ValidateTheory` collects what the feedback would list (coverage, arity clashes,
and whatever the probed theory is refused for), and `ValidateQuery` adds the
query's source, entities and predicates before the whole is checked again.
Sentences without an id are given `Numbered` ones, which may clash with an id
the caller chose. The probe's own names (`validation_query`, `validation_entity`,
`validation_probe`) are reserved by `_validate_body`; the property excepts
exactly these. `FormalAdapter` reads the formal notation as already parsed,
with statement identifiers as normalized, and models what normalization can do
to names: two may get one base, and the later carries its digest, taken to be
unique; and a predicate (not an entity) that keeps a hyphen cannot be normalized
(`Hyphenated`). `IsConvertible` has the adapter's own checks and `IsValid` those of
the theory. A record is `whole` if no field is missing, empty or too long, every
representation can be parsed, and the question's answer and depth can be used.

**Job manager.** Each action is a critical section, or a step of the worker between
two. Run identifiers are numbers in order of submission. The clock appears only
as what pruning reads of it: the order in which runs ended (`end`) and which
ended ones are past retention (`expired`). `worker` is the thread: `look` (at
`wait_for`), `asleep`, `run`, `close`, `ending` (out of `_work`, still alive for
`is_alive`), `dead`. A runtime that was never created is closed like any other,
which allows more than the code.

**Tasks.** `cache` maps a request to its file, written in one step because the code
writes a temporary file and renames it. `NewRun` at any point stands for the next
run and for a crash in between. `made` and `settled` are history: the calls that
led to an entry, and the first outcome a caller saw. The parser stores no
terminal failures of its provider, critics and corrections do, as in the code.

**Controller.** `path` is the state machine's history, so a transition that
`_ALLOWED_TRANSITIONS` refuses would be a pair of neighbours outside `Allowed`. One
action is a task and everything up to the next one. Lines 353 to 366 of
`controller.py` handle a correction without a value, which no task outcome can
produce, and have no action.

**Pipeline.** `pc` is the next stage of `run`; `machineVars` are the controller of the
component in progress, started anew for the query. `Stop` is `_check_cancel`,
`Unexpected` any exception the outer handler turns into a result. Parsing,
reasoning and verification are single steps with the outcomes the other modules
show them to have.

**Baselines.** A request is its cache key. `call[p][r].step` is where a thread of
process `p` is in `complete` for request `r`: the read without the lock, the
quarantine of a corrupt entry, the lock file created exclusively or waited for,
the second read, the reservation, each attempt, the settlement with the store,
the release. `UnlinkStale` is the waiter that removes a lock it found too old;
`Age` lets a held lock become that old. A request whose lock went stale or whose
entry was quarantined is `exposed`, and the invariants speak of the others.
Costs are in worst cases: a call is reserved as 1 and billed 1 or 2. `BaselineRun`
adds planning over the whole cache, the worker threads, the early stop on a
fatal result, the four steps of publication, a write that fails, and `Crash`,
which leaves files and locks as they are.

**Recovery.** Each command is a `job` with its step number, and `Crash` may come
between any two steps. A world fixes what no command changes: how good each raw
candidate is, how the engine ends on each version, the labels, and the preserved
cache. The tasks of a component are taken together, with the ends
`CorrectionController` and `TaskService` allow. `store` outlives runs, as the
caches do. `SealOne` writes the artefacts in the code's order
with the seal last, and a sealed run is evaluated only if no evaluation of P0 was
begun. `PolicyEvaluation` has the predictions and the counts, which `ReportAddsUp`
and `PoliciesNest` relate.

**Datasets.** `archive`, `partial`, `extracted`, `unpacked`, the record and `prepared` are
the files by what they hold; a digest is taken to identify a content. `Receive`
may get anything; each check may fail; `Kill` may come between any two steps.
A forced preparation that is killed while it removes the old copy leaves the rest
of it under the final name; `cutShort` marks that, and `DataIsWhole` excepts it. A limit of zero
yields one example, as the loader's loop does. `prepare` opens whatever looks like an
archive (`Zips`, of which `ValidZips` pass the integrity check of `download`): one that
was put there by hand with a damaged entry may give a copy, if the limit is
reached before the damage. `Sampling` reads a stream one
example at a time and keeps what the strategy's capacity allows; quotas follow
the code, stratified shares in exact arithmetic where the code has floating
point. Selections by cells use the label as the cell.

## 3. Runs

| Run | Question | Properties | Bounds | Distinct states |
|---|---|---|---|---|
| `engine` | does saturation compute the least model with whole, minimal and final proofs, does a limit stop only what exceeds it, does saturation end by itself, and does the engine implement `Entailment`? | `NoMatchIsLost`, `SaturatedIsLeastModel`, `ProofsAreSelfContained`, `BestProofIsKept`, `LimitsAreExact`, `ClosureGrowsToAnEnd`, `ImplementsEntailment` | 3 atoms, 3 instances, 4 literals, 3 firings, 2 rounds, 7 nodes, a deadline anywhere | 41,685 |
| `verifier` | do engine and verifier agree, and is everything verified right? | `OwnResultsVerify`, `VerifiedIsRight` | 2 atoms, 5 facts, 3 of 5 instances, all tampered claims | 595,492 |
| `jobs` | does the manager keep its order, its promises about cancellation and the documented states, and does a waiting run end? | `WorkerServes`, `WaitingInOrder`, `CancelIsKept`, `ImplementsResource`, `WaitsOnlyForADeadWorker` | 4 runs, queue of 2, retention of 3 | 387,001 |
| `tasks` | are calls paid for, outcomes kept and replayed, and do tasks return? | `SeenIsStored`, `CallsArePaidFor`, `OutcomesAreReplayed`, `TaskReturns` | 4 requests, budget 3, 2 attempts, 1 new correction call, any number of runs and crashes | 340,767 |
| `pipeline` | does a request end with the result its evidence allows, and a cancelled one at the next reading of the flag? | `TasksAreBounded`, `DecisionStands`, `AnsweredOnEvidence`, `FailuresStayErrors`, `TraceIsTerminal`, `RequestGetsOn`, `RequestEnds` | both modes, all policies, 3 candidates with all verdicts | 500,604 |
| `baselines` | is a request sent once and within the cap, do runs agree and replay, is what is published whole, can a process always go on, and does everything end? | `OneCallerPerRequest`, `SpendStaysWithinCap`, `PredictionsAreReplayable`, `PublishedIsWhole`, `NoRunIsStuck`, `EveryStepLeavesLess` | 2 processes (2 threads and 1), 2 requests, cap 2, breaker 2, 2 attempts, one kill | 1,059,500 |
| `recovery` | is the materialized cache exact, the seal evidence, and do policies, reports and replays agree? | `MaterializationIsExact`, `SealIsEvidence`, `PoliciesNest`, `ReportAddsUp`, `ReplayAgrees` | one theory, 2 examples, 6 worlds, 2 live runs and a replay, 2 new calls, one kill | 791,043 |
| `conversion` | is what is accepted a valid theory that says what the candidate said? | `ValidatedIsATheory`, `NamesStayApart` | 2 sentences and a query, any candidate over few names; small records with clashing names and every kind of defect | 203,271 |
| `dataset` | are files whole and samples independent of the order? | `DataIsWhole`, `SampleIgnoresArrival` | 6 contents, one of them damaged, 3 limits; 5 examples, 3 labels, samples up to 4 | 2,608,082 |
| `jobs_key_error`, `tasks_evidence`, `baselines_lock` | expected violations, section 6 | `NoKeyError`, `EvidenceIsMeasured`, `DispatchOnce` | | |

**Why the bounds are enough.** The engine's interesting cases need three rounds, a
join whose premises arrive in different rounds, two derivations of one literal
and a conflict: three instances and three atoms have all of them, and the
theorems lift the bound. Pruning needs more runs than the retention, with a
waiting, a running and an ended run at once: four runs. The controller takes at
most three tasks; the third candidate is "yet another one", and the theorems
lift that bound too. The tasks need one request of each kind and a budget that a
task can exhaust midway; the cache starts with any mixture of missing, corrupt
and unusable files. A race on a lock needs two processes, one on the budget two
threads, a replay behind a live run a second request. A recovery needs a
component that fails in one run and is found in the next, and one kill: a second
one meets the same files. Of samples, five examples let a cell be too small, just
large enough and overfull. Every disjunct of every next-state relation fires in
some passing run.

Bounds of the models alone: `MaxRuns` (submissions), `MaxCrashes` (kills), `MaxSize`
(samples). The recovery's check against the frozen state of P0 is on the number
of its errors only; a report is judged while the command that wrote it runs,
since nothing it was made from changes later.

**What the runs show.** All passing properties hold. The least obvious:
`OwnResultsVerify` (of all limits only `max_rule_firings`, which the verifier counts
anew in each round, can stop the verification of the engine's own result, and
does for some theories); `LimitsAreExact` (whether `max_proof_nodes` stops a theory
depends on the instances that match, not on their order; it counts proofs that no
answer needs, as the code does); `EveryStepLeavesLess` (processes cannot take stale
locks from each other for ever); `RequestGetsOn` (a cancelled request starts neither a
parser nor the controller nor the engine); `VerifiedIsRight` (a verified claim has the right status
and a proof without an idle step, whoever made it); `ImplementsResource` (shutdown,
pruning, death of the worker and late cancellation keep to the documented
states); `SpendStaysWithinCap` (with threads, failures and calls that cost more than
their estimate); `OneCallerPerRequest` (a killed process's lock included);
`SealIsEvidence`; `ReplayAgrees` (a comparison passes exactly if both runs had an
outcome for every request and the replay made no call).

## 4. Fairness

- `ForwardChaining`: `reason` is one sequential call that keeps taking steps.
- `JobManager`: the scheduler runs the worker thread; a pipeline run ends, because
  its stages end and the provider's client has a timeout; a thread that left
  `_work` ends. Requests, cancellation, expiry and shutdown have no fairness.
- `TaskService`: lookup, dispatch and store are sequential; a provider call ends by
  its timeout. Nothing is assumed about which outcome it has.
- `CorrectionController`, `Pipeline`: `run` keeps taking steps; exceptions and
  cancellation are not assumed to happen.
- `BaselineRun` assumes none: `NoRunIsStuck` says that a process that has not ended
  can take a step of its own, and `EveryStepLeavesLess` that no schedule of such
  steps goes on for ever. Waiting for a lock is no step; it ends by the waiter's
  own timeout.
- `VerifiedReasoning`, `SealedRecovery`, `TheoryIntake`, `Dataset` state safety only.

Weak fairness suffices everywhere: nothing that is waited for is switched off
and on again by another thread.

## 5. Proofs

All theorems hold for every value of the constants that satisfies the named
assumptions, which TLC evaluates on the instances of section 3.

### Engine: `VerifiedReasoning_proofs`

For every finite or infinite set of theories (`TheoriesAssumption`) and all
positive limits (`LimitsAssumption`):

| Theorem | Statement |
|---|---|
| `TypeCorrect` | `[]TypeOK` |
| `RoundsAreDisciplined` | depths, deltas and candidates follow the rounds |
| `Soundness` | what is known or a candidate holds in every model |
| `Bookkeeping` | the delta loses no match |
| `Completeness` | a saturated closure is the least model |
| `AnswersAreCorrect` | status and conflicts of an answer are those of the least model |
| `ConsideredOnce` | each matching instance is considered exactly once |
| `WholeProofs` | each derivation is complete and made of the chosen derivations |
| `FinalDerivations` | a derivation is never replaced |
| `BestProofs` | no instance whose premises were known a round earlier offers a derivation that the choice key prefers to the kept one |
| `ShallowestProofs` | the depth of a known literal is the first stage of the naive iteration that holds it |
| `BestIsKept` | `BestProofIsKept`, of the two before it |
| `ExactWorkLimits` | `WorkLimitsAreExact`: the limits on literals, firings and rounds stop only a theory that exceeds them; a saturated theory exceeds none |
| `ExactProofLimit` | `ProofLimitIsExact`: the limit on proof nodes stops just the theories in which a matching instance or an answer has a larger proof |
| `ExactLimits` | `LimitsAreExact`, of the two before it |
| `Ends` | `SaturationEnds`: each step leaves fewer, of a number that the theory alone decides |
| `GrowsToAnEnd` | `ClosureGrowsToAnEnd`: `FinalDerivations` and `Ends` |
| `RefinesEntailment` | the engine implements `Entailment!Safety` |

`TypeOK` is inductive, and `RoundDiscipline` with it: every literal of the delta has
the depth of the round, every other known one less, a pending instance uses a
delta literal. `OnlyConsequences` follows since a candidate's body is known.
`NoMatchIsLost` is the heart of semi-naive evaluation: when a round is closed, an
instance whose body becomes known has a premise in the new delta, otherwise it
was known one round earlier. At saturation `Known` is closed under the instances,
a model, and by soundness the least one. With that, an answer maps to the
abstract `Decide` step, a failure to giving up, and everything else stutters.
`ConsideredOnce` needs that the instances considered are exactly those whose body
was known before the round or that have left `pending`, and counts them.

`BestProofs`, `ShallowestProofs` and `ExactWorkLimits` rest on `RoundInv`. `BestOffers` says that the candidate of a literal
is the best of the instances considered so far in the round, whichever order they
came in: whether a derivation takes the candidate's place or not, none that was
considered before is preferred to the one that stays. `Staged` says that at the
end of round `n` the known literals are stage `n` of the naive iteration, which is
the reference `DepthIsMinimal` and `WorkLimitsAreExact` are stated against. That such an
iteration exists for a theory, and is unique, is proved by taking a least number
at which it would not be. `Counting` relates firings and literals to that stage, so
that what stopped the engine exceeds the limit in the reference too.

`ExactProofLimit` needs `SmallProofs`, which remembers that each instance considered so
far had a proof within the limit. The proof an instance offered when it was
considered is the one it offers at the end, since the derivations of its premises
are final (`KeptDerivations`). For `Ends` the measure is two steps for each literal that
some instance may still add, one for each instance not yet considered, and one for
each stage left of the round: a round that adds nothing is the last, and
`ConsideredOnce` bounds the instances. The measure mentions no limit, so the limits
are a guard on resources and not what makes saturation end.

### Verifier: `VerifiedReasoning_proofs`

In the same module, under the same assumptions:

| Theorem | Statement |
|---|---|
| `VerificationIsSound` | `VerifiedIsRight`: a verified claim has the status and conflicts of the least model, whole proofs, no idle step |
| `OwnResultsAreVerified` | `OwnResultsVerify`: the engine's result is never refused, and of the limits only `max_rule_firings` can stop its verification |

`EngineInv` collects what is proved of the engine. For the first theorem
`VerifierInv` says that the naive closure stays within the least model and holds
the facts, and is a model when checking begins, hence the least one; and that
steps of a claim are told apart by their literals. A step that passes the checks
is then justified, and a part of the proof that proves the claim by itself
contains all that is reachable from the roots, which is everything. For the
second, `Lean` says what a derivation consists of and `Sized` that the engine kept
to its limits; `ClosesLikeTheEngine` says that after `n` naive rounds all literals of
depth up to `n` are there, so the verifier needs no more rounds, literals or
nodes than the engine did. That every step of the engine's proof is reached from
the roots is shown by taking a least deep derivation that is not.

### Job manager: `JobManager_proofs`

For any queue, retention and number of runs (`SettingsAssumption`):

| Theorem | Statement |
|---|---|
| `OneIsActive` | the job that shows as active is the one in the worker's hands |
| `CancellationHolds` | a run cancelled in time never shows a result |
| `WaitingIsBoundedAndInOrder` | one place in the queue per waiting run, in order, within the bounds |
| `NothingSleepsThrough` | `NoLostWakeup`: while a run waits the thread is at work, unless it ended as documented; a shutdown reaches the worker and every run |
| `WorkerIsThere` | `WorkerServes`: `OneIsActive` and `NothingSleepsThrough` |
| `RefinesResource` | the manager implements `RunResource` |

The invariant is `JInv`: the type, `FlagsAgree` (status, cancel request and end agree
in each job), `ActiveIsCurrent` and `QueueInOrder` (the queue rises, what it holds is
waiting or cancelled, the run in hand is older). `WakeInv` adds when the thread may
sleep or be gone: only over an empty queue, and asleep only before the shutdown.
`Counts` adds the two bounds
(one record above the retention, since the code prunes before it inserts). For the refinement each
critical section is shown to make documented moves only, and to forget only what
ended: pruning removes several runs at once, and each removal is a step that the
abstract specification allows together.

### Task services: `TaskService_proofs`

For any requests, answers, budget, attempts and limit on calls
(`LimitsAssumption`):

| Theorem | Statement |
|---|---|
| `TypeCorrect` | `[]TypeOK` |
| `SeenStays` | what a caller saw as final is on disk |
| `PaidFor` | no call without its justification |
| `Replayed` | the first final outcome is what every later caller sees |
| `GetsOn` | each step of a task leaves it fewer, whatever errors recur (`TaskGetsOn`, stated with its proof; no run checks it) |

`IInv` adds `TaskInProgress` to the type and to `SeenIsStored`: a task that is being
dispatched or stored found no file and is not a replay, and it has an attempt
left. It is needed because the lookup and the store are steps apart: that `Store`
overwrites nothing a caller saw follows only from the miss that came before. The
single process per cache directory is what makes it true.

### Pipeline and controller: `Pipeline_proofs`

For any non-empty set of candidates (`CandidatesAssumption`): `Bounded`
(`TasksAreBounded`), `Judged` (`AcceptedWasJudged`), `Corrected` (`CorrectedIsValid`),
`Decisions` (`DecisionStands`, both of these), `Evidenced` (`AnsweredOnEvidence`),
`Failures` (`FailuresStayErrors`), `Terminal` (`TraceIsTerminal`) and `GetsOn`
(`RequestGetsOn`), each for `PipelineSpec`, and `ControllerIsSound`, the first three
for the controller by itself. The invariant `PInv` has two halves. `MachineInv` says
of the controller that either no decision is taken and path, tasks and
corrections are those of one of its few situations (`Undecided`), or the decision
is one that `DecisionIsFinal` describes. `RequestInv` says of the request that while
it is under way no stage has failed and the evidence for the next stage is there,
and that once done the result is one of the outcomes with its trace. Each stage is a
lemma of its own, and a stage that leaves the controller alone keeps `MachineInv`
by `MachineStays`. For `GetsOn` the controller's four working states are shown to
follow one another (`ControlGoesForward`); what is left of a request is a number of
stages with these between them, or once it is cancelled the way to the next
reading of the flag, which ends it.

### Baselines: `BaselineRun_proofs`

For any processes, threads, requests, labels, attempts, threshold and cap
(`ProviderAssumption`), any number of kills: `OneCaller` (`OneCallerPerRequest`),
`SpendWithinCap` (`SpendStaysWithinCap`), `Replayable` (`PredictionsAreReplayable`),
`Published` (`PublishedIsWhole`), `NothingLastsForEver` (`EveryStepLeavesLess`). The invariant `BInv` is the type with `LockInv` (of a
request that is not exposed, whoever is past the lock holds it, alone, and the
cache has no entry while it asks), `SpendInv` (what is billed or on its way is
covered by what is settled or reserved), `PhaseInv` (calls happen only while
predicting, publishing only when all are done), `ReplayInv` (an accepted replay
finds every answer) and `DirInv` (files, manifest and name per phase). Every action
is a step of one call of one process, so each conjunct is first shown to survive
such a step whatever it is (`KeepsLock`, `KeepsCover`), and then that each step is one.

`NothingLastsForEver` compares states lexicographically: the requests that have not
had their turn at the lock, then the fresh locks, the stale locks, and last the
phases left of each process and the steps left of each call. Each grows only when
one before it shrinks: a lock is taken by a request that has its turn with it, a
stale lock is one fresh lock less, and it gives its waiters two steps more. These
are finite sets and numbers, so no run goes on for ever. `TriesInv`, needed with the
type, says that only a call being sent has been tried and that it has an attempt
left.

### Recovery: `SealedRecovery_proofs`

For any worlds, order of components, runs and kills (`RunsAssumption`,
`WorldsAssumption`): `Materialization` (`MaterializationIsExact`), from the invariant
that a materialization has made exact all components before its step number and
is not started over a report; and `Seal` (`SealIsEvidence`), from `SealInv`: the
directory and the step number of the command working on it agree, so that the
files that exist are those written before that step and the decisions are those
of the components passed.

The three theorems about evaluation rest on `RunsInv`, which adds what the runs
leave behind: each decision of a run is what the store held for its request
(`DecisionsOK`), the store never changes what it holds (`StoreOK`, `StoreGrows`), and
a verdict that is pending is the one the comparison found (`VerdictOK`).

| Theorem | Statement | Why |
|---|---|---|
| `Replay` | `ReplayAgrees` | two runs with an outcome for every request decided on the same entries of the same store |
| `Policies` | `PoliciesNest` | by cases on how the tasks of theory and query ended |
| `Reports` | `ReportAddsUp` | each count is the size of a set of examples, and the sets are shown to be disjoint and to cover |

`RunsAssumption` asks that the order has each component once and a theory before its
examples: theories are the keys of a dictionary and a manifest holds no example
twice. `WorldsAssumption` gives the preserved
inputs their types, and says that a query, which covers no sources, cannot fail
to cover them. `ExamplesAssumption` gives each example a theory.

### Typed theories: `TheoryIntake_proofs`

For any sentences, candidates, queries and records:

| Theorem | Statement |
|---|---|
| `Theories` | `ValidatedIsATheory`: a theory that is accepted tells each sentence once under the caller's name, with one arity per predicate and its variables bound; a refusal has a fault to show or a name the probe uses |
| `Names` | `NamesStayApart`: literals about one atom, and only these, become literals about one atom, with their signs; a record is refused exactly when it is not whole, has an empty rule body, a predicate that cannot be normalized, two arities for a name, an unbound pronoun or a repeated name |

`Theories` follows from `ConversionInv`: what is converted and what is accepted are
what the checks make of request, candidate and query, at each stage. The work is in
the lemmas about those checks: that every violation of a valid theory is an issue one
of them reports, and the converse. `Names` needs that of several names with one
normalized base the first keeps it and the others carry a digest, so that no two
share an identifier (`DistinguishedApart`), and from there that terms, atoms and
literals stay apart (`TermsApart`, `AtomsApart`). That the theory's checks refuse
nothing but defects of the record, and all of them, is `RefusedForADefect`: what the
adapter builds declares every name it uses (`AdaptedIsValid`), and a theory that is
accepted has only bound pronouns (`SafeHeadIsBound`).

`CandidatesAssumption` and `RecordsAssumption` are what the schemas of candidates and
records enforce before this code runs (a fact has no body, a query has no variables,
a literal has a polarity). `NothingAssumption` and `NoTheoryAssumption` say that the
values that stand for "no theory" are no theories.

### Data: `Dataset_proofs`

For any contents, splits and limits (`ContentsAssumption`, `DirectoryAssumption`):
`FilesAreWhole` (`DataIsWhole`), from `DataInv`: the type, what each step of a command
may rely on (`StepInv`), and what each file holds that carries its final name
(`ContentInv`). Nothing is assumed of archives but which look like one and which pass
the integrity check: only a download relies on the check, and what is prepared is
true to the part of the archive that could be read (`LoadedIsTrue`).

For any finite pool of examples (`PoolAssumption`), any labels with an order and
any configured lists without repetition (`LabelsAssumption`, which
`research/models.py` validates), a value for "no sample" that is none
(`RefusedAssumption`), and every strategy, size and order of arrival: `Samples`
(`SampleIgnoresArrival`). `SamplingInv` says of each store that it keeps the best of
all that came, up to its capacity, and counts all of it. It is inductive because
what was dropped has a full store of better examples before it, so it is among
the best of no larger set either (`KeptIsEnough`). Then the sample is a function of
the pool alone, and what is left is arithmetic: that equal and stratified shares
add up to the size that was asked for. `SharesAddUp` shows that rounding down loses less
than one place per label that lost a fraction, so handing the rest out by largest
remainder gives no label more than one. The facts about sums over sets of labels
are proved from the fold's definition by induction on subsets (`SubsetInduction`).

### Model-checked only

- Liveness, which these provers do not reach: `TaskReturns`, `RequestEnds`,
  `WaitsOnlyForADeadWorker`, the liveness half of `ImplementsEntailment`.
  The safety behind them is proved: `TaskGetsOn`, `RequestGetsOn`, `WorkerServes` and
  `ClosureGrowsToAnEnd` say that steps lead to the end, fairness that they are taken.
- `ENABLED`, which they do not support: `NoRunIsStuck`. That what can go on does not do so
  for ever, `EveryStepLeavesLess`, is proved.

Every other property of a passing run is a theorem. The library's induction
theorems take an operator as a parameter and cannot be used; where a proof needs
induction (stages, sums, depths of derivations) it takes a least counterexample
instead, from the well-foundedness of inclusion between finite sets (`LeastNat`,
`SubsetInduction`).

No module uses a `RECURSIVE` operator.

## 6. Findings

1. **`KeyError` on submission** (`orchestration/jobs.py:66`, run `jobs_key_error`). A run
   cancelled while it waits keeps its place in the queue. If it is pruned as an
   ended job before the worker skips it, the next `submit` looks its identifier up
   and raises `KeyError`. The model has this as `raised = "KeyError"`, so the other
   properties of `JobManager` cover it as well.
2. **Evidence of terminal outcomes** (`validation_correction/service.py:245`, run
   `tasks_evidence`). The number of observed attempts is derived from the status and
   not counted, so an outcome can testify to attempts that were not made, also when
   the budget refused the dispatch.
3. **Two senders of one request** (`baselines/cache.py:109`, run `baselines_lock`). A
   waiter unlinks a lock file older than 300 seconds although its owner may still
   be waiting for the provider (a shipped configuration allows 600), and takes it;
   the owner later unlinks the waiter's. Both send the same request.

Observed while modelling, with no run: an abstention for incomplete coverage
shows the stage `SOURCE_COVERAGE` as succeeded (`orchestration/pipeline.py:592`); a
dataset limit of zero yields one example (`datasets/proofwriter.py:426`).

## 7. Plan

Done, in this order: the engine and its theorems, job manager, task services,
controller, pipeline, verifier; then typed theories and their two producers,
baselines over a shared cache, recovery and its evaluation, dataset files and
sampling; then the proofs of all of these; last, that each of the machines that runs by
itself ends.

What is left, most useful first:

1. Two processes over the cache of the task services, which has no lock
   (`validation_correction/cache.py:112`): `TaskService` with a process parameter, as
   `CachedProvider` has.
2. `Grounding`: matching and grounding (`unification.py`) against the set of all
   substitutions, to replace the abstraction of the instances.
3. Readiness with its time-limited cache and the frontend's polling, composed
   with the job manager.
4. Theorems about these, as the parts before them have.

## 8. Not modelled, and why

- Research catalogue and exports, phase 9 and 10 tooling, schemas, settings,
  command lines: presentation of frozen evidence, offline aggregation and
  argument parsing, with no state that steps could bring out of order.
- Web frontend: submits, polls and cancels one run; the server relies on none of
  its state.
- HTTP exchange with models and servers, reading of responses: pure I/O; a call
  ends with a response or one of the typed errors.
- Hashing, canonical JSON and canonical forms, prompts, wording of explanations,
  durations, provenance: data that no property tells apart. A digest is taken to
  identify what it is of.
- Freeze and amendment checks of the recovery, which compare digests with
  constants; scores against gold structures, synthetic corruptions, smoke and
  canary commands, the paired comparison, the inspection report: computations
  over finished files.
- The grammar of the formal notation and the limits on the lengths of texts and
  lists: literals come parsed, and a record that breaks either is one that is not
  whole.
- Exceptions of the provider's client library that the adapter does not classify:
  every error of a call is one of the typed ones. The check of the breaker and the
  reservation of the budget are one step. A run that is started under the name of a
  finished one is refused before it does anything, and has no step.
- The depth of Python's stack in the verifier's recursive cycle check: a limit of
  the interpreter.
- The readiness cache: its answer is advisory, and a run that was accepted on a
  stale one fails like any other whose model does not answer.

Two commands of the recovery, or two of the dataset's, at the same time are
outside the models: the code has no locks for them, and the models assume that
one is started after the other. Of caches, only the baselines' is modelled with several
processes.
