------------------------------ MODULE TaskService ------------------------------
(***************************************************************************)
(* One neural task after another, as SemanticParser._parse and             *)
(* CorrectionTaskService._execute perform them: look the request up in the *)
(* cache on disk, otherwise dispatch it within the run's budget, retry     *)
(* what may be retried, and store what is final.                           *)
(*                                                                         *)
(* The cache outlives runs and crashes; a run has a budget of its own.  A  *)
(* request stands for everything its hash covers: prompt, input, schema,   *)
(* runtime and generation settings.                                        *)
(***************************************************************************)
EXTENDS Naturals, FiniteSets

CONSTANTS
  ParserTasks,      \* requests of the semantic parser
  CorrectionTasks,  \* requests of critics and corrections
  Oversized,        \* correction requests above maximum_request_characters
  Answers,          \* contents of a response that match the output schema
  DispatchLimit,    \* DispatchBudget.limit
  MaxAttempts,      \* runtime.max_attempts
  MaxNewCalls       \* limits.maximum_new_pilot_calls

ASSUME TasksAssumption ==
  /\ ParserTasks \cap CorrectionTasks = {}
  /\ Oversized \subseteq CorrectionTasks

ASSUME LimitsAssumption ==
  /\ DispatchLimit \in Nat \ {0}
  /\ MaxAttempts \in Nat \ {0}
  /\ MaxNewCalls \in Nat

Requests == ParserTasks \cup CorrectionTasks

VARIABLES
  cache,     \* request |-> its entry on disk
  replay,    \* this run was built without a provider (CACHE_ONLY)
  claimed,   \* dispatches this run claimed from its budget
  newCalls,  \* dispatched tasks this run's correction service counted
  step,      \* where the task in progress is
  task,      \* its request
  attempts,  \* provider calls made for it
  entry,     \* what it is about to store
  made,      \* request |-> calls that led to its entry, which nothing records
  settled    \* request |-> the first final outcome a caller saw

vars == <<cache, replay, claimed, newCalls, step, task, attempts, entry,
          made, settled>>

-----------------------------------------------------------------------------

Failures == {"STRUCTURED_OUTPUT_ERROR", "TIMEOUT", "PROVIDER_ERROR"}

NoEntry == [kind |-> "none"]

(* A file that cannot be read as an entry, or of another request.          *)
Corrupt == [kind |-> "corrupt"]

Success(a) == [kind |-> "success", answer |-> a]

(* A response whose content does not match the schema is never stored as a *)
(* success, but an older cache may hold one.                               *)
Unusable == [kind |-> "success", answer |-> "unusable"]

Terminal(status, n) == [kind |-> "terminal", status |-> status, attempts |-> n]

(* What the caller of a task is told of a final entry. *)
OutcomeOf(e) ==
  IF e.kind = "terminal" THEN e.status
  ELSE IF e = Unusable THEN "STRUCTURED_OUTPUT_ERROR" ELSE e.answer

Undecided == [r \in Requests |-> "none"]

Init ==
  /\ cache \in [Requests -> {NoEntry, Corrupt, Unusable}]
  /\ replay \in BOOLEAN
  /\ claimed = 0
  /\ newCalls = 0
  /\ step = "idle"
  /\ task \in Requests
  /\ attempts = 0
  /\ entry = NoEntry
  /\ made = [r \in Requests |-> 0]
  /\ settled = Undecided

-----------------------------------------------------------------------------

Begin(r) ==
  /\ step = "idle"
  /\ step' = "load"
  /\ task' = r
  /\ attempts' = 0
  /\ UNCHANGED <<cache, replay, claimed, newCalls, entry, made, settled>>

(* The task ends with an outcome that is not kept: an oversized request, a *)
(* corrupt entry, a miss without a provider, or the limit on new tasks.    *)
Refused ==
  \/ task \in Oversized
  \/ cache[task].kind = "corrupt"
  \/ cache[task].kind = "none" /\ replay
  \/ cache[task].kind = "none" /\ task \in CorrectionTasks /\ newCalls >= MaxNewCalls

Refuse ==
  /\ step = "load"
  /\ Refused
  /\ step' = "idle"
  /\ UNCHANGED <<cache, replay, claimed, newCalls, task, attempts, entry,
                 made, settled>>

(* A slip: a terminal outcome counts as a miss. *)
IsDecidedBySuccess == cache[task].kind = "success"

IsDecided == cache[task].kind \in {"success", "terminal"}

Seen(outcome) ==
  settled' = [settled EXCEPT ![task] = outcome]

(* A final entry is returned as it is. *)
Hit ==
  /\ step = "load"
  /\ ~Refused
  /\ IsDecided
  /\ Seen(OutcomeOf(cache[task]))
  /\ step' = "idle"
  /\ UNCHANGED <<cache, replay, claimed, newCalls, task, attempts, entry, made>>

Miss ==
  /\ step = "load"
  /\ ~Refused
  /\ ~IsDecided
  /\ newCalls' = IF task \in CorrectionTasks THEN newCalls + 1 ELSE newCalls
  /\ step' = "dispatch"
  /\ UNCHANGED <<cache, replay, claimed, task, attempts, entry, made, settled>>

-----------------------------------------------------------------------------
(***************************************************************************)
(* _dispatch.                                                              *)
(***************************************************************************)

(* What a failed dispatch leaves: nothing for the parser, which returns    *)
(* the failure; a terminal entry for a critic or a correction.  Its number *)
(* of observed attempts is not what happened but what the status suggests. *)
ObservedAttempts(status) ==
  IF status = "STRUCTURED_OUTPUT_ERROR" THEN 1 ELSE MaxAttempts

KeepFailure(status) ==
  \/ /\ task \in ParserTasks
     /\ entry' = entry
     /\ step' = "idle"
  \/ /\ task \in CorrectionTasks
     /\ entry' = Terminal(status, ObservedAttempts(status))
     /\ step' = "store"

(* A slip: the task waits until the budget allows another dispatch. *)
WaitForBudget ==
  /\ step = "dispatch"
  /\ claimed >= DispatchLimit
  /\ UNCHANGED vars

(* BudgetedProvider: the claim fails, and that is a provider error.        *)
OverBudget ==
  /\ step = "dispatch"
  /\ claimed >= DispatchLimit
  /\ KeepFailure("PROVIDER_ERROR")
  /\ UNCHANGED <<cache, replay, claimed, newCalls, task, attempts, made, settled>>

(* A slip: the claim is not checked. *)
ClaimUnchecked ==
  /\ claimed' = claimed + 1
  /\ attempts' = attempts + 1

Claim ==
  /\ claimed < DispatchLimit
  /\ claimed' = claimed + 1
  /\ attempts' = attempts + 1

(* The provider answers, and the content is checked against the schema.    *)
Respond ==
  /\ step = "dispatch"
  /\ Claim
  /\ \/ \E a \in Answers : entry' = Success(a)
     \/ entry' = Terminal("STRUCTURED_OUTPUT_ERROR", 1)
  /\ step' = "store"
  /\ UNCHANGED <<cache, replay, newCalls, task, made, settled>>

(* A timeout or a transient error is retried while attempts are left.      *)
Retry ==
  /\ step = "dispatch"
  /\ Claim
  /\ attempts' < MaxAttempts
  /\ UNCHANGED <<cache, replay, newCalls, step, task, entry, made, settled>>

(* A last timeout or transient error, or one that is not retried.          *)
Give(status) ==
  /\ step = "dispatch"
  /\ Claim
  /\ status = "TIMEOUT" => attempts' = MaxAttempts
  /\ KeepFailure(status)
  /\ UNCHANGED <<cache, replay, newCalls, task, made, settled>>

(* A slip: a failure is returned but not stored. *)
StoreSuccesses ==
  /\ step = "store"
  /\ cache' = IF entry.kind = "success" THEN [cache EXCEPT ![task] = entry] ELSE cache
  /\ made' = [made EXCEPT ![task] = attempts]
  /\ Seen(OutcomeOf(entry))
  /\ entry' = NoEntry
  /\ step' = "idle"
  /\ UNCHANGED <<replay, claimed, newCalls, task, attempts>>

(* The entry replaces the file in one step; then the task returns it.      *)
Store ==
  /\ step = "store"
  /\ cache' = [cache EXCEPT ![task] = entry]
  /\ made' = [made EXCEPT ![task] = attempts]
  /\ Seen(OutcomeOf(entry))
  /\ entry' = NoEntry
  /\ step' = "idle"
  /\ UNCHANGED <<replay, claimed, newCalls, task, attempts>>

(* The next run has a budget of its own.  If a task is in progress, it is  *)
(* lost: the process ended, or the file system refused the entry.          *)
NewRun ==
  /\ replay' \in BOOLEAN
  /\ claimed' = 0
  /\ newCalls' = 0
  /\ step' = "idle"
  /\ entry' = NoEntry
  /\ UNCHANGED <<cache, task, attempts, made, settled>>

Dispatch == OverBudget \/ Respond \/ Retry \/ \E s \in Failures : Give(s)

Next ==
  \/ \E r \in Requests : Begin(r)
  \/ Refuse
  \/ Hit
  \/ Miss
  \/ Dispatch
  \/ Store
  \/ NewRun

(* A task is a sequential call, and a provider call ends: the client has a *)
(* timeout.                                                                *)
Fairness ==
  /\ WF_vars(Refuse \/ Hit \/ Miss)
  /\ WF_vars(Dispatch)
  /\ WF_vars(Store)

Spec == Init /\ [][Next]_vars /\ Fairness
-----------------------------------------------------------------------------
(***************************************************************************)
(* Properties.                                                             *)
(***************************************************************************)

Entries ==
  {NoEntry, Corrupt, Unusable} \cup {Success(a) : a \in Answers}
    \cup {Terminal(s, n) : s \in Failures, n \in 0..MaxAttempts}

Outcomes == Answers \cup Failures

(* The type of the service's state.                                        *)
TypeOK ==
  /\ cache \in [Requests -> Entries]
  /\ replay \in BOOLEAN
  /\ claimed \in Nat
  /\ newCalls \in Nat
  /\ step \in {"idle", "load", "dispatch", "store"}
  /\ task \in Requests
  /\ attempts \in Nat
  /\ entry \in Entries
  /\ made \in [Requests -> Nat]
  /\ settled \in [Requests -> Outcomes \cup {"none"}]

(* The provider is called only for a request that has no file on disk, in  *)
(* a run that may call it, and never beyond the budget of the run or the   *)
(* attempts of the task: what is decided is never dispatched again,        *)
(* whatever crashed in between.                                            *)
CallsArePaidFor ==
  [][claimed' > claimed => /\ cache[task] = NoEntry
                           /\ ~replay
                           /\ claimed' <= DispatchLimit
                           /\ attempts' <= MaxAttempts]_vars

(* The outcome a caller saw as final is what every later caller sees, in   *)
(* this run, after a crash and in replay: generations are not repeated     *)
(* until one succeeds.                                                     *)
OutcomesAreReplayed ==
  [][\A r \in Requests : settled[r] # "none" => settled'[r] = settled[r]]_vars

(* What a caller saw is what the disk holds: nothing is reported as final  *)
(* that a crash can take back.                                             *)
SeenIsStored ==
  \A r \in Requests : settled[r] # "none" =>
    /\ cache[r].kind \in {"success", "terminal"}
    /\ settled[r] = OutcomeOf(cache[r])

(* A terminal entry has the attempts that were made as its evidence.       *)
EvidenceIsMeasured ==
  \A r \in Requests : cache[r].kind = "terminal" => cache[r].attempts = made[r]

(* A task returns: retrying ends.                                          *)
TaskReturns == step # "idle" ~> step = "idle"
=============================================================================
