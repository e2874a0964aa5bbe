-------------------------- MODULE CorrectionController --------------------------
(***************************************************************************)
(* ValidationCorrectionController._run: a candidate is validated, judged   *)
(* by a critic, corrected at most once, validated and judged again, and    *)
(* accepted, abstained from, or given up with an error.                    *)
(*                                                                         *)
(* Validation is a function of the candidate.  What a critic or a          *)
(* correction returns is up to the model behind the task service, so every *)
(* outcome the service can return is possible.  The machine's state is the *)
(* last element of its path; one action stands for a task and everything   *)
(* the controller does until the next one.                                 *)
(***************************************************************************)
EXTENDS Naturals, Sequences, FiniteSets

CONSTANT Candidates   \* what a parser or a correction may propose

ASSUME CandidatesAssumption == Candidates # {}

VARIABLES
  verdict,     \* candidate |-> what deterministic validation finds
  raw,         \* the raw candidate
  candidate,   \* the candidate in hand
  path,        \* the states the machine went through, RAW first
  seen,        \* candidates whose hash the machine has seen
  corrections, \* correction_attempts
  tasks,       \* outcomes of the tasks, in order
  decision     \* the decision, once there is one

machineVars == <<verdict, raw, candidate, path, seen, corrections, tasks, decision>>

-----------------------------------------------------------------------------

States == {"RAW", "VALIDATING", "NEEDS_CORRECTION", "CRITIQUING", "CORRECTING",
           "REVALIDATING", "FINAL_CRITIQUE", "ACCEPTED", "ABSTAINED", "ERROR"}

(* _ALLOWED_TRANSITIONS: any other one raises ControllerTransitionError.   *)
Allowed ==
  {<<"RAW", "VALIDATING">>,
   <<"VALIDATING", "NEEDS_CORRECTION">>, <<"VALIDATING", "CRITIQUING">>,
   <<"NEEDS_CORRECTION", "CORRECTING">>,
   <<"CRITIQUING", "ACCEPTED">>, <<"CRITIQUING", "CORRECTING">>,
   <<"CRITIQUING", "ABSTAINED">>, <<"CRITIQUING", "ERROR">>,
   <<"CORRECTING", "REVALIDATING">>, <<"CORRECTING", "ABSTAINED">>,
   <<"CORRECTING", "ERROR">>,
   <<"REVALIDATING", "FINAL_CRITIQUE">>, <<"REVALIDATING", "ABSTAINED">>,
   <<"FINAL_CRITIQUE", "ACCEPTED">>, <<"FINAL_CRITIQUE", "ABSTAINED">>,
   <<"FINAL_CRITIQUE", "ERROR">>}

Verdicts == {"valid", "coverage", "invalid"}

(* How a task ends: a failure of the provider or of its output, the limit  *)
(* on new calls, or a value.  A critic's report may cite unknown sources.  *)
ProviderFailures == {"STRUCTURED_OUTPUT_ERROR", "TIMEOUT", "PROVIDER_ERROR"}

Reports == {"accept", "revise", "unknown_source"}

NoDecision == [state |-> "none"]

State == path[Len(path)]

(* _decision. *)
Decide(states, c, deterministic, reason) ==
  /\ path' = path \o states
  /\ decision' = [state         |-> states[Len(states)],
                  candidate     |-> c,
                  deterministic |-> deterministic,
                  selective     |-> states[Len(states)] = "ACCEPTED",
                  reason        |-> reason]

Start(c, v) ==
  /\ verdict = v
  /\ raw = c
  /\ candidate = c
  /\ path = <<"RAW">>
  /\ seen = {c}
  /\ corrections = 0
  /\ tasks = <<>>
  /\ decision = NoDecision

-----------------------------------------------------------------------------

(* start_correction raises after the first one. *)
StartCorrection == corrections' = corrections + 1

Validate ==
  /\ State = "RAW"
  /\ \/ /\ verdict[raw] = "valid"
        /\ path' = path \o <<"VALIDATING", "CRITIQUING">>
        /\ UNCHANGED corrections
     \/ /\ verdict[raw] # "valid"
        /\ path' = path \o <<"VALIDATING", "NEEDS_CORRECTION", "CORRECTING">>
        /\ StartCorrection
  /\ UNCHANGED <<verdict, raw, candidate, seen, tasks, decision>>

Record(kind, end) ==
  tasks' = Append(tasks, [kind |-> kind, about |-> candidate, end |-> end])

(* A slip: P1 is told that it may answer. *)
CritiqueFailsOpen ==
  \E f \in ProviderFailures :
    /\ Record("critic", f)
    /\ Decide(<<"ERROR">>, candidate, TRUE, f)

(* The ends of a critique that no other critique changes: the provider     *)
(* fails, the limit is reached, or the report is not about this input.     *)
CritiqueFails ==
  \/ \E f \in ProviderFailures :
       /\ Record("critic", f)
       /\ Decide(<<"ERROR">>, candidate, FALSE, f)
  \/ /\ Record("critic", "RESOURCE_LIMIT")
     /\ Decide(<<"ABSTAINED">>, candidate, TRUE, "RESOURCE_LIMIT")
  \/ /\ Record("critic", "unknown_source")
     /\ Decide(<<"ABSTAINED">>, candidate, TRUE, "RELIABILITY_GATE_FAILED")

CriticAccepts ==
  /\ Record("critic", "accept")
  /\ Decide(<<"ACCEPTED">>, candidate, TRUE, "none")

FirstCritique ==
  /\ State = "CRITIQUING"
  /\ \/ (CritiqueFails \/ CriticAccepts) /\ UNCHANGED corrections
     \/ /\ Record("critic", "revise")
        /\ path' = Append(path, "CORRECTING")
        /\ StartCorrection
        /\ UNCHANGED decision
  /\ UNCHANGED <<verdict, raw, candidate, seen>>

(* _invalid_reason. *)
InvalidReason(c) ==
  IF verdict[c] = "coverage" THEN "INCOMPLETE_SOURCE_COVERAGE" ELSE "INVALID"

(* A slip: a candidate that was seen before is taken up again. *)
IsNewCandidate(c) == TRUE

IsProgress(c) == c \notin seen

(* A slip: the corrected candidate is not validated again. *)
ReceiveUnchecked(c) ==
  /\ seen' = seen \cup {c}
  /\ candidate' = c
  /\ path' = path \o <<"REVALIDATING", "FINAL_CRITIQUE">>
  /\ UNCHANGED decision

(* The corrected candidate, when it is a new one, is validated. *)
Receive(c) ==
  /\ seen' = seen \cup {c}
  /\ candidate' = c
  /\ \/ /\ verdict[c] = "valid"
        /\ path' = path \o <<"REVALIDATING", "FINAL_CRITIQUE">>
        /\ UNCHANGED decision
     \/ /\ verdict[c] # "valid"
        /\ Decide(<<"REVALIDATING", "ABSTAINED">>, c, FALSE, InvalidReason(c))

Correct ==
  /\ State = "CORRECTING"
  /\ \/ \E f \in ProviderFailures :
          /\ Record("correction", f)
          /\ Decide(<<"ERROR">>, "none", FALSE, f)
          /\ UNCHANGED <<candidate, seen>>
     \/ /\ Record("correction", "RESOURCE_LIMIT")
        /\ Decide(<<"ABSTAINED">>, "none", FALSE, "RESOURCE_LIMIT")
        /\ UNCHANGED <<candidate, seen>>
     \/ \E c \in Candidates :
          /\ Record("correction", "value")
          /\ \/ /\ ~IsProgress(c)
                /\ Decide(<<"ABSTAINED">>, c, FALSE, "NO_CORRECTION_PROGRESS")
                /\ UNCHANGED <<candidate, seen>>
             \/ /\ IsProgress(c)
                /\ Receive(c)
  /\ UNCHANGED <<verdict, raw, corrections>>

CriticRejects ==
  /\ Record("critic", "revise")
  /\ Decide(<<"ABSTAINED">>, candidate, TRUE, "CRITIC_REJECTED")

FinalCritique ==
  /\ State = "FINAL_CRITIQUE"
  /\ CritiqueFails \/ CriticAccepts \/ CriticRejects
  /\ UNCHANGED <<verdict, raw, candidate, seen, corrections>>

Control == Validate \/ FirstCritique \/ Correct \/ FinalCritique

-----------------------------------------------------------------------------

Init == \E c \in Candidates, v \in [Candidates -> Verdicts] : Start(c, v)

Decided ==
  /\ decision # NoDecision
  /\ UNCHANGED machineVars

Next == Control \/ Decided

(* _run is a sequential call whose tasks return. *)
Fairness == WF_machineVars(Control)

Spec == Init /\ [][Next]_machineVars /\ Fairness
-----------------------------------------------------------------------------
(***************************************************************************)
(* Properties.                                                             *)
(***************************************************************************)

(* The controller never asks its state machine for a transition that the   *)
(* table refuses, nor for a second correction: neither can raise.  One     *)
(* correction and two critics at most, and never two critics of the same   *)
(* candidate: a request is not repeated to get another opinion.            *)
TasksAreBounded ==
  /\ \A k \in 1..Len(path) - 1 : <<path[k], path[k+1]>> \in Allowed
  /\ corrections <= 1
  /\ Len(tasks) <= 3
  /\ \A j, k \in 1..Len(tasks) :
       /\ tasks[j].kind = tasks[k].kind
       /\ tasks[j].about = tasks[k].about
       => j = k

(* P2.  What is accepted validates, and the last task is a critic's        *)
(* acceptance of this very candidate, not of the one before correction.    *)
AcceptedWasJudged ==
  decision # NoDecision /\ decision.selective =>
    /\ verdict[decision.candidate] = "valid"
    /\ tasks # <<>>
    /\ tasks[Len(tasks)] = [kind  |-> "critic",
                            about |-> decision.candidate,
                            end   |-> "accept"]

(* P1.  What P1 may answer from validates, and is the corrected candidate  *)
(* if there was a correction; no failure of a provider is answered from.   *)
CorrectedIsValid ==
  decision # NoDecision /\ decision.deterministic =>
    /\ verdict[decision.candidate] = "valid"
    /\ corrections = 1 => decision.candidate # raw
    /\ \A k \in 1..Len(tasks) : tasks[k].end \notin ProviderFailures

(* What either policy may answer from was earned by this very candidate,   *)
(* after whatever correction there was.                                    *)
DecisionStands == AcceptedWasJudged /\ CorrectedIsValid
=============================================================================
