---------------------------- MODULE Pipeline_proofs ----------------------------
(***************************************************************************)
(* Proofs about the correction controller and the pipeline around it, for  *)
(* any set of candidates.                                                  *)
(***************************************************************************)
EXTENDS Pipeline, SequenceTheorems, TLAPS

Step(a, b) == <<a, b>> \in Allowed

Chain(s) == \A k \in 1..Len(s) - 1 : Step(s[k], s[k+1])

Task == [kind  : {"critic", "correction"},
         about : Candidates,
         end   : Reports \cup TaskFailures \cup {"value"}]

(* No task is repeated, and none failed with its provider.                 *)
Unrepeated(ts) ==
  \A j, k \in 1..Len(ts) : ts[j].kind = ts[k].kind /\ ts[j].about = ts[k].about => j = k

Clean(ts) == \A k \in 1..Len(ts) : ts[k].end \notin ProviderFailures

MachineType ==
  /\ verdict \in [Candidates -> Verdicts]
  /\ raw \in Candidates /\ candidate \in Candidates
  /\ path \in Seq(States) /\ Len(path) > 0 /\ Chain(path)
  /\ corrections \in {0, 1}
  /\ tasks \in Seq(Task) /\ Unrepeated(tasks)

(* Where the machine can be between two tasks, with what it did so far.    *)
Undecided ==
  /\ decision = NoDecision /\ Clean(tasks)
  /\ \A k \in 1..Len(tasks) : tasks[k].about = raw
  /\ \/ /\ State \in {"RAW", "CRITIQUING"}
        /\ corrections = 0 /\ candidate = raw /\ seen = {raw} /\ Len(tasks) = 0
        /\ State = "CRITIQUING" => verdict[raw] = "valid"
     \/ /\ State = "CORRECTING"
        /\ corrections = 1 /\ candidate = raw /\ seen = {raw} /\ Len(tasks) <= 1
        /\ \A k \in 1..Len(tasks) : tasks[k].kind = "critic"
     \/ /\ State = "FINAL_CRITIQUE"
        /\ corrections = 1 /\ candidate # raw /\ Len(tasks) <= 2
        /\ verdict[candidate] = "valid"

(* A decision is an error exactly when a provider failed.                  *)
FromTasks(d) ==
  /\ d.state \in {"ACCEPTED", "ABSTAINED", "ERROR"}
  /\ d.selective = (d.state = "ACCEPTED")
  /\ d.deterministic \in BOOLEAN
  /\ d.deterministic => d.state # "ERROR"
  /\ d.state = "ACCEPTED" => d.deterministic

DecisionIsFinal ==
  /\ State \in {"ACCEPTED", "ABSTAINED", "ERROR"}
  /\ FromTasks(decision)
  /\ Len(tasks) \in 1..3
  /\ decision.state = "ERROR" <=> ~Clean(tasks)
  /\ decision.deterministic =>
       /\ verdict[decision.candidate] = "valid"
       /\ corrections = 1 => decision.candidate # raw
  /\ decision.state = "ACCEPTED" =>
       tasks[Len(tasks)] = [kind |-> "critic", about |-> decision.candidate, end |-> "accept"]

MachineInv == MachineType /\ (Undecided \/ DecisionIsFinal)

-----------------------------------------------------------------------------
(***************************************************************************)
(* Paths and tasks.                                                        *)
(***************************************************************************)

(* Two walks through the table are one when the table has the step between.*)
LEMMA Joined ==
  ASSUME NEW s \in Seq(States), NEW t \in Seq(States), Len(s) > 0, Len(t) > 0,
         Chain(s), Chain(t), Step(s[Len(s)], t[1])
  PROVE  /\ s \o t \in Seq(States) /\ Len(s \o t) > 0 /\ Chain(s \o t)
         /\ (s \o t)[Len(s \o t)] = t[Len(t)]
<1>1. /\ s \o t \in Seq(States) /\ Len(s \o t) = Len(s) + Len(t)
      /\ Len(s) \in Nat /\ Len(t) \in Nat
      /\ \A k \in 1..Len(s) + Len(t) :
           (s \o t)[k] = IF k <= Len(s) THEN s[k] ELSE t[k - Len(s)]
  BY ConcatProperties, LenProperties
<1>2. Chain(s \o t)
  <2> SUFFICES ASSUME NEW k \in 1..Len(s) + Len(t) - 1
               PROVE  Step((s \o t)[k], (s \o t)[k+1])
    BY <1>1 DEF Chain
  <2>0. k \in Nat /\ k >= 1 /\ k < Len(s) + Len(t)
    BY <1>1
  <2>1. CASE k < Len(s)
    <3>1. k \in 1..Len(s) - 1
      BY <1>1, <2>0, <2>1
    <3>2. Step(s[k], s[k + 1])
      BY <3>1 DEF Chain
    <3>3. (s \o t)[k] = s[k] /\ (s \o t)[k + 1] = s[k + 1]
      BY <1>1, <3>1
    <3> QED  BY <3>2, <3>3
  <2>2. CASE k = Len(s)
    <3>1. (s \o t)[k] = s[Len(s)]
      BY <1>1, <2>0, <2>2
    <3>2. (s \o t)[k + 1] = t[1]
      <4>1. (k + 1) - Len(s) = 1 /\ k + 1 \in 1..Len(s) + Len(t) /\ ~(k + 1 <= Len(s))
        BY <1>1, <2>0, <2>2
      <4> QED  BY <1>1, <4>1
    <3> QED  BY <3>1, <3>2
  <2>3. CASE k > Len(s)
    <3>1. k - Len(s) \in 1..Len(t) - 1 /\ (k + 1) - Len(s) = (k - Len(s)) + 1
      BY <1>1, <2>3
    <3>2. Step(t[k - Len(s)], t[(k - Len(s)) + 1])
      BY <3>1 DEF Chain
    <3>3. (s \o t)[k] = t[k - Len(s)] /\ (s \o t)[k + 1] = t[(k + 1) - Len(s)]
      BY <1>1, <2>3
    <3> QED  BY <3>1, <3>2, <3>3
  <2> QED  BY <1>1, <2>0, <2>1, <2>2, <2>3
<1>3. (s \o t)[Len(s \o t)] = t[Len(t)]
  BY <1>1
<1> QED  BY <1>1, <1>2, <1>3

LEMMA JoinedOne ==
  ASSUME NEW s \in Seq(States), Len(s) > 0, Chain(s), NEW a \in States,
         Step(s[Len(s)], a)
  PROVE  /\ s \o <<a>> \in Seq(States) /\ Len(s \o <<a>>) > 0 /\ Chain(s \o <<a>>)
         /\ (s \o <<a>>)[Len(s \o <<a>>)] = a
<1> DEFINE t == <<a>>
<1>1. t \in Seq(States) /\ Len(t) = 1 /\ t[1] = a
  OBVIOUS
<1>2. Chain(t)
  BY <1>1 DEF Chain
<1> HIDE DEF t
<1>4. Len(t) > 0 /\ Step(s[Len(s)], t[1])
  BY <1>1
<1>3. /\ s \o t \in Seq(States) /\ Len(s \o t) > 0 /\ Chain(s \o t)
      /\ (s \o t)[Len(s \o t)] = t[Len(t)]
  BY <1>1, <1>2, <1>4, Joined
<1> QED  BY <1>1, <1>3 DEF t

LEMMA JoinedTwo ==
  ASSUME NEW s \in Seq(States), Len(s) > 0, Chain(s), NEW a \in States, NEW b \in States,
         Step(s[Len(s)], a), Step(a, b)
  PROVE  /\ s \o <<a, b>> \in Seq(States) /\ Len(s \o <<a, b>>) > 0 /\ Chain(s \o <<a, b>>)
         /\ (s \o <<a, b>>)[Len(s \o <<a, b>>)] = b
<1> DEFINE t == <<a, b>>
<1>1. t \in Seq(States) /\ Len(t) = 2 /\ t[1] = a /\ t[2] = b
  OBVIOUS
<1>2. Chain(t)
  <2> HIDE DEF t
  <2>1. \A k \in 1..Len(t) - 1 : k = 1 /\ k + 1 = 2
    BY <1>1
  <2>2. Step(t[1], t[2])
    BY <1>1
  <2> QED  BY <2>1, <2>2 DEF Chain
<1> HIDE DEF t
<1>4. Len(t) > 0 /\ Step(s[Len(s)], t[1])
  BY <1>1
<1>3. /\ s \o t \in Seq(States) /\ Len(s \o t) > 0 /\ Chain(s \o t)
      /\ (s \o t)[Len(s \o t)] = t[Len(t)]
  BY <1>1, <1>2, <1>4, Joined
<1> QED  BY <1>1, <1>3 DEF t

LEMMA JoinedThree ==
  ASSUME NEW s \in Seq(States), Len(s) > 0, Chain(s),
         NEW a \in States, NEW b \in States, NEW c \in States,
         Step(s[Len(s)], a), Step(a, b), Step(b, c)
  PROVE  /\ s \o <<a, b, c>> \in Seq(States) /\ Len(s \o <<a, b, c>>) > 0
         /\ Chain(s \o <<a, b, c>>)
         /\ (s \o <<a, b, c>>)[Len(s \o <<a, b, c>>)] = c
<1> DEFINE t == <<a, b, c>>
<1>1. t \in Seq(States) /\ Len(t) = 3 /\ t[1] = a /\ t[2] = b /\ t[3] = c
  OBVIOUS
<1>2. Chain(t)
  <2> HIDE DEF t
  <2>1. \A k \in 1..Len(t) - 1 : (k = 1 /\ k + 1 = 2) \/ (k = 2 /\ k + 1 = 3)
    BY <1>1
  <2>2. Step(t[1], t[2]) /\ Step(t[2], t[3])
    BY <1>1
  <2> QED  BY <2>1, <2>2 DEF Chain
<1> HIDE DEF t
<1>4. Len(t) > 0 /\ Step(s[Len(s)], t[1])
  BY <1>1
<1>3. /\ s \o t \in Seq(States) /\ Len(s \o t) > 0 /\ Chain(s \o t)
      /\ (s \o t)[Len(s \o t)] = t[Len(t)]
  BY <1>1, <1>2, <1>4, Joined
<1> QED  BY <1>1, <1>3 DEF t

(* A task that was not done before is added. *)
LEMMA Recorded ==
  ASSUME MachineType, NEW kind \in {"critic", "correction"},
         NEW end \in Reports \cup TaskFailures \cup {"value"}, Record(kind, end),
         \A k \in 1..Len(tasks) : ~(tasks[k].kind = kind /\ tasks[k].about = candidate)
  PROVE  /\ tasks' \in Seq(Task) /\ Len(tasks') = Len(tasks) + 1 /\ Len(tasks) \in Nat
         /\ \A k \in 1..Len(tasks) : tasks'[k] = tasks[k]
         /\ tasks'[Len(tasks')] = [kind |-> kind, about |-> candidate, end |-> end]
         /\ Unrepeated(tasks')
         /\ Clean(tasks') <=> (Clean(tasks) /\ end \notin ProviderFailures)
<1> DEFINE t == [kind |-> kind, about |-> candidate, end |-> end]
<1>1. t \in Task /\ t.kind = kind /\ t.about = candidate /\ t.end = end
  BY DEF Task, MachineType
<1>2. tasks' = Append(tasks, t) /\ tasks \in Seq(Task)
  BY DEF Record, MachineType
<1> HIDE DEF t
<1>3. /\ tasks' \in Seq(Task) /\ Len(tasks') = Len(tasks) + 1 /\ Len(tasks) \in Nat
      /\ \A k \in 1..Len(tasks) : tasks'[k] = tasks[k]
      /\ tasks'[Len(tasks) + 1] = t
  BY <1>1, <1>2, AppendProperties, LenProperties
<1>4. Unrepeated(tasks')
  <2> SUFFICES ASSUME NEW j \in 1..Len(tasks) + 1, NEW k \in 1..Len(tasks) + 1,
                      tasks'[j].kind = tasks'[k].kind, tasks'[j].about = tasks'[k].about
               PROVE  j = k
    BY <1>3 DEF Unrepeated
  <2>1. CASE j \in 1..Len(tasks) /\ k \in 1..Len(tasks)
    BY <1>3, <2>1 DEF MachineType, Unrepeated
  <2>2. CASE j \in 1..Len(tasks) /\ k = Len(tasks) + 1
    BY <1>1, <1>3, <2>2
  <2>3. CASE j = Len(tasks) + 1 /\ k \in 1..Len(tasks)
    BY <1>1, <1>3, <2>3
  <2> QED  BY <1>3, <2>1, <2>2, <2>3
<1>5. Clean(tasks') <=> (Clean(tasks) /\ end \notin ProviderFailures)
  BY <1>1, <1>3 DEF Clean
<1> QED  BY <1>3, <1>4, <1>5 DEF t

-----------------------------------------------------------------------------
(***************************************************************************)
(* The steps of the controller.                                            *)
(***************************************************************************)

Final == {"ACCEPTED", "ABSTAINED", "ERROR"}

(* A task ends, and with it the run of the controller. *)
LEMMA Ending ==
  ASSUME MachineType, Undecided, Len(tasks) <= 2,
         NEW kind \in {"critic", "correction"},
         NEW end \in Reports \cup TaskFailures \cup {"value"}, Record(kind, end),
         \A k \in 1..Len(tasks) : ~(tasks[k].kind = kind /\ tasks[k].about = candidate),
         NEW x \in Final, NEW c, NEW det \in BOOLEAN, NEW reason,
         path' \in Seq(States) /\ Len(path') > 0 /\ Chain(path'), State' = x,
         decision' = [state |-> x, candidate |-> c, deterministic |-> det,
                      selective |-> x = "ACCEPTED", reason |-> reason],
         x = "ERROR" <=> end \in ProviderFailures,
         det => /\ x # "ERROR" /\ verdict[c] = "valid"
                /\ corrections = 1 => c # raw,
         x = "ACCEPTED" => det /\ kind = "critic" /\ end = "accept" /\ c = candidate,
         UNCHANGED <<verdict, raw, corrections>>, candidate' \in Candidates
  PROVE  MachineInv'
<1>1. /\ tasks' \in Seq(Task) /\ Len(tasks') = Len(tasks) + 1 /\ Len(tasks) \in Nat
      /\ tasks'[Len(tasks')] = [kind |-> kind, about |-> candidate, end |-> end]
      /\ Unrepeated(tasks')
      /\ Clean(tasks') <=> (Clean(tasks) /\ end \notin ProviderFailures)
  BY Recorded
<1>2. Clean(tasks) /\ Len(tasks') \in 1..3
  BY <1>1 DEF Undecided
<1>3. MachineType'
  BY <1>1 DEF MachineType
<1>4. /\ decision'.state = x /\ decision'.candidate = c /\ decision'.deterministic = det
      /\ decision'.selective = (x = "ACCEPTED")
  OBVIOUS
<1>5. FromTasks(decision)'
  BY <1>4 DEF FromTasks, Final
<1>6. decision'.state = "ERROR" <=> ~Clean(tasks')
  BY <1>1, <1>2, <1>4
<1>7. /\ decision'.deterministic =>
           /\ verdict'[decision'.candidate] = "valid"
           /\ corrections' = 1 => decision'.candidate # raw'
      /\ decision'.state = "ACCEPTED" =>
           tasks'[Len(tasks')] = [kind  |-> "critic", about |-> decision'.candidate,
                                  end   |-> "accept"]
  BY <1>1, <1>4
<1>8. DecisionIsFinal'
  BY <1>2, <1>5, <1>6, <1>7 DEF DecisionIsFinal, Final
<1> QED  BY <1>3, <1>8 DEF MachineInv

LEMMA DecideOne ==
  ASSUME MachineType, NEW x \in Final, NEW c, NEW det, NEW reason,
         Decide(<<x>>, c, det, reason), Step(State, x)
  PROVE  /\ path' \in Seq(States) /\ Len(path') > 0 /\ Chain(path') /\ State' = x
         /\ decision' = [state |-> x, candidate |-> c, deterministic |-> det,
                         selective |-> x = "ACCEPTED", reason |-> reason]
<1>1. x \in States /\ path' = path \o <<x>> /\ Step(path[Len(path)], x)
  BY DEF Decide, Final, States, State
<1>2. /\ path \o <<x>> \in Seq(States) /\ Len(path \o <<x>>) > 0 /\ Chain(path \o <<x>>)
      /\ (path \o <<x>>)[Len(path \o <<x>>)] = x
  BY <1>1, JoinedOne DEF MachineType
<1>3. decision' = [state |-> x, candidate |-> c, deterministic |-> det,
                   selective |-> x = "ACCEPTED", reason |-> reason]
  BY DEF Decide
<1> QED  BY <1>1, <1>2, <1>3 DEF State

LEMMA Steps ==
  /\ Step("RAW", "VALIDATING") /\ Step("VALIDATING", "CRITIQUING")
  /\ Step("VALIDATING", "NEEDS_CORRECTION") /\ Step("NEEDS_CORRECTION", "CORRECTING")
  /\ Step("CRITIQUING", "CORRECTING") /\ Step("CORRECTING", "REVALIDATING")
  /\ Step("REVALIDATING", "ABSTAINED") /\ Step("REVALIDATING", "FINAL_CRITIQUE")
  /\ \A x \in Final : Step("CRITIQUING", x) /\ Step("FINAL_CRITIQUE", x)
  /\ Step("CORRECTING", "ABSTAINED") /\ Step("CORRECTING", "ERROR")
BY DEF Step, Allowed, Final

LEMMA ValidateKeeps ==
  ASSUME MachineInv, Validate
  PROVE  MachineInv'
<1>1. /\ MachineType /\ State = "RAW" /\ path[Len(path)] = "RAW"
      /\ decision = NoDecision /\ Clean(tasks) /\ corrections = 0 /\ candidate = raw
      /\ seen = {raw} /\ Len(tasks) = 0
      /\ UNCHANGED <<verdict, raw, candidate, seen, tasks, decision>>
  BY DEF MachineInv, Undecided, DecisionIsFinal, Validate, State
<1>2. CASE verdict[raw] = "valid" /\ path' = path \o <<"VALIDATING", "CRITIQUING">>
           /\ UNCHANGED corrections
  <2>1. "VALIDATING" \in States /\ "CRITIQUING" \in States
    BY DEF States
  <2>2. path' \in Seq(States) /\ Len(path') > 0 /\ Chain(path') /\ State' = "CRITIQUING"
    BY <1>1, <1>2, <2>1, JoinedTwo, Steps DEF MachineType, State
  <2>3. MachineType'
    BY <1>1, <1>2, <2>2 DEF MachineType
  <2>4. Undecided'
    BY <1>1, <1>2, <2>2 DEF Undecided
  <2> QED  BY <2>3, <2>4 DEF MachineInv
<1>3. CASE path' = path \o <<"VALIDATING", "NEEDS_CORRECTION", "CORRECTING">>
           /\ StartCorrection
  <2>1. "VALIDATING" \in States /\ "NEEDS_CORRECTION" \in States /\ "CORRECTING" \in States
    BY DEF States
  <2>2. path' \in Seq(States) /\ Len(path') > 0 /\ Chain(path') /\ State' = "CORRECTING"
    BY <1>1, <1>3, <2>1, JoinedThree, Steps DEF MachineType, State
  <2>3. MachineType' /\ corrections' = 1
    BY <1>1, <1>3, <2>2 DEF MachineType, StartCorrection
  <2>4. Undecided'
    BY <1>1, <1>3, <2>2, <2>3 DEF Undecided
  <2> QED  BY <2>3, <2>4 DEF MachineInv
<1> QED  BY <1>2, <1>3 DEF Validate

(* A critique that ends the run. *)
LEMMA CritiqueEnds ==
  ASSUME MachineType, Undecided, State \in {"CRITIQUING", "FINAL_CRITIQUE"},
         CritiqueFails \/ CriticAccepts \/ (State = "FINAL_CRITIQUE" /\ CriticRejects),
         UNCHANGED <<verdict, raw, candidate, corrections>>
  PROVE  MachineInv'
<1>1. /\ Len(tasks) <= 2 /\ verdict[candidate] = "valid"
      /\ corrections = 1 => candidate # raw
      /\ \A k \in 1..Len(tasks) : ~(tasks[k].kind = "critic" /\ tasks[k].about = candidate)
      /\ candidate' \in Candidates
  BY DEF Undecided, MachineType
<1>2. ASSUME NEW end \in Reports \cup TaskFailures, NEW x \in Final, NEW det \in BOOLEAN,
             NEW reason, Record("critic", end), Decide(<<x>>, candidate, det, reason),
             x = "ERROR" <=> end \in ProviderFailures, det => x # "ERROR",
             x = "ACCEPTED" => det /\ end = "accept"
      PROVE  MachineInv'
  <2>1. Step(State, x)
    BY Steps
  <2>2. /\ path' \in Seq(States) /\ Len(path') > 0 /\ Chain(path') /\ State' = x
        /\ decision' = [state |-> x, candidate |-> candidate, deterministic |-> det,
                        selective |-> x = "ACCEPTED", reason |-> reason]
    BY <1>2, <2>1, DecideOne
  <2> QED  BY <1>1, <1>2, <2>2, Ending
<1>3. CASE CritiqueFails
  <2>1. ASSUME NEW f \in ProviderFailures, Record("critic", f),
               Decide(<<"ERROR">>, candidate, FALSE, f)
        PROVE  MachineInv'
    <3>1. f \in TaskFailures /\ "ERROR" \in Final
      BY DEF TaskFailures, Final
    <3> QED  BY <1>2, <2>1, <3>1
  <2>2. CASE Record("critic", "RESOURCE_LIMIT")
             /\ Decide(<<"ABSTAINED">>, candidate, TRUE, "RESOURCE_LIMIT")
    <3>1. /\ "RESOURCE_LIMIT" \in TaskFailures /\ "RESOURCE_LIMIT" \notin ProviderFailures
          /\ "ABSTAINED" \in Final
      BY DEF TaskFailures, Final, ProviderFailures
    <3> QED  BY <1>2, <2>2, <3>1
  <2>3. CASE Record("critic", "unknown_source")
             /\ Decide(<<"ABSTAINED">>, candidate, TRUE, "RELIABILITY_GATE_FAILED")
    <3>1. /\ "unknown_source" \in Reports /\ "unknown_source" \notin ProviderFailures
          /\ "ABSTAINED" \in Final
      BY DEF Reports, Final, ProviderFailures
    <3> QED  BY <1>2, <2>3, <3>1
  <2> QED  BY <1>3, <2>1, <2>2, <2>3 DEF CritiqueFails
<1>4. CASE CriticAccepts
  <2>1. "accept" \in Reports /\ "accept" \notin ProviderFailures /\ "ACCEPTED" \in Final
    BY DEF Reports, Final, ProviderFailures
  <2> QED  BY <1>2, <1>4, <2>1 DEF CriticAccepts
<1>5. CASE CriticRejects
  <2>1. "revise" \in Reports /\ "revise" \notin ProviderFailures /\ "ABSTAINED" \in Final
    BY DEF Reports, Final, ProviderFailures
  <2> QED  BY <1>2, <1>5, <2>1 DEF CriticRejects
<1> QED  BY <1>3, <1>4, <1>5

LEMMA FirstCritiqueKeeps ==
  ASSUME MachineInv, FirstCritique
  PROVE  MachineInv'
<1>1. /\ MachineType /\ Undecided /\ State = "CRITIQUING" /\ path[Len(path)] = "CRITIQUING"
      /\ UNCHANGED <<verdict, raw, candidate, seen>>
  BY DEF MachineInv, Undecided, DecisionIsFinal, FirstCritique, State
<1>2. CASE (CritiqueFails \/ CriticAccepts) /\ UNCHANGED corrections
  BY <1>1, <1>2, CritiqueEnds
<1>3. CASE /\ Record("critic", "revise")
           /\ path' = Append(path, "CORRECTING")
           /\ StartCorrection
           /\ UNCHANGED decision
  <2>1. /\ decision = NoDecision /\ Clean(tasks) /\ corrections = 0 /\ candidate = raw
        /\ seen = {raw} /\ Len(tasks) = 0
    BY <1>1 DEF Undecided
  <2>2. path' \in Seq(States) /\ Len(path') > 0 /\ Chain(path') /\ State' = "CORRECTING"
    <3>1. "CORRECTING" \in States /\ path \in Seq(States)
      BY <1>1 DEF States, MachineType
    <3>2. path' = path \o <<"CORRECTING">>
      BY <1>3, <3>1, AppendIsConcat
    <3> QED  BY <1>1, <3>1, <3>2, JoinedOne, Steps DEF MachineType, State
  <2>3. "revise" \in Reports /\ "revise" \notin ProviderFailures
    BY DEF Reports, ProviderFailures
  <2>4. /\ tasks' \in Seq(Task) /\ Len(tasks') = 1 /\ Unrepeated(tasks') /\ Clean(tasks')
        /\ tasks'[Len(tasks')] = [kind |-> "critic", about |-> raw, end |-> "revise"]
    <3>1. \A k \in 1..Len(tasks) : ~(tasks[k].kind = "critic" /\ tasks[k].about = candidate)
      BY <2>1
    <3> QED  BY <1>1, <1>3, <2>1, <2>3, <3>1, Recorded
  <2>5. \A k \in 1..Len(tasks') : tasks'[k].about = raw /\ tasks'[k].kind = "critic"
    BY <2>4
  <2>6. MachineType' /\ corrections' = 1
    BY <1>1, <1>3, <2>1, <2>2, <2>4 DEF MachineType, StartCorrection
  <2>7. Undecided'
    BY <1>1, <1>3, <2>1, <2>2, <2>4, <2>5, <2>6 DEF Undecided
  <2> QED  BY <2>6, <2>7 DEF MachineInv
<1> QED  BY <1>2, <1>3 DEF FirstCritique

LEMMA CorrectKeeps ==
  ASSUME MachineInv, Correct
  PROVE  MachineInv'
<1>1. /\ MachineType /\ Undecided /\ State = "CORRECTING" /\ path[Len(path)] = "CORRECTING"
      /\ UNCHANGED <<verdict, raw, corrections>>
  BY DEF MachineInv, Undecided, DecisionIsFinal, Correct, State
<1>2. /\ corrections = 1 /\ candidate = raw /\ seen = {raw} /\ Len(tasks) <= 1
      /\ \A k \in 1..Len(tasks) : tasks[k].about = raw /\ tasks[k].kind = "critic"
      /\ Clean(tasks) /\ Len(tasks) \in Nat
  BY <1>1 DEF Undecided, MachineType
<1>3. \A k \in 1..Len(tasks) : ~(tasks[k].kind = "correction" /\ tasks[k].about = candidate)
  BY <1>2
<1>4. ASSUME NEW end \in TaskFailures \cup {"value"}, NEW x \in {"ABSTAINED", "ERROR"}, NEW c,
             NEW reason, Record("correction", end), Decide(<<x>>, c, FALSE, reason),
             x = "ERROR" <=> end \in ProviderFailures, UNCHANGED candidate
      PROVE  MachineInv'
  <2>1. Step(State, x) /\ x \in Final /\ x # "ACCEPTED"
    BY <1>1, Steps DEF Final
  <2>2. /\ path' \in Seq(States) /\ Len(path') > 0 /\ Chain(path') /\ State' = x
        /\ decision' = [state |-> x, candidate |-> c, deterministic |-> FALSE,
                        selective |-> x = "ACCEPTED", reason |-> reason]
    BY <1>1, <1>4, <2>1, DecideOne
  <2>3. candidate' \in Candidates
    BY <1>1, <1>4 DEF MachineType
  <2>4. end \in Reports \cup TaskFailures \cup {"value"} /\ Len(tasks) <= 2
    BY <1>2
  <2> QED  BY <1>1, <1>3, <1>4, <2>1, <2>2, <2>3, <2>4, Ending
<1>5. ASSUME NEW f \in ProviderFailures, Record("correction", f),
             Decide(<<"ERROR">>, "none", FALSE, f), UNCHANGED candidate
      PROVE  MachineInv'
  BY <1>4, <1>5 DEF TaskFailures
<1>6. CASE /\ Record("correction", "RESOURCE_LIMIT")
           /\ Decide(<<"ABSTAINED">>, "none", FALSE, "RESOURCE_LIMIT")
           /\ UNCHANGED candidate
  <2>1. "RESOURCE_LIMIT" \in TaskFailures /\ "RESOURCE_LIMIT" \notin ProviderFailures
    BY DEF TaskFailures, ProviderFailures
  <2> QED  BY <1>4, <1>6, <2>1
<1>7. "value" \notin ProviderFailures
  BY DEF ProviderFailures
<1>8. ASSUME NEW c \in Candidates, Record("correction", "value"),
             Decide(<<"ABSTAINED">>, c, FALSE, "NO_CORRECTION_PROGRESS"), UNCHANGED candidate
      PROVE  MachineInv'
  BY <1>4, <1>7, <1>8
<1>9. ASSUME NEW c \in Candidates, Record("correction", "value"), IsProgress(c), Receive(c)
      PROVE  MachineInv'
  <2>1. c # raw /\ candidate' = c
    BY <1>2, <1>9 DEF IsProgress, Receive
  <2>2. "REVALIDATING" \in States /\ "ABSTAINED" \in States /\ "FINAL_CRITIQUE" \in States
    BY DEF States
  <2>5. "value" \in Reports \cup TaskFailures \cup {"value"} /\ Len(tasks) <= 2
    BY <1>2
  <2>3. CASE verdict[c] = "valid" /\ UNCHANGED decision
             /\ path' = path \o <<"REVALIDATING", "FINAL_CRITIQUE">>
    <3>1. path' \in Seq(States) /\ Len(path') > 0 /\ Chain(path') /\ State' = "FINAL_CRITIQUE"
      BY <1>1, <2>2, <2>3, JoinedTwo, Steps DEF MachineType, State
    <3>2. /\ tasks' \in Seq(Task) /\ Len(tasks') = Len(tasks) + 1
          /\ Unrepeated(tasks') /\ Clean(tasks')
          /\ \A k \in 1..Len(tasks) : tasks'[k] = tasks[k]
          /\ tasks'[Len(tasks')].about = raw
      <4>1. /\ tasks' \in Seq(Task) /\ Len(tasks') = Len(tasks) + 1
            /\ \A k \in 1..Len(tasks) : tasks'[k] = tasks[k]
            /\ tasks'[Len(tasks')] = [kind |-> "correction", about |-> candidate,
                                     end  |-> "value"]
            /\ Unrepeated(tasks')
            /\ Clean(tasks') <=> (Clean(tasks) /\ "value" \notin ProviderFailures)
        BY <1>1, <1>3, <1>9, <2>5, Recorded
      <4> QED  BY <1>2, <1>7, <4>1
    <3>3. \A k \in 1..Len(tasks') : tasks'[k].about = raw
      <4>1. \A k \in 1..Len(tasks') : k \in 1..Len(tasks) \/ k = Len(tasks')
        BY <1>2, <3>2
      <4> QED  BY <1>2, <3>2, <4>1
    <3>4. MachineType'
      BY <1>1, <2>1, <3>1, <3>2 DEF MachineType
    <3>5. Undecided'
      BY <1>1, <1>2, <2>1, <2>3, <3>1, <3>2, <3>3 DEF Undecided
    <3> QED  BY <3>4, <3>5 DEF MachineInv
  <2>4. CASE verdict[c] # "valid"
             /\ Decide(<<"REVALIDATING", "ABSTAINED">>, c, FALSE, InvalidReason(c))
    <3>1. path' = path \o <<"REVALIDATING", "ABSTAINED">>
      BY <2>4 DEF Decide
    <3>2. path' \in Seq(States) /\ Len(path') > 0 /\ Chain(path') /\ State' = "ABSTAINED"
      BY <1>1, <2>2, <3>1, JoinedTwo, Steps DEF MachineType, State
    <3>3. decision' = [state |-> "ABSTAINED", candidate |-> c, deterministic |-> FALSE,
                       selective |-> "ABSTAINED" = "ACCEPTED", reason |-> InvalidReason(c)]
      BY <2>4 DEF Decide
    <3>4. "ABSTAINED" \in Final
      BY DEF Final
    <3> QED  BY <1>1, <1>3, <1>7, <1>9, <2>1, <2>5, <3>2, <3>3, <3>4, Ending
  <2> QED  BY <1>9, <2>3, <2>4 DEF Receive
<1> QED  BY <1>5, <1>6, <1>8, <1>9 DEF Correct

LEMMA ControlKeeps ==
  ASSUME MachineInv, Control
  PROVE  MachineInv'
<1>1. CASE Validate
  BY <1>1, ValidateKeeps
<1>2. CASE FirstCritique
  BY <1>2, FirstCritiqueKeeps
<1>3. CASE Correct
  BY <1>3, CorrectKeeps
<1>4. CASE FinalCritique
  <2>1. /\ MachineType /\ Undecided /\ State = "FINAL_CRITIQUE"
        /\ UNCHANGED <<verdict, raw, candidate, corrections>>
    BY <1>4 DEF MachineInv, Undecided, DecisionIsFinal, FinalCritique
  <2> QED  BY <1>4, <2>1, CritiqueEnds DEF FinalCritique
<1> QED  BY <1>1, <1>2, <1>3, <1>4 DEF Control

(* A run of the controller starts. *)
LEMMA StartKeeps ==
  ASSUME NEW c \in Candidates, raw' = c, candidate' = c, verdict' \in [Candidates -> Verdicts],
         path' = <<"RAW">>, seen' = {c}, corrections' = 0, tasks' = <<>>, decision' = NoDecision
  PROVE  MachineInv'
<1>1. /\ <<"RAW">> \in Seq(States) /\ Len(<<"RAW">>) = 1 /\ Chain(<<"RAW">>)
      /\ State' = "RAW"
  BY DEF States, Chain, State
<1>2. <<>> \in Seq(Task) /\ Len(<<>>) = 0
  BY EmptySeq
<1>3. MachineType'
  BY <1>1, <1>2 DEF MachineType, Unrepeated
<1>4. Undecided'
  BY <1>1, <1>2 DEF Undecided, Clean
<1> QED  BY <1>3, <1>4 DEF MachineInv

LEMMA MachineStays ==
  ASSUME MachineInv, UNCHANGED machineVars
  PROVE  MachineInv'
BY DEF machineVars, MachineInv, MachineType, Undecided, DecisionIsFinal, State,
       Chain, Step, Unrepeated, Clean, FromTasks

LEMMA MachineIsSound ==
  MachineInv => /\ TasksAreBounded /\ AcceptedWasJudged /\ CorrectedIsValid
                /\ decision # NoDecision =>
                     /\ FromTasks(decision)
                     /\ decision.state = "ERROR" <=>
                          \E k \in 1..Len(tasks) : tasks[k].end \in ProviderFailures
<1> SUFFICES ASSUME MachineInv
             PROVE  /\ TasksAreBounded /\ AcceptedWasJudged /\ CorrectedIsValid
                    /\ decision # NoDecision =>
                         /\ FromTasks(decision)
                         /\ decision.state = "ERROR" <=>
                              \E k \in 1..Len(tasks) : tasks[k].end \in ProviderFailures
  OBVIOUS
<1>1. TasksAreBounded
  <2>1. MachineType
    BY DEF MachineInv
  <2>2. Len(tasks) <= 3
    <3>1. Len(tasks) \in Nat
      BY <2>1 DEF MachineType
    <3>2. CASE Undecided
      BY <3>1, <3>2 DEF Undecided
    <3>3. CASE DecisionIsFinal
      <4> DEFINE n == Len(tasks)
      <4>1. n \in 1..3
        BY <3>3 DEF DecisionIsFinal
      <4> HIDE DEF n
      <4>2. n <= 3
        BY <4>1
      <4> QED  BY <4>2 DEF n
    <3> QED  BY <3>2, <3>3 DEF MachineInv
  <2> QED  BY <2>1, <2>2 DEF MachineType, TasksAreBounded, Chain, Step, Unrepeated
<1>2. ASSUME decision # NoDecision
      PROVE  /\ DecisionIsFinal
             /\ decision.state = "ERROR" <=>
                  \E k \in 1..Len(tasks) : tasks[k].end \in ProviderFailures
  BY <1>2 DEF MachineInv, Undecided, DecisionIsFinal, Clean
<1>3. AcceptedWasJudged
  <2>1. Len(tasks) \in 1..3 => tasks # <<>>
    BY EmptySeq
  <2> QED  BY <1>2, <2>1 DEF AcceptedWasJudged, DecisionIsFinal, FromTasks
<1>4. CorrectedIsValid
  BY <1>2 DEF CorrectedIsValid, DecisionIsFinal, FromTasks, Clean
<1> QED  BY <1>1, <1>2, <1>3, <1>4 DEF DecisionIsFinal

-----------------------------------------------------------------------------
(***************************************************************************)
(* The pipeline.                                                           *)
(***************************************************************************)

Points == {"start", "parse_theory", "parse_query", "parsed", "validate", "theory",
           "theory_control", "query", "query_control", "reason", "verify", "done", "cancelled"}

Controlled == {"theory", "theory_control", "query", "query_control"}

Statuses == {"NOT_STARTED", "SUCCEEDED", "FAILED", "SKIPPED", "ABSTAINED"}

PipelineType ==
  /\ mode \in {"FORMAL_AST", "NATURAL_LANGUAGE"}
  /\ policy \in {"P0_RAW", "P1_CORRECTED", "P2_SELECTIVE"}
  /\ pc \in Points
  /\ parsed \in [Components -> Candidates \cup {"none"}]
  /\ decisions = [c \in Components |-> decisions[c]]
  /\ trace \in [Stages -> Statuses]

Passed(c) ==
  /\ decisions[c] # NoDecision
  /\ decisions[c].state # "ERROR"
  /\ decisions[c].deterministic
  /\ policy = "P2_SELECTIVE" => decisions[c].selective

(* What is known of a request that goes on.                                *)
UnderWay ==
  /\ answer = NoAnswer
  /\ \A c \in Components : decisions[c] = NoDecision \/ Passed(c)
  /\ trace["SYMBOLIC_REASONING"] = IF pc = "verify" THEN "SUCCEEDED" ELSE "NOT_STARTED"
  /\ mode = "FORMAL_AST" => pc \in {"start", "reason", "verify"}
  /\ pc \in Controlled => policy # "P0_RAW" /\ \A c \in Components : parsed[c] # "none"
  /\ pc = "validate" => policy = "P0_RAW"
  /\ pc \in {"query", "query_control"} => Passed("theory")

(* The raw policy goes on only without a failed stage.                     *)
NothingFailed ==
  policy = "P0_RAW" =>
    \A s \in Stages : trace[s] = "FAILED" =>
      \/ s = "THEORY_PARSING" /\ pc \in {"parse_query", "parsed"} /\ parsed["theory"] = "none"
      \/ s = "QUERY_PARSING" /\ pc = "parsed" /\ parsed["query"] = "none"

(* The evidence is there when reasoning starts.                            *)
Evidence ==
  pc \in {"reason", "verify"} =>
    /\ mode = "NATURAL_LANGUAGE" =>
         /\ trace["SOURCE_COVERAGE"] = "SUCCEEDED"
         /\ trace["SEMANTIC_VALIDATION"] = "SUCCEEDED"
         /\ policy # "P0_RAW" => \A c \in Components : Passed(c)
    /\ mode = "FORMAL_AST" => \A s \in ModelStages : trace[s] = "SKIPPED"

Outcome ==
  /\ AnsweredOnEvidence
  /\ TraceIsTerminal
  /\ (\E c \in Components : decisions[c] # NoDecision /\ decisions[c].state = "ERROR")
       => answer.disposition = "ERROR"
  /\ (\E s \in Stages : trace[s] = "FAILED") /\ policy = "P0_RAW"
       => answer.disposition = "ERROR"
  /\ answer.disposition = "ABSTAINED" =>
       /\ mode = "NATURAL_LANGUAGE"
       /\ policy # "P0_RAW"
       /\ trace["SYMBOLIC_REASONING"] = "SKIPPED"
       /\ \E c \in Components : /\ decisions[c] # NoDecision
                                /\ decisions[c].state = "ABSTAINED"
                                /\ decisions[c].reason = answer.reason

RequestInv ==
  /\ PipelineType
  /\ pc \notin {"done", "cancelled"} => UnderWay /\ NothingFailed /\ Evidence
  /\ pc = "cancelled" => answer = NoAnswer
  /\ pc = "done" => Outcome

PInv == MachineInv /\ RequestInv

-----------------------------------------------------------------------------

LEMMA TraceSet ==
  ASSUME NEW t \in [Stages -> Statuses], NEW S, NEW status \in Statuses
  PROVE  /\ Set(t, S, status) \in [Stages -> Statuses]
         /\ \A s \in Stages : Set(t, S, status)[s] = IF s \in S THEN status ELSE t[s]
BY DEF Set

LEMMA TraceFinished ==
  ASSUME NEW t \in [Stages -> Statuses]
  PROVE  /\ Finished(t) \in [Stages -> Statuses]
         /\ \A s \in Stages : /\ Finished(t)[s] # "NOT_STARTED"
                              /\ t[s] = "NOT_STARTED" => Finished(t)[s] = "SKIPPED"
                              /\ t[s] # "NOT_STARTED" => Finished(t)[s] = t[s]
BY DEF Finished, Statuses

LEMMA StageNames ==
  /\ {"INPUT_VALIDATION", "THEORY_PARSING", "QUERY_PARSING", "SOURCE_COVERAGE",
      "SEMANTIC_VALIDATION", "CRITIC", "CORRECTION", "RELIABILITY_POLICY",
      "SYMBOLIC_REASONING", "PROOF_VERIFICATION", "FINAL_DECISION"} = Stages
  /\ ModelStages \subseteq Stages
  /\ {"NOT_STARTED", "SUCCEEDED", "FAILED", "SKIPPED", "ABSTAINED"} = Statuses
BY DEF Stages, ModelStages, Statuses

(* An error is a result whose trace says so, wherever it comes from.       *)
LEMMA ErrorEnds ==
  ASSUME PipelineType, NEW t \in [Stages -> Statuses], NEW stage \in Stages, Error(t, stage),
         UNCHANGED <<mode, policy, parsed>>, decisions' = [c \in Components |-> decisions'[c]]
  PROVE  RequestInv'
<1> DEFINE u == Set(t, {stage, "FINAL_DECISION"}, "FAILED")
<1>1. /\ u \in [Stages -> Statuses]
      /\ u[stage] = "FAILED" /\ u["FINAL_DECISION"] = "FAILED"
  BY TraceSet, StageNames
<1>2. trace' = Finished(u) /\ answer' = [disposition |-> "ERROR", stage |-> stage] /\ pc' = "done"
  BY DEF Error
<1> HIDE DEF u
<1>8. /\ Finished(u) \in [Stages -> Statuses]
      /\ \A s \in Stages : /\ Finished(u)[s] # "NOT_STARTED"
                           /\ u[s] # "NOT_STARTED" => Finished(u)[s] = u[s]
  BY <1>1, TraceFinished
<1>9. "FINAL_DECISION" \in Stages
  BY StageNames
<1>3. /\ trace' \in [Stages -> Statuses]
      /\ trace'[stage] = "FAILED" /\ trace'["FINAL_DECISION"] = "FAILED"
      /\ \A s \in Stages : trace'[s] # "NOT_STARTED"
  BY <1>1, <1>2, <1>8, <1>9
<1>4. PipelineType'
  BY <1>2, <1>3 DEF PipelineType, Points
<1>5. answer'.disposition = "ERROR" /\ answer'.stage = stage
  BY <1>2
<1>6. AnsweredOnEvidence' /\ TraceIsTerminal'
  BY <1>3, <1>5 DEF AnsweredOnEvidence, TraceIsTerminal
<1>7. Outcome'
  BY <1>5, <1>6 DEF Outcome
<1> QED  BY <1>2, <1>4, <1>7 DEF RequestInv

LEMMA AbstentionEnds ==
  ASSUME PipelineType, NEW t \in [Stages -> Statuses], NEW reason, Abstain(t, reason),
         UNCHANGED <<mode, policy, parsed>>, decisions' = [c \in Components |-> decisions'[c]],
         mode = "NATURAL_LANGUAGE", policy # "P0_RAW",
         t["SYMBOLIC_REASONING"] = "NOT_STARTED",
         \A c \in Components : decisions'[c] # NoDecision => decisions'[c].state # "ERROR",
         NEW d \in Components, decisions'[d] # NoDecision,
         decisions'[d].state = "ABSTAINED" /\ decisions'[d].reason = reason
  PROVE  RequestInv'
<1> DEFINE u == Set(t, {"RELIABILITY_POLICY", "FINAL_DECISION"}, "ABSTAINED")
<1>1. /\ u \in [Stages -> Statuses]
      /\ u["FINAL_DECISION"] = "ABSTAINED" /\ u["SYMBOLIC_REASONING"] = "NOT_STARTED"
  BY TraceSet, StageNames
<1>2. /\ trace' = Finished(u) /\ answer' = [disposition |-> "ABSTAINED", reason |-> reason]
      /\ pc' = "done"
  BY DEF Abstain
<1> HIDE DEF u
<1>8. /\ Finished(u) \in [Stages -> Statuses]
      /\ \A s \in Stages : /\ Finished(u)[s] # "NOT_STARTED"
                           /\ u[s] = "NOT_STARTED" => Finished(u)[s] = "SKIPPED"
                           /\ u[s] # "NOT_STARTED" => Finished(u)[s] = u[s]
  BY <1>1, TraceFinished
<1>9. "FINAL_DECISION" \in Stages /\ "SYMBOLIC_REASONING" \in Stages
  BY StageNames
<1>3. /\ trace' \in [Stages -> Statuses]
      /\ trace'["FINAL_DECISION"] = "ABSTAINED" /\ trace'["SYMBOLIC_REASONING"] = "SKIPPED"
      /\ \A s \in Stages : trace'[s] # "NOT_STARTED"
  BY <1>1, <1>2, <1>8, <1>9
<1>4. PipelineType'
  BY <1>2, <1>3 DEF PipelineType, Points
<1>5. answer'.disposition = "ABSTAINED" /\ answer'.reason = reason
  BY <1>2
<1>6. AnsweredOnEvidence' /\ TraceIsTerminal'
  BY <1>3, <1>5 DEF AnsweredOnEvidence, TraceIsTerminal
<1>7. Outcome'
  BY <1>3, <1>5, <1>6 DEF Outcome
<1> QED  BY <1>2, <1>4, <1>7 DEF RequestInv

(* What a step that goes on keeps: it is not over and gives no answer.     *)
LEMMA GoesOn ==
  ASSUME pc' \in Points \ {"done", "cancelled"}, PipelineType', UnderWay', NothingFailed', Evidence'
  PROVE  RequestInv'
BY DEF RequestInv

LEMMA StopKeeps ==
  ASSUME RequestInv, Stop
  PROVE  RequestInv'
<1>1. pc \notin {"done", "cancelled"} /\ pc' = "cancelled"
      /\ UNCHANGED <<mode, policy, parsed, decisions, trace, answer>>
  BY DEF Stop, CheckPoints
<1>2. PipelineType'
  BY <1>1 DEF RequestInv, PipelineType, Points
<1>3. answer' = NoAnswer
  BY <1>1 DEF RequestInv, UnderWay
<1> QED  BY <1>1, <1>2, <1>3 DEF RequestInv

LEMMA CancelKeeps ==
  ASSUME RequestInv, UNCHANGED <<mode, policy, pc, parsed, decisions, trace, answer>>
  PROVE  RequestInv'
<1>1. mode' = mode /\ policy' = policy /\ pc' = pc /\ parsed' = parsed
      /\ decisions' = decisions /\ trace' = trace /\ answer' = answer
  OBVIOUS
<1>2. PipelineType'
  BY <1>1 DEF RequestInv, PipelineType
<1>3. pc \notin {"done", "cancelled"} => UnderWay' /\ NothingFailed' /\ Evidence'
  BY <1>1 DEF RequestInv, UnderWay, NothingFailed, Evidence, Passed
<1>4. pc = "done" => Outcome'
  BY <1>1 DEF RequestInv, Outcome, AnsweredOnEvidence, TraceIsTerminal
<1> QED  BY <1>1, <1>2, <1>3, <1>4 DEF RequestInv

LEMMA BeginKeeps ==
  ASSUME RequestInv, Begin
  PROVE  RequestInv'
<1>1. /\ PipelineType /\ UnderWay /\ NothingFailed /\ Evidence
      /\ pc = "start"
      /\ UNCHANGED <<mode, policy, parsed, decisions, answer>>
  BY DEF RequestInv, Begin, Proceed
<1>2. CASE mode = "FORMAL_AST" /\ trace' = Set(trace, ModelStages, "SKIPPED") /\ pc' = "reason"
  <2>1. /\ trace' \in [Stages -> Statuses]
        /\ \A s \in Stages : trace'[s] = IF s \in ModelStages THEN "SKIPPED" ELSE trace[s]
    BY <1>1, <1>2, TraceSet, StageNames DEF PipelineType
  <2>2. trace'["SYMBOLIC_REASONING"] = "NOT_STARTED" /\ \A s \in ModelStages : trace'[s] = "SKIPPED"
    <3>1. "SYMBOLIC_REASONING" \in Stages \ ModelStages
      BY DEF Stages, ModelStages
    <3> QED  BY <1>1, <2>1, <3>1, StageNames DEF UnderWay
  <2>3. PipelineType'
    BY <1>1, <1>2, <2>1 DEF PipelineType, Points
  <2>4. UnderWay'
    BY <1>1, <1>2, <2>2 DEF UnderWay, Passed, Controlled
  <2>5. NothingFailed'
    BY <1>1, <1>2, <2>1 DEF NothingFailed
  <2>6. Evidence'
    BY <1>1, <1>2, <2>2 DEF Evidence
  <2> QED  BY <1>2, <2>3, <2>4, <2>5, <2>6, GoesOn DEF Points
<1>3. CASE mode = "NATURAL_LANGUAGE" /\ pc' = "parse_theory" /\ UNCHANGED trace
  <2>1. PipelineType'
    BY <1>1, <1>3 DEF PipelineType, Points
  <2>2. UnderWay'
    BY <1>1, <1>3 DEF UnderWay, Passed, Controlled
  <2>3. NothingFailed' /\ Evidence'
    BY <1>1, <1>3 DEF NothingFailed, Evidence
  <2> QED  BY <1>3, <2>1, <2>2, <2>3, GoesOn DEF Points
<1> QED  BY <1>2, <1>3 DEF Begin

LEMMA ParseTheoryKeeps ==
  ASSUME RequestInv, ParseTheory
  PROVE  RequestInv'
<1>1. /\ PipelineType /\ UnderWay /\ NothingFailed
      /\ pc = "parse_theory" /\ pc' = "parse_query"
      /\ UNCHANGED <<mode, policy, decisions, answer>>
  BY DEF RequestInv, ParseTheory, Parse, Proceed
<1>2. PICK c \in Candidates \cup {"none"} :
        /\ parsed' = [parsed EXCEPT !["theory"] = c]
        /\ trace' = Set(trace, {"THEORY_PARSING"}, IF c = "none" THEN "FAILED" ELSE "SUCCEEDED")
  BY DEF ParseTheory, Parse
<1>3. /\ trace' \in [Stages -> Statuses]
      /\ \A s \in Stages :
           trace'[s] = IF s \in {"THEORY_PARSING"} THEN IF c = "none" THEN "FAILED" ELSE "SUCCEEDED"
                                                   ELSE trace[s]
  <2>1. (IF c = "none" THEN "FAILED" ELSE "SUCCEEDED") \in Statuses
    BY DEF Statuses
  <2> QED  BY <1>1, <1>2, <2>1, TraceSet DEF PipelineType
<1>4. parsed' \in [Components -> Candidates \cup {"none"}] /\ parsed'["theory"] = c
  BY <1>1, <1>2 DEF PipelineType, Components
<1>5. PipelineType'
  BY <1>1, <1>3, <1>4 DEF PipelineType, Points
<1>6. UnderWay'
  <2>1. trace'["SYMBOLIC_REASONING"] = "NOT_STARTED"
    BY <1>1, <1>3, StageNames DEF UnderWay
  <2> QED  BY <1>1, <2>1 DEF UnderWay, Passed, Controlled
<1>7. NothingFailed'
  BY <1>1, <1>3, <1>4 DEF NothingFailed
<1>8. Evidence'
  BY <1>1 DEF Evidence
<1> QED  BY <1>1, <1>5, <1>6, <1>7, <1>8, GoesOn DEF Points

LEMMA ParseQueryKeeps ==
  ASSUME RequestInv, ParseQuery
  PROVE  RequestInv'
<1>1. /\ PipelineType /\ UnderWay /\ NothingFailed
      /\ pc = "parse_query" /\ pc' = "parsed"
      /\ UNCHANGED <<mode, policy, decisions, answer>>
  BY DEF RequestInv, ParseQuery, Parse, Proceed
<1>2. PICK c \in Candidates \cup {"none"} :
        /\ parsed' = [parsed EXCEPT !["query"] = c]
        /\ trace' = Set(trace, {"QUERY_PARSING"}, IF c = "none" THEN "FAILED" ELSE "SUCCEEDED")
  BY DEF ParseQuery, Parse
<1>3. /\ trace' \in [Stages -> Statuses]
      /\ \A s \in Stages :
           trace'[s] = IF s \in {"QUERY_PARSING"} THEN IF c = "none" THEN "FAILED" ELSE "SUCCEEDED"
                                                  ELSE trace[s]
  <2>1. (IF c = "none" THEN "FAILED" ELSE "SUCCEEDED") \in Statuses
    BY DEF Statuses
  <2> QED  BY <1>1, <1>2, <2>1, TraceSet DEF PipelineType
<1>4. /\ parsed' \in [Components -> Candidates \cup {"none"}]
      /\ parsed'["query"] = c /\ parsed'["theory"] = parsed["theory"]
  BY <1>1, <1>2 DEF PipelineType, Components
<1>5. PipelineType'
  BY <1>1, <1>3, <1>4 DEF PipelineType, Points
<1>6. UnderWay'
  <2>1. trace'["SYMBOLIC_REASONING"] = "NOT_STARTED"
    BY <1>1, <1>3, StageNames DEF UnderWay
  <2> QED  BY <1>1, <2>1 DEF UnderWay, Passed, Controlled
<1>7. NothingFailed'
  BY <1>1, <1>3, <1>4 DEF NothingFailed
<1>8. Evidence'
  BY <1>1 DEF Evidence
<1> QED  BY <1>1, <1>5, <1>6, <1>7, <1>8, GoesOn DEF Points

LEMMA ParsingDoneKeeps ==
  ASSUME RequestInv, ParsingDone
  PROVE  RequestInv'
<1>1. /\ PipelineType /\ UnderWay /\ NothingFailed
      /\ pc = "parsed"
      /\ UNCHANGED <<mode, policy, parsed, decisions>>
  BY DEF RequestInv, ParsingDone
<1>2. trace \in [Stages -> Statuses] /\ decisions' = [c \in Components |-> decisions'[c]]
  BY <1>1 DEF PipelineType
<1>3. CASE Error(trace, "THEORY_PARSING")
  BY <1>1, <1>2, <1>3, ErrorEnds, StageNames
<1>4. CASE Error(trace, "QUERY_PARSING")
  BY <1>1, <1>2, <1>4, ErrorEnds, StageNames
<1>5. CASE /\ \A c \in Components : parsed[c] # "none"
           /\ pc' = IF policy = "P0_RAW" THEN "validate" ELSE "theory"
           /\ UNCHANGED <<trace, answer>>
  <2>1. PipelineType'
    BY <1>1, <1>5 DEF PipelineType, Points
  <2>2. UnderWay'
    BY <1>1, <1>5 DEF UnderWay, Passed, Controlled
  <2>3. NothingFailed'
    <3>1. parsed["theory"] # "none" /\ parsed["query"] # "none"
      BY <1>5 DEF Components
    <3> QED  BY <1>1, <1>5, <3>1 DEF NothingFailed
  <2>4. Evidence'
    BY <1>5 DEF Evidence
  <2> QED  BY <1>5, <2>1, <2>2, <2>3, <2>4, GoesOn DEF Points
<1> QED  BY <1>3, <1>4, <1>5 DEF ParsingDone

LEMMA ValidateRawKeeps ==
  ASSUME RequestInv, ValidateRaw
  PROVE  RequestInv'
<1>1. /\ PipelineType /\ UnderWay /\ NothingFailed
      /\ pc = "validate" /\ policy = "P0_RAW"
      /\ UNCHANGED <<mode, policy, parsed, decisions>>
  BY DEF RequestInv, ValidateRaw, UnderWay
<1>2. PICK v \in Verdicts :
        \/ Error(ValidationTrace(WithoutController, v), "SOURCE_COVERAGE")
        \/ Error(ValidationTrace(WithoutController, v), "SEMANTIC_VALIDATION")
        \/ /\ v = "valid"
           /\ trace' = ValidationTrace(WithoutController, v)
           /\ pc' = "reason" /\ UNCHANGED answer
  BY DEF ValidateRaw
<1> DEFINE w == WithoutController
           cov == IF v = "coverage" THEN "FAILED" ELSE "SUCCEEDED"
           val == IF v = "valid" THEN "SUCCEEDED" ELSE "FAILED"
           t == ValidationTrace(w, v)
<1>3. /\ w \in [Stages -> Statuses]
      /\ \A s \in Stages : w[s] = IF s \in {"CRITIC", "CORRECTION", "RELIABILITY_POLICY"}
                                  THEN "SKIPPED" ELSE trace[s]
  BY <1>1, TraceSet, StageNames DEF PipelineType, WithoutController
<1>4. cov \in Statuses /\ val \in Statuses
  BY DEF Statuses
<1> DEFINE x == Set(w, {"SOURCE_COVERAGE"}, cov)
<1>5. t = Set(x, {"SEMANTIC_VALIDATION"}, val)
  BY DEF ValidationTrace
<1> HIDE DEF w, t
<1>6. /\ x \in [Stages -> Statuses]
      /\ \A s \in Stages : x[s] = IF s \in {"SOURCE_COVERAGE"} THEN cov ELSE w[s]
  BY <1>3, <1>4, TraceSet
<1> HIDE DEF x
<1>7. /\ t \in [Stages -> Statuses]
      /\ \A s \in Stages : t[s] = IF s \in {"SEMANTIC_VALIDATION"} THEN val ELSE x[s]
  BY <1>4, <1>5, <1>6, TraceSet
<1>8. decisions' = [c \in Components |-> decisions'[c]]
  BY <1>1 DEF PipelineType
<1>9. CASE Error(t, "SOURCE_COVERAGE")
  BY <1>1, <1>7, <1>8, <1>9, ErrorEnds, StageNames
<1>10. CASE Error(t, "SEMANTIC_VALIDATION")
  BY <1>1, <1>7, <1>8, <1>10, ErrorEnds, StageNames
<1>11. CASE v = "valid" /\ trace' = t /\ pc' = "reason" /\ UNCHANGED answer
  <2>1. /\ t["SOURCE_COVERAGE"] = "SUCCEEDED" /\ t["SEMANTIC_VALIDATION"] = "SUCCEEDED"
        /\ t["SYMBOLIC_REASONING"] = "NOT_STARTED"
    <3>1. trace["SYMBOLIC_REASONING"] = "NOT_STARTED"
      BY <1>1 DEF UnderWay
    <3> QED  BY <1>3, <1>6, <1>7, <1>11, <3>1, StageNames
  <2>2. \A s \in Stages : t[s] = "FAILED" => trace[s] = "FAILED"
    BY <1>3, <1>6, <1>7, <1>11
  <2>3. PipelineType'
    BY <1>1, <1>7, <1>11 DEF PipelineType, Points
  <2>4. UnderWay'
    BY <1>1, <1>11, <2>1 DEF UnderWay, Passed, Controlled
  <2>5. NothingFailed'
    BY <1>1, <1>11, <2>2 DEF NothingFailed
  <2>6. Evidence'
    <3>1. mode' # "FORMAL_AST"
      BY <1>1 DEF UnderWay
    <3> QED  BY <1>1, <1>11, <2>1, <3>1 DEF Evidence
  <2> QED  BY <1>11, <2>3, <2>4, <2>5, <2>6, GoesOn DEF Points
<1> QED  BY <1>2, <1>9, <1>10, <1>11 DEF t, w

(* The controller starts and runs without touching the request.            *)
LEMMA RunControllerKeeps ==
  ASSUME PInv, NEW c \in Components, NEW next,
         \/ pc = "theory" /\ c = "theory" /\ next = "theory_control"
         \/ pc = "query" /\ c = "query" /\ next = "query_control",
         RunController(c, next)
  PROVE  PInv'
<1>1. /\ PipelineType /\ UnderWay
      /\ pc' = next
      /\ UNCHANGED <<mode, policy, parsed, decisions, trace, answer>>
  BY DEF PInv, RequestInv, RunController
<1>2. parsed[c] \in Candidates
  BY <1>1 DEF UnderWay, PipelineType, Controlled
<1>3. MachineInv'
  <2>1. /\ raw' = parsed[c] /\ candidate' = parsed[c] /\ verdict' \in [Candidates -> Verdicts]
        /\ path' = <<"RAW">> /\ seen' = {parsed[c]} /\ corrections' = 0 /\ tasks' = <<>>
        /\ decision' = NoDecision
    BY DEF RunController
  <2> QED  BY <1>2, <2>1, StartKeeps
<1>4. PipelineType'
  BY <1>1 DEF PipelineType, Points
<1>5. UnderWay'
  BY <1>1 DEF UnderWay, Passed, Controlled
<1>6. NothingFailed'
  BY <1>1 DEF UnderWay, NothingFailed, Controlled
<1>7. Evidence'
  BY <1>1 DEF Evidence
<1> QED  BY <1>1, <1>3, <1>4, <1>5, <1>6, <1>7, GoesOn DEF PInv, Points

LEMMA ControlStepKeeps ==
  ASSUME PInv, ControlStep
  PROVE  PInv'
<1>1. MachineInv'
  BY ControlKeeps DEF PInv, ControlStep
<1>2. RequestInv'
  <2>1. UNCHANGED <<mode, policy, pc, parsed, decisions, trace, answer>>
    BY DEF ControlStep, pipelineVars
  <2> QED  BY <2>1, CancelKeeps DEF PInv
<1> QED  BY <1>1, <1>2 DEF PInv

(* What the tasks of a component write into the trace.                     *)
LEMMA TaskStages ==
  ASSUME NEW t \in [Stages -> Statuses], NEW stage \in Stages, NEW ends, NEW merge \in BOOLEAN
  PROVE  /\ TaskStage(t, stage, ends, merge) \in [Stages -> Statuses]
         /\ \A s \in Stages \ {stage} : TaskStage(t, stage, ends, merge)[s] = t[s]
<1>1. {"SKIPPED", "SUCCEEDED", "FAILED"} \subseteq Statuses
  BY DEF Statuses
<1>2. CASE ends = {} /\ merge
  BY <1>2 DEF TaskStage
<1>3. CASE ends = {} /\ ~merge
  <2>1. TaskStage(t, stage, ends, merge) = Set(t, {stage}, "SKIPPED")
    BY <1>3 DEF TaskStage
  <2> QED  BY <1>1, <2>1, TraceSet
<1>4. CASE ends # {}
  <2> DEFINE e == IF ends \cap TaskFailures = {} THEN "SUCCEEDED" ELSE "FAILED"
  <2>1. TaskStage(t, stage, ends, merge) = Set(t, {stage}, e)
    BY <1>4 DEF TaskStage
  <2>2. e \in Statuses
    BY <1>1
  <2> HIDE DEF e
  <2> QED  BY <2>1, <2>2, TraceSet
<1> QED  BY <1>2, <1>3, <1>4

LEMMA DecisionTraces ==
  ASSUME trace \in [Stages -> Statuses], NEW merge \in BOOLEAN
  PROVE  /\ DecisionTrace(merge) \in [Stages -> Statuses]
         /\ PolicyTrace(merge) \in [Stages -> Statuses]
         /\ DecisionTrace(merge)["SYMBOLIC_REASONING"] = trace["SYMBOLIC_REASONING"]
         /\ PolicyTrace(merge)["SYMBOLIC_REASONING"] = trace["SYMBOLIC_REASONING"]
         /\ PolicyTrace(merge)["SOURCE_COVERAGE"] = "SUCCEEDED"
         /\ PolicyTrace(merge)["SEMANTIC_VALIDATION"] = "SUCCEEDED"
<1> DEFINE a == TaskStage(trace, "CRITIC", Ended("critic"), merge)
           b == TaskStage(a, "CORRECTION", Ended("correction"), merge)
           c == Set(b, {"SOURCE_COVERAGE", "SEMANTIC_VALIDATION"}, "SUCCEEDED")
           d == Set(c, {"RELIABILITY_POLICY"}, "SUCCEEDED")
<1>1. "CRITIC" \in Stages /\ "CORRECTION" \in Stages /\ "SUCCEEDED" \in Statuses
  BY StageNames
<1>2. a \in [Stages -> Statuses] /\ a["SYMBOLIC_REASONING"] = trace["SYMBOLIC_REASONING"]
  <2>1. /\ a \in [Stages -> Statuses]
        /\ \A s \in Stages \ {"CRITIC"} : a[s] = trace[s]
    BY <1>1, TaskStages
  <2> QED  BY <2>1, StageNames
<1> HIDE DEF a
<1>3. b \in [Stages -> Statuses] /\ b["SYMBOLIC_REASONING"] = a["SYMBOLIC_REASONING"]
  <2>1. /\ b \in [Stages -> Statuses]
        /\ \A s \in Stages \ {"CORRECTION"} : b[s] = a[s]
    BY <1>1, <1>2, TaskStages
  <2> QED  BY <2>1, StageNames
<1> HIDE DEF b
<1>4. /\ c \in [Stages -> Statuses] /\ c["SYMBOLIC_REASONING"] = b["SYMBOLIC_REASONING"]
      /\ c["SOURCE_COVERAGE"] = "SUCCEEDED" /\ c["SEMANTIC_VALIDATION"] = "SUCCEEDED"
  BY <1>1, <1>3, TraceSet, StageNames
<1> HIDE DEF c
<1>5. /\ d \in [Stages -> Statuses] /\ d["SYMBOLIC_REASONING"] = c["SYMBOLIC_REASONING"]
      /\ d["SOURCE_COVERAGE"] = "SUCCEEDED" /\ d["SEMANTIC_VALIDATION"] = "SUCCEEDED"
  BY <1>1, <1>4, TraceSet, StageNames
<1> HIDE DEF d
<1>6. DecisionTrace(merge) = c
  BY DEF DecisionTrace, c, b, a
<1>7. PolicyTrace(merge) = IF merge THEN d ELSE c
  BY <1>6 DEF PolicyTrace, d
<1> QED  BY <1>2, <1>3, <1>4, <1>5, <1>6, <1>7

(* The pipeline judges the decision about one component.                   *)
LEMMA JudgeKeeps ==
  ASSUME PInv, NEW c \in Components, NEW merge \in BOOLEAN, NEW next,
         \/ pc = "theory_control" /\ c = "theory" /\ next = "query"
         \/ pc = "query_control" /\ c = "query" /\ next = "reason",
         Judge(c, merge, next)
  PROVE  RequestInv'
<1>1. /\ MachineInv /\ PipelineType /\ UnderWay
      /\ decision # NoDecision
      /\ decisions' = [decisions EXCEPT ![c] = decision]
      /\ UNCHANGED <<mode, policy, parsed>>
  BY DEF PInv, RequestInv, Judge
<1>2. FromTasks(decision)
  BY <1>1, MachineIsSound
<1>3. /\ mode = "NATURAL_LANGUAGE" /\ policy # "P0_RAW"
      /\ trace["SYMBOLIC_REASONING"] = "NOT_STARTED"
  BY <1>1 DEF UnderWay, Controlled, PipelineType
<1>4. /\ decisions' = [d \in Components |-> decisions'[d]]
      /\ decisions'[c] = decision
      /\ \A d \in Components : d # c => decisions'[d] = decisions[d]
  BY <1>1 DEF PipelineType
<1> DEFINE t == DecisionTrace(merge)
           p == PolicyTrace(merge)
<1>5. /\ t \in [Stages -> Statuses] /\ p \in [Stages -> Statuses]
      /\ t["SYMBOLIC_REASONING"] = "NOT_STARTED" /\ p["SYMBOLIC_REASONING"] = "NOT_STARTED"
      /\ p["SOURCE_COVERAGE"] = "SUCCEEDED" /\ p["SEMANTIC_VALIDATION"] = "SUCCEEDED"
  BY <1>1, <1>3, DecisionTraces DEF PipelineType
<1>6. FailedStage \in Stages /\ "SEMANTIC_VALIDATION" \in Stages
  BY StageNames DEF FailedStage
<1>7. \/ Error(t, FailedStage)
      \/ ~IsError(decision) /\ ~Accepted(decision) /\ Abstain(t, decision.reason)
      \/ /\ ~IsError(decision) /\ Accepted(decision)
         /\ trace' = p /\ pc' = next /\ UNCHANGED answer
      \/ Error(t, "SEMANTIC_VALIDATION")
  BY DEF Judge
<1> HIDE DEF t, p
<1>8. CASE Error(t, FailedStage) \/ Error(t, "SEMANTIC_VALIDATION")
  BY <1>1, <1>4, <1>5, <1>6, <1>8, ErrorEnds
<1>9. CASE ~IsError(decision) /\ ~Accepted(decision) /\ Abstain(t, decision.reason)
  <2>1. decision.state = "ABSTAINED"
    BY <1>1, <1>2, <1>3, <1>9 DEF FromTasks, IsError, Accepted, PipelineType
  <2>2. \A d \in Components : decisions'[d] # NoDecision => decisions'[d].state # "ERROR"
    BY <1>1, <1>4, <2>1 DEF UnderWay, Passed
  <2> QED  BY <1>1, <1>3, <1>4, <1>5, <1>9, <2>1, <2>2, AbstentionEnds
<1>10. CASE /\ ~IsError(decision) /\ Accepted(decision)
            /\ trace' = p /\ pc' = next /\ UNCHANGED answer
  <2>1. Passed(c)'
    BY <1>1, <1>2, <1>3, <1>4, <1>10 DEF FromTasks, IsError, Accepted, Passed, PipelineType
  <2>2. \A d \in Components : d # c => decisions'[d] = NoDecision \/ Passed(d)'
    BY <1>1, <1>4 DEF UnderWay, Passed
  <2>3. pc' = "reason" => c = "query" /\ Passed("theory")'
    <3>1. CASE pc' = "reason"
      <4>1. c = "query" /\ Passed("theory")
        BY <1>1, <1>10, <3>1 DEF UnderWay
      <4>2. decisions'["theory"] = decisions["theory"]
        BY <1>4, <4>1 DEF Components
      <4> QED  BY <1>1, <4>1, <4>2 DEF Passed
    <3> QED  BY <3>1
  <2>4. PipelineType'
    BY <1>1, <1>4, <1>5, <1>10 DEF PipelineType, Points
  <2>5. UnderWay'
    <3>1. pc' = "query" => Passed("theory")'
      BY <1>10, <2>1
    <3>2. \A d \in Components : parsed[d] # "none"
      BY <1>1 DEF UnderWay, Controlled
    <3>3. answer' = NoAnswer /\ pc' \in {"query", "reason"}
      BY <1>1, <1>10 DEF UnderWay
    <3>4. trace'["SYMBOLIC_REASONING"] = "NOT_STARTED"
      BY <1>5, <1>10
    <3> QED  BY <1>1, <1>3, <2>1, <2>2, <3>1, <3>2, <3>3, <3>4 DEF UnderWay, Controlled
  <2>6. NothingFailed'
    BY <1>1, <1>3 DEF NothingFailed
  <2>7. Evidence'
    <3>1. pc' = "reason" => \A d \in Components : Passed(d)'
      BY <2>1, <2>3 DEF Components
    <3>2. trace'["SOURCE_COVERAGE"] = "SUCCEEDED" /\ trace'["SEMANTIC_VALIDATION"] = "SUCCEEDED"
      BY <1>5, <1>10
    <3>3. pc' # "verify" /\ mode' = "NATURAL_LANGUAGE"
      BY <1>1, <1>3, <1>10
    <3> QED  BY <3>1, <3>2, <3>3 DEF Evidence
  <2>8. pc' \in Points \ {"done", "cancelled"}
    BY <1>10 DEF Points
  <2> QED  BY <2>4, <2>5, <2>6, <2>7, <2>8, GoesOn
<1> QED  BY <1>7, <1>8, <1>9, <1>10

LEMMA ReasonKeeps ==
  ASSUME RequestInv, Reason
  PROVE  RequestInv'
<1>1. /\ PipelineType /\ UnderWay /\ NothingFailed /\ Evidence
      /\ pc = "reason"
      /\ UNCHANGED <<mode, policy, parsed, decisions>>
  BY DEF RequestInv, Reason, Proceed
<1>2. trace \in [Stages -> Statuses] /\ decisions' = [c \in Components |-> decisions'[c]]
  BY <1>1 DEF PipelineType
<1>3. CASE Error(trace, "SYMBOLIC_REASONING")
  BY <1>1, <1>2, <1>3, ErrorEnds, StageNames
<1>4. CASE /\ trace' = Set(trace, {"SYMBOLIC_REASONING"}, "SUCCEEDED")
           /\ pc' = "verify" /\ UNCHANGED answer
  <2>1. /\ trace' \in [Stages -> Statuses]
        /\ \A s \in Stages : trace'[s] = IF s \in {"SYMBOLIC_REASONING"} THEN "SUCCEEDED"
                                                                        ELSE trace[s]
    BY <1>2, <1>4, TraceSet, StageNames
  <2>2. /\ trace'["SYMBOLIC_REASONING"] = "SUCCEEDED"
        /\ trace'["SOURCE_COVERAGE"] = trace["SOURCE_COVERAGE"]
        /\ trace'["SEMANTIC_VALIDATION"] = trace["SEMANTIC_VALIDATION"]
        /\ \A s \in ModelStages : trace'[s] = trace[s]
    <3>1. "SYMBOLIC_REASONING" \notin ModelStages
      BY DEF ModelStages
    <3> QED  BY <2>1, <3>1, StageNames
  <2>3. PipelineType'
    BY <1>1, <1>4, <2>1 DEF PipelineType, Points
  <2>4. UnderWay'
    BY <1>1, <1>4, <2>2 DEF UnderWay, Passed, Controlled
  <2>5. NothingFailed'
    BY <1>1, <1>4, <2>1 DEF NothingFailed
  <2>6. Evidence'
    BY <1>1, <1>4, <2>2 DEF Evidence, Passed
  <2> QED  BY <1>4, <2>3, <2>4, <2>5, <2>6, GoesOn DEF Points
<1> QED  BY <1>3, <1>4 DEF Reason

(* An answer: what reasoning and verification found in the trace stays.    *)
LEMMA VerifyKeeps ==
  ASSUME RequestInv, Verify
  PROVE  RequestInv'
<1>1. /\ PipelineType /\ UnderWay /\ NothingFailed /\ Evidence
      /\ pc = "verify"
      /\ UNCHANGED <<mode, policy, parsed, decisions>>
  BY DEF RequestInv, Verify, Proceed
<1>2. trace \in [Stages -> Statuses] /\ decisions' = [c \in Components |-> decisions'[c]]
  BY <1>1 DEF PipelineType
<1>3. CASE Error(trace, "PROOF_VERIFICATION")
  BY <1>1, <1>2, <1>3, ErrorEnds, StageNames
<1> DEFINE u == Set(trace, {"PROOF_VERIFICATION", "FINAL_DECISION"}, "SUCCEEDED")
<1>4. CASE trace' = Finished(u) /\ answer' = [disposition |-> "ANSWERED"] /\ pc' = "done"
  <2>1. /\ u \in [Stages -> Statuses]
        /\ \A s \in Stages : u[s] = IF s \in {"PROOF_VERIFICATION", "FINAL_DECISION"}
                                    THEN "SUCCEEDED" ELSE trace[s]
    BY <1>2, TraceSet, StageNames
  <2> HIDE DEF u
  <2>2. /\ trace' \in [Stages -> Statuses]
        /\ \A s \in Stages : /\ trace'[s] # "NOT_STARTED"
                             /\ u[s] = "NOT_STARTED" => trace'[s] = "SKIPPED"
                             /\ u[s] # "NOT_STARTED" => trace'[s] = u[s]
    BY <1>4, <2>1, TraceFinished
  <2>3. trace["SYMBOLIC_REASONING"] = "SUCCEEDED"
    BY <1>1 DEF UnderWay
  <2>4. \A s \in {"SYMBOLIC_REASONING", "PROOF_VERIFICATION", "FINAL_DECISION"} :
          trace'[s] = "SUCCEEDED"
    BY <2>1, <2>2, <2>3, StageNames
  <2>5. \A s \in ModelStages : trace[s] # "NOT_STARTED" => trace'[s] = trace[s]
    <3>1. \A s \in ModelStages : s \notin {"PROOF_VERIFICATION", "FINAL_DECISION"} /\ s \in Stages
      BY DEF ModelStages, Stages
    <3> QED  BY <2>1, <2>2, <3>1
  <2>6. \A s \in Stages : trace'[s] = "FAILED" => trace[s] = "FAILED"
    BY <2>1, <2>2
  <2>7. answer'.disposition = "ANSWERED"
    BY <1>4
  <2>8. PipelineType'
    BY <1>1, <1>4, <2>2 DEF PipelineType, Points
  <2>9. AnsweredOnEvidence'
    <3>1. mode = "NATURAL_LANGUAGE" => /\ trace'["SOURCE_COVERAGE"] = "SUCCEEDED"
                                       /\ trace'["SEMANTIC_VALIDATION"] = "SUCCEEDED"
      <4>1. "SOURCE_COVERAGE" \in ModelStages /\ "SEMANTIC_VALIDATION" \in ModelStages
        BY DEF ModelStages
      <4> QED  BY <1>1, <2>5, <4>1 DEF Evidence
    <3>2. mode = "NATURAL_LANGUAGE" /\ policy # "P0_RAW" => \A c \in Components : Passed(c)
      BY <1>1 DEF Evidence
    <3> QED  BY <1>1, <2>4, <3>1, <3>2 DEF AnsweredOnEvidence, Passed
  <2>10. TraceIsTerminal'
    <3>1. mode = "FORMAL_AST" => \A s \in ModelStages : trace'[s] = "SKIPPED"
      BY <1>1, <2>5 DEF Evidence
    <3> QED  BY <1>1, <2>2, <2>4, <2>7, <3>1 DEF TraceIsTerminal
  <2>11. \A c \in Components : decisions'[c] # NoDecision => decisions'[c].state # "ERROR"
    BY <1>1 DEF UnderWay, Passed
  <2>12. policy = "P0_RAW" => \A s \in Stages : trace'[s] # "FAILED"
    BY <1>1, <2>6 DEF NothingFailed
  <2>13. Outcome'
    BY <1>1, <2>7, <2>9, <2>10, <2>11, <2>12 DEF Outcome
  <2> QED  BY <1>4, <2>8, <2>13 DEF RequestInv
<1> QED  BY <1>3, <1>4 DEF Verify

LEMMA UnexpectedKeeps ==
  ASSUME RequestInv, Unexpected
  PROVE  RequestInv'
<1>1. /\ PipelineType
      /\ UNCHANGED <<mode, policy, parsed, decisions>>
      /\ Error(Set(trace, Measured, "FAILED"), "FINAL_DECISION")
  BY DEF RequestInv, Unexpected
<1>2. Set(trace, Measured, "FAILED") \in [Stages -> Statuses]
  BY <1>1, TraceSet, StageNames DEF PipelineType
<1>3. decisions' = [c \in Components |-> decisions'[c]]
  BY <1>1 DEF PipelineType
<1> QED  BY <1>1, <1>2, <1>3, ErrorEnds, StageNames

-----------------------------------------------------------------------------
(***************************************************************************)
(* The invariant of the pipeline.                                          *)
(***************************************************************************)

(* A controller that has just started. *)
LEMMA Started ==
  ASSUME NEW c \in Candidates, NEW v \in [Candidates -> Verdicts], Start(c, v)
  PROVE  MachineInv
<1>1. /\ raw = c /\ candidate = c /\ verdict = v /\ path = <<"RAW">> /\ seen = {c}
      /\ corrections = 0 /\ tasks = <<>> /\ decision = NoDecision
  BY DEF Start
<1>2. /\ <<"RAW">> \in Seq(States) /\ Len(<<"RAW">>) = 1 /\ Chain(<<"RAW">>)
      /\ State = "RAW"
  BY <1>1 DEF States, Chain, State
<1>3. <<>> \in Seq(Task) /\ Len(<<>>) = 0
  BY EmptySeq
<1>4. MachineType
  BY <1>1, <1>2, <1>3 DEF MachineType, Unrepeated
<1>5. Undecided
  BY <1>1, <1>2, <1>3 DEF Undecided, Clean
<1> QED  BY <1>4, <1>5 DEF MachineInv

LEMMA InitInv == PipelineInit => PInv
<1> SUFFICES ASSUME PipelineInit
             PROVE  PInv
  OBVIOUS
<1>1. MachineInv
  <2> DEFINE c == CHOOSE d \in Candidates : TRUE
             v == [d \in Candidates |-> "invalid"]
  <2>1. c \in Candidates
    BY CandidatesAssumption
  <2>2. v \in [Candidates -> Verdicts]
    BY DEF Verdicts
  <2>3. Start(c, v)
    BY DEF PipelineInit
  <2> HIDE DEF c, v
  <2> QED  BY <2>1, <2>2, <2>3, Started
<1>2. /\ mode \in {"FORMAL_AST", "NATURAL_LANGUAGE"}
      /\ policy \in {"P0_RAW", "P1_CORRECTED", "P2_SELECTIVE"}
      /\ pc = "start" /\ answer = NoAnswer
      /\ parsed = [c \in Components |-> "none"]
      /\ decisions = [c \in Components |-> NoDecision]
      /\ trace = [s \in Stages |-> IF s = "INPUT_VALIDATION" THEN "SUCCEEDED" ELSE "NOT_STARTED"]
  BY DEF PipelineInit
<1>3. trace \in [Stages -> Statuses] /\ trace["SYMBOLIC_REASONING"] = "NOT_STARTED"
  BY <1>2, StageNames
<1>4. PipelineType
  BY <1>2, <1>3 DEF PipelineType, Points
<1>5. UnderWay
  BY <1>2, <1>3 DEF UnderWay, Controlled
<1>6. NothingFailed /\ Evidence
  BY <1>2 DEF NothingFailed, Evidence
<1> QED  BY <1>1, <1>2, <1>4, <1>5, <1>6 DEF PInv, RequestInv

LEMMA NextInv == PInv /\ [PipelineNext]_allVars => PInv'
<1> SUFFICES ASSUME PInv, [PipelineNext]_allVars
             PROVE  PInv'
  OBVIOUS
<1>1. ASSUME UNCHANGED machineVars, RequestInv'
      PROVE  PInv'
  BY <1>1, MachineStays DEF PInv
<1>2. RequestInv
  BY DEF PInv
<1>3. CASE Stop
  BY <1>1, <1>2, <1>3, StopKeeps DEF Stop, machineVars
<1>4. CASE Begin
  BY <1>1, <1>2, <1>4, BeginKeeps DEF Begin, machineVars
<1>5. CASE ParseTheory
  BY <1>1, <1>2, <1>5, ParseTheoryKeeps DEF ParseTheory, Parse, machineVars
<1>6. CASE ParseQuery
  BY <1>1, <1>2, <1>6, ParseQueryKeeps DEF ParseQuery, Parse, machineVars
<1>7. CASE ParsingDone
  BY <1>1, <1>2, <1>7, ParsingDoneKeeps DEF ParsingDone, machineVars
<1>8. CASE ValidateRaw
  BY <1>1, <1>2, <1>8, ValidateRawKeeps DEF ValidateRaw, machineVars
<1>9. CASE RunTheory
  BY <1>9, RunControllerKeeps DEF RunTheory, Proceed, Components
<1>10. CASE RunQuery
  BY <1>10, RunControllerKeeps DEF RunQuery, Proceed, Components
<1>11. CASE ControlStep
  BY <1>11, ControlStepKeeps
<1>12. CASE TheoryDecided
  <2>1. RequestInv'
    BY <1>12, JudgeKeeps DEF TheoryDecided, Components
  <2> QED  BY <1>1, <1>12, <2>1 DEF TheoryDecided, Judge, machineVars
<1>13. CASE QueryDecided
  <2>1. RequestInv'
    BY <1>13, JudgeKeeps DEF QueryDecided, Components
  <2> QED  BY <1>1, <1>13, <2>1 DEF QueryDecided, Judge, machineVars
<1>14. CASE Reason
  BY <1>1, <1>2, <1>14, ReasonKeeps DEF Reason, machineVars
<1>15. CASE Verify
  BY <1>1, <1>2, <1>15, VerifyKeeps DEF Verify, machineVars
<1>16. CASE Unexpected
  BY <1>1, <1>2, <1>16, UnexpectedKeeps DEF Unexpected, machineVars
<1>17. CASE Cancel
  BY <1>1, <1>2, <1>17, CancelKeeps DEF Cancel, machineVars
<1>18. CASE Over \/ UNCHANGED allVars
  <2>1. UNCHANGED machineVars /\ UNCHANGED <<mode, policy, pc, parsed, decisions, trace, answer>>
    BY <1>18 DEF Over, allVars, pipelineVars
  <2> QED  BY <1>1, <1>2, <2>1, CancelKeeps
<1> QED  BY <1>3, <1>4, <1>5, <1>6, <1>7, <1>8, <1>9, <1>10, <1>11, <1>12, <1>13, <1>14,
            <1>15, <1>16, <1>17, <1>18 DEF PipelineNext, Run

(* The invariant the others follow from: the decisions under way and those *)
(* that are taken are consistent, and each stage has what it needs.        *)
THEOREM PipelineInvariant == PipelineSpec => []PInv
<1> QED  BY InitInv, NextInv, PTL DEF PipelineSpec

-----------------------------------------------------------------------------
(***************************************************************************)
(* The theorems.                                                           *)
(***************************************************************************)

(* In every run of the pipeline the controller takes transitions of its    *)
(* table only, corrects once, and repeats no task for another opinion.     *)
THEOREM Bounded == PipelineSpec => []TasksAreBounded
<1>1. PInv => TasksAreBounded
  BY MachineIsSound DEF PInv
<1> QED  BY <1>1, PipelineInvariant, PTL

(* What the controller accepts validates, and the last task is a critic's  *)
(* acceptance of that very candidate.                                      *)
THEOREM Judged == PipelineSpec => []AcceptedWasJudged
<1>1. PInv => AcceptedWasJudged
  BY MachineIsSound DEF PInv
<1> QED  BY <1>1, PipelineInvariant, PTL

(* What P1 may answer from validates, is another candidate than the raw    *)
(* one after a correction, and comes from no failed provider.              *)
THEOREM Corrected == PipelineSpec => []CorrectedIsValid
<1>1. PInv => CorrectedIsValid
  BY MachineIsSound DEF PInv
<1> QED  BY <1>1, PipelineInvariant, PTL

(* What a decision allows an answer from was judged and validates.         *)
THEOREM Decisions == PipelineSpec => []DecisionStands
BY Judged, Corrected, PTL DEF DecisionStands

(* An answer rests on all the evidence its policy demands, of both         *)
(* components, and on a verified proof.                                    *)
THEOREM Evidenced == PipelineSpec => []AnsweredOnEvidence
<1>1. PInv => AnsweredOnEvidence
  <2> SUFFICES ASSUME RequestInv
               PROVE  AnsweredOnEvidence
    BY DEF PInv
  <2>1. CASE pc = "done"
    BY <2>1 DEF RequestInv, Outcome
  <2>2. CASE pc # "done"
    <3>1. answer = NoAnswer
      BY <2>2 DEF RequestInv, UnderWay
    <3> QED  BY <3>1 DEF AnsweredOnEvidence, NoAnswer
  <2> QED  BY <2>1, <2>2
<1> QED  BY <1>1, PipelineInvariant, PTL

(* The controller gives up exactly when a provider failed, an error of a   *)
(* component stays an error, and a rejection stays an abstention.          *)
THEOREM Failures == PipelineSpec => []FailuresStayErrors
<1>1. PInv => FailuresStayErrors
  <2> SUFFICES ASSUME PInv
               PROVE  FailuresStayErrors
    OBVIOUS
  <2>1. decision # NoDecision =>
          (decision.state = "ERROR" <=>
             \E k \in 1..Len(tasks) : tasks[k].end \in ProviderFailures)
    BY MachineIsSound DEF PInv
  <2>2. pc = "done" => Outcome
    BY DEF PInv, RequestInv
  <2> QED  BY <2>1, <2>2 DEF FailuresStayErrors, Outcome
<1> QED  BY <1>1, PipelineInvariant, PTL

(* Every result has all stages in a terminal status, the last of which is  *)
(* that of the disposition; an error shows at its stage.                   *)
THEOREM Terminal == PipelineSpec => []TraceIsTerminal
<1>1. PInv => TraceIsTerminal
  BY DEF PInv, RequestInv, Outcome, TraceIsTerminal
<1> QED  BY <1>1, PipelineInvariant, PTL

(* The controller by itself, from any candidate and any verdicts.          *)
THEOREM ControllerIsSound ==
  Spec => [](TasksAreBounded /\ AcceptedWasJudged /\ CorrectedIsValid)
<1>1. Init => MachineInv
  BY Started DEF Init
<1>2. MachineInv /\ [Next]_machineVars => MachineInv'
  BY ControlKeeps, MachineStays DEF Next, Decided
<1>3. MachineInv => TasksAreBounded /\ AcceptedWasJudged /\ CorrectedIsValid
  BY MachineIsSound
<1> QED  BY <1>1, <1>2, <1>3, PTL DEF Spec

-----------------------------------------------------------------------------
(***************************************************************************)
(* A request gets on.                                                      *)
(***************************************************************************)

(* After its walk is continued, the machine is where the continuation ends. *)
LEMMA Arrives ==
  ASSUME path \in Seq(States), NEW t \in Seq(States), NEW n \in Nat \ {0}, Len(t) = n,
         path' = path \o t
  PROVE  State' = t[n]
<1>1. /\ Len(path \o t) = Len(path) + n
      /\ Len(path) \in Nat
      /\ \A k \in 1..Len(path) + n :
           (path \o t)[k] = IF k <= Len(path) THEN path[k] ELSE t[k - Len(path)]
  BY ConcatProperties, LenProperties
<1>2. Len(path) + n \in 1..Len(path) + n /\ (Len(path) + n) - Len(path) = n
      /\ ~(Len(path) + n <= Len(path))
  BY <1>1
<1> QED  BY <1>1, <1>2 DEF State

LEMMA DecidedState ==
  ASSUME path \in Seq(States), NEW c, NEW det, NEW reason
  PROVE  /\ \A x \in Final : Decide(<<x>>, c, det, reason) => State' = x
         /\ Decide(<<"REVALIDATING", "ABSTAINED">>, c, det, reason) => State' = "ABSTAINED"
<1>1. ASSUME NEW x \in Final, Decide(<<x>>, c, det, reason)
      PROVE  State' = x
  <2>1. x \in States
    BY DEF Final, States
  <2>2. path' = path \o <<x>> /\ <<x>> \in Seq(States) /\ Len(<<x>>) = 1 /\ <<x>>[1] = x
    BY <1>1, <2>1 DEF Decide
  <2> QED  BY <2>2, 1 \in Nat \ {0}, Arrives, Zenon
<1>2. ASSUME Decide(<<"REVALIDATING", "ABSTAINED">>, c, det, reason)
      PROVE  State' = "ABSTAINED"
  <2> DEFINE t == <<"REVALIDATING", "ABSTAINED">>
  <2>1. t \in Seq(States) /\ Len(t) = 2 /\ t[2] = "ABSTAINED"
    BY DEF States
  <2>2. path' = path \o t
    BY <1>2 DEF Decide
  <2> HIDE DEF t
  <2> QED  BY <2>1, <2>2, 2 \in Nat \ {0}, Arrives, Zenon
<1> QED  BY <1>1, <1>2

(* The four states in which the controller works come one after the other. *)
Forward(from, to) ==
  \/ from = "RAW" /\ to \in {"CRITIQUING", "CORRECTING"}
  \/ from = "CRITIQUING" /\ to \in Final \cup {"CORRECTING"}
  \/ from = "CORRECTING" /\ to \in Final \cup {"FINAL_CRITIQUE"}
  \/ from = "FINAL_CRITIQUE" /\ to \in Final

LEMMA CritiquesDecide ==
  ASSUME path \in Seq(States), CritiqueFails \/ CriticAccepts \/ CriticRejects
  PROVE  State' \in Final
<1>1. {"ERROR", "ABSTAINED", "ACCEPTED"} \subseteq Final
  BY DEF Final
<1>2. CASE CritiqueFails
  BY <1>1, <1>2, DecidedState DEF CritiqueFails
<1>3. CASE CriticAccepts
  BY <1>1, <1>3, DecidedState DEF CriticAccepts
<1>4. CASE CriticRejects
  BY <1>1, <1>4, DecidedState DEF CriticRejects
<1> QED  BY <1>2, <1>3, <1>4

LEMMA ControlGoesForward ==
  ASSUME path \in Seq(States), Control
  PROVE  Forward(State, State')
<1> DEFINE valid == <<"VALIDATING", "CRITIQUING">>
           invalid == <<"VALIDATING", "NEEDS_CORRECTION", "CORRECTING">>
           again == <<"REVALIDATING", "FINAL_CRITIQUE">>
           revise == <<"CORRECTING">>
<1>1. /\ valid \in Seq(States) /\ Len(valid) = 2 /\ valid[2] = "CRITIQUING"
      /\ invalid \in Seq(States) /\ Len(invalid) = 3 /\ invalid[3] = "CORRECTING"
      /\ again \in Seq(States) /\ Len(again) = 2 /\ again[2] = "FINAL_CRITIQUE"
      /\ revise \in Seq(States) /\ Len(revise) = 1 /\ revise[1] = "CORRECTING"
  BY DEF States
<1>2. CASE Validate
  <2>1. State = "RAW" /\ (path' = path \o valid \/ path' = path \o invalid)
    BY <1>2 DEF Validate
  <2> HIDE DEF valid, invalid
  <2>2. State' = valid[2] \/ State' = invalid[3]
    BY <1>1, <2>1, 2 \in Nat \ {0}, 3 \in Nat \ {0}, Arrives, Zenon
  <2> QED  BY <1>1, <2>1, <2>2 DEF Forward
<1>3. CASE FirstCritique
  <2>1. CASE CritiqueFails \/ CriticAccepts
    BY <1>3, <2>1, CritiquesDecide DEF FirstCritique, Forward
  <2>2. CASE path' = Append(path, "CORRECTING")
    <3>1. path' = path \o revise
      BY <2>2, AppendIsConcat DEF States
    <3> HIDE DEF revise
    <3>2. State' = "CORRECTING"
      BY <1>1, <3>1, Arrives
    <3> QED  BY <1>3, <3>2 DEF FirstCritique, Forward
  <2> QED  BY <1>3, <2>1, <2>2 DEF FirstCritique
<1>4. CASE Correct
  <2>1. {"ERROR", "ABSTAINED"} \subseteq Final /\ State = "CORRECTING"
    BY <1>4 DEF Final, Correct
  <2>2. ASSUME NEW f \in ProviderFailures, Decide(<<"ERROR">>, "none", FALSE, f)
        PROVE  State' \in Final
    BY <2>1, <2>2, DecidedState
  <2>3. CASE Decide(<<"ABSTAINED">>, "none", FALSE, "RESOURCE_LIMIT")
    BY <2>1, <2>3, DecidedState DEF Forward
  <2>4. ASSUME NEW c \in Candidates,
               \/ Decide(<<"ABSTAINED">>, c, FALSE, "NO_CORRECTION_PROGRESS")
               \/ Receive(c)
        PROVE  State' \in Final \cup {"FINAL_CRITIQUE"}
    <3>1. CASE Decide(<<"ABSTAINED">>, c, FALSE, "NO_CORRECTION_PROGRESS")
      BY <2>1, <3>1, DecidedState
    <3>2. CASE path' = path \o again
      <4> HIDE DEF again
      <4>1. State' = again[2]
        BY <1>1, <3>2, 2 \in Nat \ {0}, Arrives, Zenon
      <4> QED  BY <1>1, <4>1
    <3>3. CASE Decide(<<"REVALIDATING", "ABSTAINED">>, c, FALSE, InvalidReason(c))
      BY <2>1, <3>3, DecidedState
    <3> QED  BY <2>4, <3>1, <3>2, <3>3 DEF Receive
  <2> QED  BY <1>4, <2>1, <2>2, <2>3, <2>4 DEF Correct, Forward
<1>5. CASE FinalCritique
  BY <1>5, CritiquesDecide DEF FinalCritique, Forward
<1> QED  BY <1>2, <1>3, <1>4, <1>5 DEF Control

InControl == {"theory_control", "query_control"}

LEMMA ControlTakes ==
  ASSUME path \in Seq(States), Control, pc \in InControl, pc' = pc
  PROVE  ControlLeft' < ControlLeft
<1>1. Forward(State, State')
  BY ControlGoesForward
<1>2. \A x \in Final : x \notin {"RAW", "CRITIQUING", "CORRECTING", "FINAL_CRITIQUE"}
  BY DEF Final
<1> QED  BY <1>1, <1>2 DEF Forward, ControlLeft, InControl

LEMMA NextGetsOn ==
  PInv /\ [PipelineNext]_allVars => [StepsLeft' < StepsLeft]_allVars
<1> SUFFICES ASSUME PInv, PipelineNext, ~UNCHANGED allVars
             PROVE  StepsLeft' < StepsLeft
  OBVIOUS
<1>1. path \in Seq(States)
  BY DEF PInv, MachineInv, MachineType
<1>2. /\ ControlLeft \in 0..4 /\ ControlLeft' \in 0..4
      /\ pc \notin InControl => ControlLeft = 0
      /\ pc' \notin InControl => ControlLeft' = 0
  BY DEF ControlLeft, InControl
<1>3. StagesLeft \in 0..18 /\ ReadingsLeft \in 0..3
  BY DEF StagesLeft, ReadingsLeft
<1>4. /\ cancelled => StepsLeft = ControlLeft + ReadingsLeft
      /\ ~cancelled => StepsLeft = ControlLeft + 1 + StagesLeft
      /\ cancelled' => StepsLeft' = ControlLeft' + ReadingsLeft'
      /\ ~cancelled' => StepsLeft' = ControlLeft' + 1 + StagesLeft'
  BY <1>2, <1>3 DEF StepsLeft, StagesLeft, ReadingsLeft
<1>5. ASSUME NEW from, NEW to, pc = from, pc' = to, cancelled' = cancelled,
             from \notin InControl, to \notin InControl,
             <<from, to>> \in {<<"start", "reason">>, <<"start", "parse_theory">>,
                              <<"parse_theory", "parse_query">>, <<"parse_query", "parsed">>,
                              <<"parsed", "validate">>, <<"parsed", "theory">>,
                              <<"validate", "reason">>, <<"reason", "verify">>},
             from \in CheckPoints => ~cancelled
      PROVE  StepsLeft' < StepsLeft
  <2>1. StagesLeft' < StagesLeft
    BY <1>5 DEF StagesLeft
  <2>2. cancelled => ReadingsLeft' < ReadingsLeft
    BY <1>5 DEF ReadingsLeft, CheckPoints
  <2>3. StagesLeft' \in 0..18 /\ ReadingsLeft' \in 0..3
    BY DEF StagesLeft, ReadingsLeft
  <2> QED  BY <1>2, <1>3, <1>4, <1>5, <2>1, <2>2, <2>3
<1>6. CASE pc \in Points \ {"done", "cancelled"} /\ pc' \in {"done", "cancelled"}
           /\ cancelled' = cancelled
  <2>1. StagesLeft > 0 /\ ReadingsLeft > 0 /\ StagesLeft' = 0 /\ ReadingsLeft' = 0
    BY <1>6 DEF StagesLeft, ReadingsLeft, CheckPoints, Points
  <2>2. ControlLeft' = 0
    BY <1>2, <1>6 DEF InControl
  <2> QED  BY <1>2, <1>3, <1>4, <1>6, <2>1, <2>2
<1>7. CASE RunTheory \/ RunQuery
  <2>1. ~cancelled /\ ~cancelled' /\ ControlLeft = 0
        /\ \/ pc = "theory" /\ pc' = "theory_control"
           \/ pc = "query" /\ pc' = "query_control"
    BY <1>2, <1>7 DEF RunTheory, RunQuery, RunController, Proceed, InControl
  <2>2. StagesLeft' + 4 < StagesLeft /\ StagesLeft' \in 0..18
    BY <2>1 DEF StagesLeft
  <2>3. StepsLeft = ControlLeft + 1 + StagesLeft /\ StepsLeft' = ControlLeft' + 1 + StagesLeft'
    BY <1>4, <2>1
  <2>4. \A c, s, t \in Nat : c <= 4 /\ s + 4 < t => c + 1 + s < 0 + 1 + t
    OBVIOUS
  <2>5. ControlLeft' \in Nat /\ ControlLeft' <= 4 /\ StagesLeft \in Nat /\ StagesLeft' \in Nat
    BY <1>2, <1>3, <2>2
  <2>6. ControlLeft = 0
    BY <2>1
  <2> QED  BY <2>2, <2>3, <2>4, <2>5, <2>6
<1>8. CASE ControlStep
  <2>1. pc \in InControl /\ Control /\ pc' = pc /\ cancelled' = cancelled
    BY <1>8 DEF ControlStep, InControl, pipelineVars
  <2>2. ControlLeft' < ControlLeft
    BY <1>1, <2>1, ControlTakes
  <2>3. StagesLeft' = StagesLeft /\ ReadingsLeft' = ReadingsLeft
    BY <2>1 DEF StagesLeft, ReadingsLeft, CheckPoints
  <2> QED  BY <1>2, <1>3, <1>4, <2>1, <2>2, <2>3
<1>9. CASE \/ pc = "theory_control" /\ pc' = "query" /\ cancelled' = cancelled
           \/ pc = "query_control" /\ pc' = "reason" /\ cancelled' = cancelled
  <2>1. StagesLeft' < StagesLeft /\ ReadingsLeft' < ReadingsLeft
        /\ StagesLeft' \in 0..18 /\ ReadingsLeft' \in 0..3
    BY <1>9 DEF StagesLeft, ReadingsLeft, CheckPoints
  <2>2. ControlLeft' = 0
    BY <1>2, <1>9 DEF InControl
  <2> QED  BY <1>2, <1>3, <1>4, <1>9, <2>1, <2>2
<1>10. CASE Cancel
  <2>1. ~cancelled /\ cancelled' /\ pc' = pc /\ path' = path
    BY <1>10 DEF Cancel, machineVars
  <2>2. ControlLeft' = ControlLeft
    BY <2>1 DEF ControlLeft, State
  <2>3. ReadingsLeft' = ReadingsLeft /\ ReadingsLeft <= StagesLeft
    BY <2>1 DEF StagesLeft, ReadingsLeft, CheckPoints
  <2> QED  BY <1>2, <1>3, <1>4, <2>1, <2>2, <2>3
<1>11. pc \in Points
  BY DEF PInv, RequestInv, PipelineType
<1> USE DEF InControl, CheckPoints, Proceed
<1>12. CASE Stop \/ Unexpected
  BY <1>6, <1>11, <1>12 DEF Stop, Unexpected, Error
<1>13. CASE Begin \/ ParseTheory \/ ParseQuery
  BY <1>5, <1>13 DEF Begin, ParseTheory, ParseQuery, Parse
<1>14. CASE ParsingDone
  BY <1>5, <1>6, <1>11, <1>14 DEF ParsingDone, Error
<1>15. CASE ValidateRaw \/ Reason \/ Verify
  <2>1. pc' \in {"done", "reason", "verify"} /\ cancelled' = cancelled
    BY <1>15 DEF ValidateRaw, Reason, Verify, Error
  <2>2. \/ pc = "validate" /\ pc' \in {"done", "reason"}
        \/ pc = "reason" /\ ~cancelled /\ pc' \in {"done", "verify"}
        \/ pc = "verify" /\ pc' = "done"
    BY <1>15 DEF ValidateRaw, Reason, Verify, Error
  <2> QED  BY <1>5, <1>6, <1>11, <2>1, <2>2
<1>16. CASE TheoryDecided \/ QueryDecided
  BY <1>6, <1>9, <1>11, <1>16
     DEF TheoryDecided, QueryDecided, Judge, Error, Abstain
<1>17. ~Over
  BY DEF Over
<1> QED
  BY <1>7, <1>8, <1>10, <1>12, <1>13, <1>14, <1>15, <1>16, <1>17
     DEF PipelineNext, Run

(* A request gets on with every step, and a cancelled one no further than  *)
(* to the next reading of the flag.                                        *)
THEOREM GetsOn == PipelineSpec => RequestGetsOn
BY PipelineInvariant, NextGetsOn, PTL DEF PipelineSpec, RequestGetsOn
=============================================================================
