------------------------- MODULE SealedRecovery_proofs -------------------------
(***************************************************************************)
(* Proofs about the recovery experiments, for any theories, examples,      *)
(* runs, preserved responses and kills.                                    *)
(***************************************************************************)
EXTENDS SealedRecovery, FiniteSetTheorems, TLAPS

(* What the materialized cache should hold for a component. *)
IsExact(c) ==
  phase5[c] = IF world.source[c] = "success" THEN "success" ELSE "terminal"

JobOK ==
  /\ job = [name |-> job.name, run |-> job.run, at |-> job.at]
  /\ job.at \in Nat

(* A materialization has made exact what it has looked at, and is not      *)
(* started when the report of one is there.                                *)
MaterializationInv ==
  /\ world \in Worlds
  /\ phase5 \in [Components -> {"none", "success", "terminal", "other"}]
  /\ JobOK
  /\ job.name = "materialize" =>
       /\ ~materialized
       /\ \A j \in 1..Len(Order) : j < job.at => IsExact(Order[j])
  /\ materialized => \A c \in Components : IsExact(c)

LEMMA MaterializedIsExact ==
  ASSUME NEW c \in Components, world \in Worlds, Materialized(c) # "refused"
  PROVE  Materialized(c) = IF world.source[c] = "success" THEN "success" ELSE "terminal"
<1>1. world.source[c] \in {"success", "invalid", "missing"}
  BY WorldsAssumption
<1> QED  BY <1>1 DEF Materialized

LEMMA InitMaterialization == Init => MaterializationInv
  BY WorldsAssumption DEF Init, Idle, MaterializationInv, JobOK

LEMMA NextMaterialization == MaterializationInv /\ [Next]_vars => MaterializationInv'
<1> SUFFICES ASSUME MaterializationInv, [Next]_vars  PROVE MaterializationInv'
  OBVIOUS
<1> USE DEF MaterializationInv
<1>1. CASE StartMaterialize
  <2>1. job' = [name |-> "materialize", run |-> "none", at |-> 1]
    BY <1>1 DEF StartMaterialize, Job, JobAt
  <2>2. JobOK'
    BY <2>1 DEF JobOK
  <2> QED  BY <1>1, <2>1, <2>2 DEF StartMaterialize, IsExact
<1>2. CASE MaterializeOne
  <2> DEFINE c == Order[job.at]
  <2>1. job.at \in Nat /\ job.name = "materialize" /\ job.at <= Len(Order)
    BY <1>2 DEF MaterializeOne, JobOK
  <2>2. CASE Materialized(c) = "refused"
    <3>1. job' = Idle /\ UNCHANGED <<world, phase5, materialized>>
      BY <1>2, <2>2 DEF MaterializeOne, End
    <3> QED  BY <3>1 DEF Idle, JobOK, IsExact
  <2>3. CASE Materialized(c) # "refused"
    <3>1. /\ job' = [job EXCEPT !.at = job.at + 1]
          /\ phase5' = [phase5 EXCEPT ![c] = Materialized(c)]
          /\ UNCHANGED <<world, materialized>>
      BY <1>2, <2>3 DEF MaterializeOne, Step
    <3>2. /\ JobOK'
          /\ job'.name = "materialize" /\ job'.at = job.at + 1
      BY <2>1, <3>1 DEF JobOK
    <3>3. ~materialized
      BY <2>1
    <3>a. Len(Order) \in Nat /\ \A j \in 1..Len(Order) : Order[j] \in Components
      BY RunsAssumption
    <3>4. CASE job.at = 0
      <4>1. \A j \in 1..Len(Order) : ~(j < job'.at)
        BY <3>2, <3>4, <3>a
      <4>2. phase5' \in [Components -> {"none", "success", "terminal", "other"}]
        <5>1. CASE c \in Components
          BY <5>1, <2>3, <3>1, MaterializedIsExact
        <5>2. CASE c \notin Components
          BY <5>2, <3>1
        <5> QED  BY <5>1, <5>2
      <4> QED  BY <3>1, <3>2, <3>3, <4>1, <4>2
    <3>5. CASE job.at # 0
      <4>1. job.at \in 1..Len(Order) /\ c \in Components
        BY <2>1, <3>5, <3>a
      <4>2. Materialized(c) = IF world.source[c] = "success" THEN "success" ELSE "terminal"
        BY <4>1, <2>3, MaterializedIsExact
      <4>3. phase5' \in [Components -> {"none", "success", "terminal", "other"}]
        BY <4>1, <4>2, <3>1
      <4>4. phase5'[c] = Materialized(c) /\ \A d \in Components : d # c => phase5'[d] = phase5[d]
        BY <4>1, <3>1
      <4>5. ASSUME NEW j \in 1..Len(Order), j < job'.at
            PROVE  IsExact(Order[j])'
        <5>1. CASE Order[j] = c
          BY <5>1, <4>2, <4>4, <3>1 DEF IsExact
        <5>2. CASE Order[j] # c
          <6>1. j < job.at
            BY <5>2, <4>5, <2>1, <3>2, <3>a
          <6>2. IsExact(Order[j])
            BY <2>1, <6>1
          <6> QED  BY <5>2, <6>2, <3>a, <4>4, <3>1 DEF IsExact
        <5> QED  BY <5>1, <5>2
      <4> QED  BY <3>1, <3>2, <3>3, <4>3, <4>5
    <3> QED  BY <3>4, <3>5
  <2> QED  BY <2>2, <2>3
<1>3. CASE ReportMaterialization
  <2>1. /\ job.name = "materialize" /\ job.at > Len(Order)
        /\ job' = Idle /\ UNCHANGED <<world, phase5>>
        /\ job.at \in Nat
    BY <1>3 DEF ReportMaterialization, End, JobOK
  <2>2. ASSUME NEW d \in Components  PROVE IsExact(d)
    <3>1. PICK j \in 1..Len(Order) : Order[j] = d
      BY RunsAssumption
    <3>2. j < job.at
      BY <2>1, RunsAssumption
    <3> QED  BY <2>1, <3>1, <3>2
  <2> QED  BY <2>1, <2>2 DEF Idle, JobOK, IsExact
<1>4. ASSUME UNCHANGED <<world, phase5, materialized>>, JobOK', job'.name # "materialize"
      PROVE  MaterializationInv'
  BY <1>4 DEF IsExact
<1>5. ASSUME NEW r \in Runs, StartSeal(r) \/ StartUnsealed(r) \/ StartEvaluate(r)
      PROVE  MaterializationInv'
  BY <1>5, <1>4 DEF StartSeal, StartUnsealed, StartEvaluate, Job, JobAt, Idle, JobOK
<1>6. CASE DecideOne
  BY <1>6, <1>4 DEF DecideOne, Step, JobOK
<1>7. CASE SealOne \/ EvaluateRaw \/ ReportOne
  BY <1>7, <1>4 DEF SealOne, EvaluateRaw, ReportOne, Step, End, Job, JobAt, Idle, JobOK
<1>8. CASE EvaluateP0 \/ FinishP0 \/ WriteReport \/ Complete
  BY <1>8, <1>4 DEF EvaluateP0, FinishP0, WriteReport, Complete, Step, End, Idle, JobOK
<1>9. ASSUME NEW a \in Runs, NEW b \in Runs, Compare(a, b)  PROVE MaterializationInv'
  BY <1>9, <1>4 DEF Compare, Job, JobAt, JobOK
<1>10. CASE EndCompare \/ StartInterrupted \/ ReportInterrupted \/ Crash
  BY <1>10, <1>4 DEF EndCompare, StartInterrupted, ReportInterrupted, Crash, End, Job,
                     JobAt, Idle, JobOK
<1>11. CASE UNCHANGED vars
  BY <1>11 DEF vars, IsExact, JobOK
<1> QED  BY <1>1, <1>2, <1>3, <1>5, <1>6, <1>7, <1>8, <1>9, <1>10, <1>11 DEF Next

(* When the report of a materialization is there, every request of the     *)
(* parser resolves to the preserved success or to a terminal outcome,      *)
(* whatever was killed and started again (recovery_r3.py).                 *)
THEOREM Materialization == Spec => []MaterializationIsExact
<1>1. MaterializationInv => MaterializationIsExact
  BY DEF MaterializationInv, MaterializationIsExact, IsExact
<1> QED  BY <1>1, InitMaterialization, NextMaterialization, PTL DEF Spec

-----------------------------------------------------------------------------
(***************************************************************************)
(* The seal.  What SealIsEvidence asks of a directory, and what the        *)
(* command that is writing one has written so far.                         *)
(***************************************************************************)

Evidence == {"decisions", "policies", "audit", "ledger"}

DirOK(d) ==
  /\ d = [state |-> d.state, kind |-> d.kind, files |-> d.files,
          decisions |-> d.decisions, calls |-> d.calls, p0 |-> d.p0]
  /\ d.kind \in {"none", "sealed", "unsealed"}
  /\ d.kind = "none" \/ d.state = "none" => d = NoDirectory
  /\ "seal" \in d.files => Evidence \subseteq d.files /\ DOMAIN d.decisions = Components
  /\ d.kind = "sealed" /\ d.p0 # "none" => "seal" \in d.files
  /\ d.kind = "unsealed" =>
       /\ "seal" \notin d.files
       /\ "report" \in d.files => d.p0 = "complete" /\ DOMAIN d.decisions = Components
  /\ d.state = "sealed" => "seal" \in d.files
  /\ d.state = "complete" => "report" \in d.files

(* The components that are decided, and the files that are written, when a *)
(* command has come to its step number at.                                 *)
DecidedBefore(at) == {Order[j] : j \in {k \in 1..Len(Order) : k < at}}

WrittenBefore(artefacts, at) ==
  {artefacts[i] : i \in {k \in 1..Len(artefacts) : k + Len(Order) < at}}

Deciding(d, kind, artefacts, at) ==
  /\ d.kind = kind /\ d.state = "incomplete"
  /\ DOMAIN d.decisions = DecidedBefore(at)
  /\ d.files = WrittenBefore(artefacts, at)

SealJobOK(j, d) ==
  /\ j.name = "seal" => Deciding(d, "sealed", Artefacts, j.at) /\ d.p0 = "none"
  /\ j.name = "unsealed" =>
       /\ Deciding(d, "unsealed", UnsealedArtefacts, j.at)
       /\ j.at > 0 => d.p0 = "complete"
  /\ j.name = "evaluate" =>
       /\ j.at >= 2 => d.kind = "sealed" /\ "seal" \in d.files
       /\ j.at = 4 => "report" \in d.files

OnRun == {"seal", "unsealed", "evaluate"}

SealInv ==
  /\ JobOK
  /\ dirs = [r \in Runs |-> dirs[r]]
  /\ \A r \in Runs : DirOK(dirs[r])
  /\ job.name \in OnRun => job.run \in Runs /\ SealJobOK(job, dirs[job.run])

LEMMA AllDecided ==
  ASSUME NEW at \in Nat, at > Len(Order)
  PROVE  DecidedBefore(at) = Components
<1>1. Len(Order) \in Nat
  BY RunsAssumption
<1>2. {k \in 1..Len(Order) : k < at} = 1..Len(Order)
  BY <1>1
<1> QED  BY <1>2, RunsAssumption DEF DecidedBefore

LEMMA OneMoreDecided ==
  ASSUME NEW at \in 1..Len(Order)
  PROVE  DecidedBefore(at + 1) = {Order[at]} \cup DecidedBefore(at)
<1>1. Len(Order) \in Nat
  BY RunsAssumption
<1>2. {k \in 1..Len(Order) : k < at + 1} = {at} \cup {k \in 1..Len(Order) : k < at}
  BY <1>1
<1> QED  BY <1>2 DEF DecidedBefore

LEMMA NothingBefore ==
  ASSUME NEW artefacts, Len(artefacts) \in Nat, NEW at \in Nat, at <= Len(Order) + 1
  PROVE  WrittenBefore(artefacts, at) = {}
<1>1. Len(Order) \in Nat /\ Len(artefacts) \in Nat
  BY RunsAssumption
<1>2. {k \in 1..Len(artefacts) : k + Len(Order) < at} = {}
  BY <1>1
<1> QED  BY <1>2 DEF WrittenBefore

LEMMA OneMoreWritten ==
  ASSUME NEW artefacts, Len(artefacts) \in Nat, NEW at \in Nat,
         at - Len(Order) \in 1..Len(artefacts)
  PROVE  WrittenBefore(artefacts, at + 1)
           = WrittenBefore(artefacts, at) \cup {artefacts[at - Len(Order)]}
<1>1. Len(Order) \in Nat /\ Len(artefacts) \in Nat
  BY RunsAssumption
<1>2. {k \in 1..Len(artefacts) : k + Len(Order) < at + 1}
        = {k \in 1..Len(artefacts) : k + Len(Order) < at} \cup {at - Len(Order)}
  BY <1>1
<1> QED  BY <1>2 DEF WrittenBefore

LEMMA WrittenInOrder ==
  ASSUME NEW artefacts, Len(artefacts) \in Nat, NEW at \in Nat,
         NEW i \in 1..Len(artefacts), i + Len(Order) < at
  PROVE  artefacts[i] \in WrittenBefore(artefacts, at)
BY DEF WrittenBefore

LEMMA OnlyArtefacts ==
  ASSUME NEW artefacts, Len(artefacts) \in Nat, NEW at \in Nat,
         NEW file \in WrittenBefore(artefacts, at)
  PROVE  \E i \in 1..Len(artefacts) : file = artefacts[i] /\ i + Len(Order) < at
BY DEF WrittenBefore

LEMMA ArtefactCounts ==
  /\ Len(Artefacts) = 6 /\ Len(Artefacts) \in Nat
  /\ Len(UnsealedArtefacts) = 3 /\ Len(UnsealedArtefacts) \in Nat
BY DEF Artefacts, UnsealedArtefacts

LEMMA InitSeal == Init => SealInv
BY DEF Init, Idle, SealInv, JobOK, OnRun, DirOK, NoDirectory

(* A step that writes in one directory, or in none. *)
LEMMA OneDirectory ==
  ASSUME SealInv, NEW r \in Runs, JobOK',
         dirs' = [s \in Runs |-> dirs'[s]],
         \A s \in Runs : s # r => dirs'[s] = dirs[s],
         DirOK(dirs'[r]),
         job'.name \in OnRun => job'.run = r /\ SealJobOK(job', dirs'[r])
  PROVE  SealInv'
BY DEF SealInv

LEMMA SameDirectories ==
  ASSUME SealInv, UNCHANGED dirs, JobOK',
         job'.name \in OnRun => job'.run \in Runs /\ SealJobOK(job', dirs[job'.run])
  PROVE  SealInv'
BY DEF SealInv

LEMMA StartsKeepSeal ==
  ASSUME SealInv, NEW r \in Runs, StartSeal(r) \/ StartUnsealed(r) \/ StartEvaluate(r)
  PROVE  SealInv'
<1>0. Len(Order) \in Nat /\ 1 <= Len(Order) + 1
  BY RunsAssumption
<1>1. CASE StartEvaluate(r)
  <2>1. /\ UNCHANGED dirs
        /\ job' = [name |-> "evaluate", run |-> r, at |-> 1]
    BY <1>1 DEF StartEvaluate, Job, JobAt
  <2> QED  BY <2>1, SameDirectories DEF JobOK, SealJobOK
<1>2. CASE StartSeal(r) \/ StartUnsealed(r)
  <2>0. dirs[r] = NoDirectory /\ dirs = [s \in Runs |-> dirs[s]]
    BY <1>2 DEF StartSeal, StartUnsealed, SealInv, DirOK
  <2>1. /\ dirs' = [s \in Runs |-> dirs'[s]]
        /\ \A s \in Runs : s # r => dirs'[s] = dirs[s]
    BY <1>2, <2>0 DEF StartSeal, StartUnsealed
  <2>2. DecidedBefore(0) = {} /\ DecidedBefore(1) = {}
    BY DEF DecidedBefore
  <2>3. /\ WrittenBefore(Artefacts, 1) = {}
        /\ WrittenBefore(UnsealedArtefacts, 0) = {}
    BY <1>0, NothingBefore, ArtefactCounts
  <2>4. CASE StartSeal(r)
    <3>1. dirs'[r] = [state |-> "incomplete", kind |-> "sealed", files |-> {},
                      decisions |-> <<>>, calls |-> 0, p0 |-> "none"]
      <4>1. dirs'[r] = [NoDirectory EXCEPT !.state = "incomplete", !.kind = "sealed"]
        BY <2>4, <2>0 DEF StartSeal
      <4> QED  BY <4>1 DEF NoDirectory
    <3>2. job' = [name |-> "seal", run |-> r, at |-> 1] \/ job' = Idle
      BY <2>4 DEF StartSeal, Job, JobAt
    <3>3. JobOK'
      BY <3>2 DEF JobOK, Idle
    <3>4. DirOK(dirs'[r])
      BY <3>1 DEF DirOK
    <3>5. job'.name \in OnRun => job'.run = r /\ SealJobOK(job', dirs'[r])
      BY <3>1, <3>2, <2>2, <2>3 DEF SealJobOK, Deciding, OnRun, Idle
    <3> QED  BY <2>1, <3>3, <3>4, <3>5, OneDirectory
  <2>5. CASE StartUnsealed(r)
    <3>1. dirs'[r] = [state |-> "incomplete", kind |-> "unsealed", files |-> {},
                      decisions |-> <<>>, calls |-> 0, p0 |-> "none"]
      <4>1. dirs'[r] = [NoDirectory EXCEPT !.state = "incomplete", !.kind = "unsealed"]
        BY <2>5, <2>0 DEF StartUnsealed
      <4> QED  BY <4>1 DEF NoDirectory
    <3>2. job' = [name |-> "unsealed", run |-> r, at |-> 0]
      BY <2>5 DEF StartUnsealed, JobAt
    <3>3. JobOK'
      BY <3>2 DEF JobOK
    <3>4. DirOK(dirs'[r])
      BY <3>1 DEF DirOK
    <3>5. SealJobOK(job', dirs'[r])
      BY <3>1, <3>2, <2>2, <2>3 DEF SealJobOK, Deciding
    <3> QED  BY <2>1, <3>2, <3>3, <3>4, <3>5, OneDirectory
  <2> QED  BY <1>2, <2>4, <2>5
<1> QED  BY <1>1, <1>2

(* The directory that DecideOne, SealOne and ReportOne write in. *)
LEMMA DecideKeepsSeal == SealInv /\ DecideOne => SealInv'
<1> SUFFICES ASSUME SealInv, DecideOne  PROVE SealInv'
  OBVIOUS
<1> DEFINE r == job.run
           d == dirs[r]
           c == Order[job.at]
<1>1. /\ job.name \in {"seal", "unsealed"} /\ job.at \in 1..Len(Order)
      /\ job.at \in Nat /\ Len(Order) \in Nat
      /\ r \in Runs /\ DirOK(d) /\ SealJobOK(job, d)
      /\ dirs = [s \in Runs |-> dirs[s]]
  BY RunsAssumption DEF DecideOne, SealInv, JobOK, OnRun
<1>2. job' = [name |-> job.name, run |-> r, at |-> job.at + 1]
  BY DEF DecideOne, Step, SealInv, JobOK
<1>3. PICK ds : /\ DOMAIN ds = {c} \cup DOMAIN d.decisions
                /\ dirs' = [dirs EXCEPT ![r].decisions = ds]
  <2>1. PICK end : dirs' = [dirs EXCEPT ![r].decisions =
                     [x \in {c} \cup DOMAIN Decided(r) |->
                        IF x = c THEN DecisionOf(end, <<c, RawValid(c, Decided(r))>>[2])
                                 ELSE Decided(r)[x]]]
    BY DEF DecideOne
  <2> QED  BY <2>1 DEF Decided
<1>4. /\ dirs' = [s \in Runs |-> dirs'[s]]
      /\ \A s \in Runs : s # r => dirs'[s] = dirs[s]
      /\ dirs'[r] = [state |-> d.state, kind |-> d.kind, files |-> d.files,
                     decisions |-> ds, calls |-> d.calls, p0 |-> d.p0]
  <2>1. d = [state |-> d.state, kind |-> d.kind, files |-> d.files,
             decisions |-> d.decisions, calls |-> d.calls, p0 |-> d.p0]
    BY <1>1 DEF DirOK
  <2>2. dirs'[r] = [d EXCEPT !.decisions = ds]
    BY <1>1, <1>3
  <2>3. dirs' = [s \in Runs |-> dirs'[s]] /\ \A s \in Runs : s # r => dirs'[s] = dirs[s]
    BY <1>1, <1>3
  <2> HIDE DEF d
  <2> QED  BY <2>1, <2>2, <2>3
<1>5. DecidedBefore(job.at + 1) = {c} \cup DecidedBefore(job.at)
  BY <1>1, OneMoreDecided
<1>6. /\ WrittenBefore(Artefacts, job.at) = {} /\ WrittenBefore(Artefacts, job.at + 1) = {}
      /\ WrittenBefore(UnsealedArtefacts, job.at) = {}
      /\ WrittenBefore(UnsealedArtefacts, job.at + 1) = {}
  BY <1>1, NothingBefore, ArtefactCounts
<1> HIDE DEF d, c
<1>7. d.files = {}
  BY <1>1, <1>6 DEF SealJobOK, Deciding
<1>8. DirOK(dirs'[r])
  BY <1>1, <1>4, <1>7 DEF DirOK, SealJobOK, Deciding, NoDirectory
<1>9. SealJobOK(job', dirs'[r])
  <2>1. job'.name = job.name /\ job'.at = job.at + 1
    BY <1>2
  <2>2. dirs'[r].kind = d.kind /\ dirs'[r].state = d.state /\ dirs'[r].files = d.files
        /\ dirs'[r].p0 = d.p0 /\ DOMAIN dirs'[r].decisions = {c} \cup DOMAIN d.decisions
    BY <1>3, <1>4
  <2>3. CASE job.name = "seal"
    BY <2>1, <2>2, <2>3, <1>1, <1>5, <1>6 DEF SealJobOK, Deciding
  <2>4. CASE job.name = "unsealed"
    <3>1. d.p0 = "complete" /\ Deciding(d, "unsealed", UnsealedArtefacts, job.at)
      BY <1>1, <2>4 DEF SealJobOK
    <3>2. Deciding(dirs'[r], "unsealed", UnsealedArtefacts, job.at + 1)
      BY <3>1, <2>2, <1>1, <1>5, <1>6 DEF Deciding
    <3> QED  BY <3>1, <3>2, <2>1, <2>2, <2>4 DEF SealJobOK
  <2> QED  BY <1>1, <2>3, <2>4
<1>10. JobOK'
  BY <1>1, <1>2 DEF JobOK
<1> QED  BY <1>1, <1>2, <1>4, <1>8, <1>9, <1>10, OneDirectory

(* A file more, and the number of calls. *)
WithFile(d, file, n) ==
  [state |-> d.state, kind |-> d.kind, files |-> d.files \cup {file},
   decisions |-> d.decisions, calls |-> n, p0 |-> d.p0]

LEMMA SealOneKeepsSeal == SealInv /\ SealOne => SealInv'
<1> SUFFICES ASSUME SealInv, SealOne  PROVE SealInv'
  OBVIOUS
<1> DEFINE r == job.run
           d == dirs[r]
           k == job.at - Len(Order)
<1>1. /\ job.name = "seal" /\ job.at > Len(Order)
      /\ job.at \in Nat /\ Len(Order) \in Nat /\ k \in Nat \ {0}
      /\ r \in Runs /\ DirOK(d)
      /\ Deciding(d, "sealed", Artefacts, job.at) /\ d.p0 = "none"
      /\ dirs = [s \in Runs |-> dirs[s]]
  BY RunsAssumption DEF SealOne, SealInv, JobOK, OnRun, SealJobOK
<1>2. d = [state |-> d.state, kind |-> d.kind, files |-> d.files,
           decisions |-> d.decisions, calls |-> d.calls, p0 |-> d.p0]
  BY <1>1 DEF DirOK
<1>3. DOMAIN d.decisions = Components /\ DecidedBefore(job.at + 1) = Components
  BY <1>1, AllDecided DEF Deciding
<1>4. CASE k <= Len(Artefacts)
  <2>1. /\ job' = [name |-> "seal", run |-> r, at |-> job.at + 1]
        /\ dirs' = [dirs EXCEPT ![r].files = @ \cup {Artefacts[k]}, ![r].calls = calls]
    <3>1. Step /\ dirs' = [dirs EXCEPT ![r].files = @ \cup {Artefacts[k]}, ![r].calls = calls]
      <4> HIDE DEF k
      <4>1. ~(k > Len(Artefacts))
        BY <1>1, <1>4, ArtefactCounts
      <4> USE DEF k
      <4> QED  BY <4>1 DEF SealOne
    <3>2. job = [name |-> job.name, run |-> r, at |-> job.at]
      BY DEF SealInv, JobOK
    <3> QED  BY <1>1, <3>1, <3>2 DEF Step
  <2>2. /\ dirs' = [s \in Runs |-> dirs'[s]]
        /\ \A s \in Runs : s # r => dirs'[s] = dirs[s]
    BY <1>1, <2>1
  <2>3. dirs'[r] = WithFile(d, Artefacts[k], calls)
    <3>1. dirs'[r] = [d EXCEPT !.files = d.files \cup {Artefacts[k]}, !.calls = calls]
      BY <1>1, <2>1
    <3> HIDE DEF d, k
    <3> QED  BY <1>2, <3>1 DEF WithFile
  <2>4. Artefacts[k] = "seal" => Evidence \subseteq d.files
    <3>1. SUFFICES ASSUME Artefacts[k] = "seal"  PROVE Evidence \subseteq d.files
      OBVIOUS
    <3>2. k = 6
      BY <1>1, <1>4, <3>1, ArtefactCounts DEF Artefacts
    <3>3. ASSUME NEW n \in 1..4  PROVE Artefacts[n] \in d.files
      <4>1. n \in 1..Len(Artefacts) /\ n + Len(Order) < job.at
        BY <1>1, <3>2, ArtefactCounts
      <4>2. Artefacts[n] \in WrittenBefore(Artefacts, job.at)
        BY <4>1, <1>1, ArtefactCounts, WrittenInOrder
      <4> QED  BY <4>2, <1>1 DEF Deciding
    <3> QED  BY <3>3 DEF Evidence, Artefacts
  <2>5. WrittenBefore(Artefacts, job.at + 1) = d.files \cup {Artefacts[k]}
    <3>1. job.at - Len(Order) \in 1..Len(Artefacts) /\ Len(Artefacts) \in Nat
      BY <1>1, <1>4, ArtefactCounts
    <3>2. WrittenBefore(Artefacts, job.at + 1)
            = WrittenBefore(Artefacts, job.at) \cup {Artefacts[job.at - Len(Order)]}
      BY <1>1, <3>1, OneMoreWritten
    <3> QED  BY <1>1, <3>2 DEF Deciding
  <2>6. "seal" \notin d.files
    <3>1. SUFFICES ASSUME "seal" \in d.files  PROVE FALSE
      OBVIOUS
    <3>4. "seal" \in WrittenBefore(Artefacts, job.at)
      BY <1>1, <3>1 DEF Deciding
    <3>2. PICK n \in 1..Len(Artefacts) : Artefacts[n] = "seal" /\ n + Len(Order) < job.at
      BY <1>1, <3>4, OnlyArtefacts, ArtefactCounts
    <3>3. n = 6
      BY <3>2, ArtefactCounts DEF Artefacts
    <3> QED  BY <1>1, <1>4, <3>2, <3>3, ArtefactCounts
  <2> HIDE DEF d, k
  <2>7. DirOK(dirs'[r])
    BY <1>1, <1>3, <2>3, <2>4, <2>6 DEF DirOK, WithFile, Deciding, NoDirectory
  <2>8. SealJobOK(job', dirs'[r])
    BY <1>1, <1>3, <2>1, <2>3, <2>5 DEF SealJobOK, WithFile, Deciding
  <2>9. JobOK'
    BY <1>1, <2>1 DEF JobOK
  <2> QED  BY <1>1, <2>1, <2>2, <2>7, <2>8, <2>9, OneDirectory
<1>5. CASE k > Len(Artefacts)
  <2>1. /\ job' = [name |-> "evaluate", run |-> r, at |-> 1]
        /\ dirs' = [dirs EXCEPT ![r].state = "sealed"]
    BY <1>1, <1>5, ArtefactCounts DEF SealOne, Job, JobAt
  <2>2. /\ dirs' = [s \in Runs |-> dirs'[s]]
        /\ \A s \in Runs : s # r => dirs'[s] = dirs[s]
    BY <1>1, <2>1
  <2>3. dirs'[r] = [state |-> "sealed", kind |-> d.kind, files |-> d.files,
                    decisions |-> d.decisions, calls |-> d.calls, p0 |-> d.p0]
    <3>1. dirs'[r] = [d EXCEPT !.state = "sealed"]
      BY <1>1, <2>1
    <3> HIDE DEF d
    <3> QED  BY <1>2, <3>1
  <2>4. "seal" \in d.files
    <3>1. Artefacts[6] \in WrittenBefore(Artefacts, job.at)
      <4>1. 6 \in 1..Len(Artefacts) /\ 6 + Len(Order) < job.at
        BY <1>1, <1>5, ArtefactCounts
      <4> QED  BY <4>1, <1>1, ArtefactCounts, WrittenInOrder
    <3> QED  BY <1>1, <3>1 DEF Deciding, Artefacts
  <2> HIDE DEF d
  <2>5. DirOK(dirs'[r])
    BY <1>1, <2>3, <2>4 DEF DirOK, Deciding, NoDirectory
  <2>6. SealJobOK(job', dirs'[r]) /\ JobOK'
    BY <1>1, <2>1 DEF SealJobOK, JobOK
  <2> QED  BY <1>1, <2>1, <2>2, <2>5, <2>6, OneDirectory
<1> QED  BY <1>1, <1>4, <1>5, ArtefactCounts

LEMMA ReportOneKeepsSeal == SealInv /\ ReportOne => SealInv'
<1> SUFFICES ASSUME SealInv, ReportOne  PROVE SealInv'
  OBVIOUS
<1> DEFINE r == job.run
           d == dirs[r]
           k == job.at - Len(Order)
<1>1. /\ job.name = "unsealed" /\ job.at > Len(Order)
      /\ job.at \in Nat /\ Len(Order) \in Nat /\ k \in Nat \ {0}
      /\ r \in Runs /\ DirOK(d)
      /\ Deciding(d, "unsealed", UnsealedArtefacts, job.at) /\ d.p0 = "complete"
      /\ dirs = [s \in Runs |-> dirs[s]]
  BY RunsAssumption DEF ReportOne, SealInv, JobOK, OnRun, SealJobOK
<1>2. d = [state |-> d.state, kind |-> d.kind, files |-> d.files,
           decisions |-> d.decisions, calls |-> d.calls, p0 |-> d.p0]
  BY <1>1 DEF DirOK
<1>3. DOMAIN d.decisions = Components /\ DecidedBefore(job.at + 1) = Components
  BY <1>1, AllDecided DEF Deciding
<1>4. CASE k <= Len(UnsealedArtefacts)
  <2>1. /\ job' = [name |-> "unsealed", run |-> r, at |-> job.at + 1]
        /\ dirs' = [dirs EXCEPT ![r].files = @ \cup {UnsealedArtefacts[k]},
                                ![r].calls = calls]
    <3>1. Step /\ dirs' = [dirs EXCEPT ![r].files = @ \cup {UnsealedArtefacts[k]}, ![r].calls = calls]
      <4> HIDE DEF k
      <4>1. ~(k > Len(UnsealedArtefacts))
        BY <1>1, <1>4, ArtefactCounts
      <4> USE DEF k
      <4> QED  BY <4>1 DEF ReportOne
    <3>2. job = [name |-> job.name, run |-> r, at |-> job.at]
      BY DEF SealInv, JobOK
    <3> QED  BY <1>1, <3>1, <3>2 DEF Step
  <2>2. /\ dirs' = [s \in Runs |-> dirs'[s]]
        /\ \A s \in Runs : s # r => dirs'[s] = dirs[s]
    BY <1>1, <2>1
  <2>3. dirs'[r] = WithFile(d, UnsealedArtefacts[k], calls)
    <3>1. dirs'[r] = [d EXCEPT !.files = d.files \cup {UnsealedArtefacts[k]}, !.calls = calls]
      BY <1>1, <2>1
    <3> HIDE DEF d, k
    <3> QED  BY <1>2, <3>1 DEF WithFile
  <2>4. UnsealedArtefacts[k] # "seal"
    BY <1>1, <1>4, ArtefactCounts DEF UnsealedArtefacts
  <2>5. WrittenBefore(UnsealedArtefacts, job.at + 1) = d.files \cup {UnsealedArtefacts[k]}
    <3>1. job.at - Len(Order) \in 1..Len(UnsealedArtefacts) /\ Len(UnsealedArtefacts) \in Nat
      BY <1>1, <1>4, ArtefactCounts
    <3>2. WrittenBefore(UnsealedArtefacts, job.at + 1)
            = WrittenBefore(UnsealedArtefacts, job.at) \cup {UnsealedArtefacts[job.at - Len(Order)]}
      BY <1>1, <3>1, OneMoreWritten
    <3> QED  BY <1>1, <3>2 DEF Deciding
  <2> HIDE DEF d, k
  <2>6. DirOK(dirs'[r])
    BY <1>1, <1>3, <2>3, <2>4 DEF DirOK, WithFile, Deciding, NoDirectory
  <2>7. SealJobOK(job', dirs'[r])
    BY <1>1, <1>3, <2>1, <2>3, <2>5 DEF SealJobOK, WithFile, Deciding
  <2>8. JobOK'
    BY <1>1, <2>1 DEF JobOK
  <2> QED  BY <1>1, <2>1, <2>2, <2>6, <2>7, <2>8, OneDirectory
<1>5. CASE k > Len(UnsealedArtefacts)
  <2>1. job' = Idle /\ dirs' = [dirs EXCEPT ![r].state = "complete"]
    BY <1>1, <1>5, ArtefactCounts DEF ReportOne, End
  <2>2. /\ dirs' = [s \in Runs |-> dirs'[s]]
        /\ \A s \in Runs : s # r => dirs'[s] = dirs[s]
    BY <1>1, <2>1
  <2>3. dirs'[r] = [state |-> "complete", kind |-> d.kind, files |-> d.files,
                    decisions |-> d.decisions, calls |-> d.calls, p0 |-> d.p0]
    <3>1. dirs'[r] = [d EXCEPT !.state = "complete"]
      BY <1>1, <2>1
    <3> HIDE DEF d
    <3> QED  BY <1>2, <3>1
  <2>4. "report" \in d.files
    <3>1. UnsealedArtefacts[3] \in WrittenBefore(UnsealedArtefacts, job.at)
      <4>1. 3 \in 1..Len(UnsealedArtefacts) /\ 3 + Len(Order) < job.at
        BY <1>1, <1>5, ArtefactCounts
      <4> QED  BY <4>1, <1>1, ArtefactCounts, WrittenInOrder
    <3> QED  BY <1>1, <3>1 DEF Deciding, UnsealedArtefacts
  <2> HIDE DEF d
  <2>5. DirOK(dirs'[r])
    BY <1>1, <2>3, <2>4 DEF DirOK, Deciding, NoDirectory
  <2>6. JobOK' /\ job'.name \notin OnRun
    BY <2>1 DEF Idle, JobOK, OnRun
  <2> QED  BY <1>1, <2>2, <2>5, <2>6, OneDirectory
<1> QED  BY <1>1, <1>4, <1>5, ArtefactCounts

LEMMA EvaluateRawKeepsSeal == SealInv /\ EvaluateRaw => SealInv'
<1> SUFFICES ASSUME SealInv, EvaluateRaw  PROVE SealInv'
  OBVIOUS
<1> DEFINE r == job.run
           d == dirs[r]
<1>1. /\ job.name = "unsealed" /\ job.at = 0
      /\ r \in Runs /\ DirOK(d)
      /\ Deciding(d, "unsealed", UnsealedArtefacts, 0)
      /\ dirs = [s \in Runs |-> dirs[s]]
  BY DEF EvaluateRaw, SealInv, OnRun, SealJobOK
<1>2. d = [state |-> d.state, kind |-> d.kind, files |-> d.files,
           decisions |-> d.decisions, calls |-> d.calls, p0 |-> d.p0]
  BY <1>1 DEF DirOK
<1>3. /\ dirs' = [dirs EXCEPT ![r].p0 = "complete"]
      /\ job' = [name |-> "unsealed", run |-> r, at |-> 1] \/ job' = Idle
  <2>1. job = [name |-> "unsealed", run |-> r, at |-> 0]
    BY <1>1 DEF SealInv, JobOK
  <2>2. dirs' = [dirs EXCEPT ![r].p0 = "complete"] /\ (Step \/ End)
    BY DEF EvaluateRaw
  <2> QED  BY <2>1, <2>2 DEF Step, End
<1>4. /\ dirs' = [s \in Runs |-> dirs'[s]]
      /\ \A s \in Runs : s # r => dirs'[s] = dirs[s]
  BY <1>1, <1>3
<1>5. dirs'[r] = [state |-> d.state, kind |-> d.kind, files |-> d.files,
                  decisions |-> d.decisions, calls |-> d.calls, p0 |-> "complete"]
  <2>1. dirs'[r] = [d EXCEPT !.p0 = "complete"]
    BY <1>1, <1>3
  <2> HIDE DEF d
  <2> QED  BY <1>2, <2>1
<1>6. /\ WrittenBefore(UnsealedArtefacts, 0) = {} /\ WrittenBefore(UnsealedArtefacts, 1) = {}
      /\ DecidedBefore(0) = {} /\ DecidedBefore(1) = {}
  <2>1. Len(Order) \in Nat
    BY RunsAssumption
  <2>2. 0 <= Len(Order) + 1 /\ 1 <= Len(Order) + 1
    BY <2>1
  <2>3. WrittenBefore(UnsealedArtefacts, 0) = {} /\ WrittenBefore(UnsealedArtefacts, 1) = {}
    BY <2>2, NothingBefore, ArtefactCounts
  <2> QED  BY <2>3 DEF DecidedBefore
<1> HIDE DEF d
<1>7. DirOK(dirs'[r])
  BY <1>1, <1>5, <1>6 DEF DirOK, Deciding, NoDirectory
<1>8. SealJobOK([name |-> "unsealed", run |-> r, at |-> 1], dirs'[r])
  BY <1>1, <1>5, <1>6 DEF SealJobOK, Deciding
<1>9. JobOK'
  BY <1>3 DEF JobOK, Idle
<1>10. job'.name \in OnRun => job'.run = r /\ SealJobOK(job', dirs'[r])
  BY <1>3, <1>8 DEF Idle, OnRun
<1> QED  BY <1>1, <1>4, <1>7, <1>9, <1>10, OneDirectory

(* The evaluation of a sealed run: P0 and the report come after the seal.  *)
LEMMA EvaluateKeepsSeal ==
  SealInv /\ (EvaluateP0 \/ FinishP0 \/ WriteReport \/ Complete) => SealInv'
<1> SUFFICES ASSUME SealInv, EvaluateP0 \/ FinishP0 \/ WriteReport \/ Complete
             PROVE  SealInv'
  OBVIOUS
<1> DEFINE r == job.run
           d == dirs[r]
<1>1. /\ job.name = "evaluate" /\ job.at \in Nat
      /\ r \in Runs /\ DirOK(d) /\ SealJobOK(job, d)
      /\ job = [name |-> job.name, run |-> r, at |-> job.at]
      /\ dirs = [s \in Runs |-> dirs[s]]
  BY DEF EvaluateP0, FinishP0, WriteReport, Complete, SealInv, JobOK, OnRun
<1>2. d = [state |-> d.state, kind |-> d.kind, files |-> d.files,
           decisions |-> d.decisions, calls |-> d.calls, p0 |-> d.p0]
  BY <1>1 DEF DirOK
<1>3. Evaluable(r) => d.kind = "sealed" /\ "seal" \in d.files
  <2> HIDE DEF d
  <2>1. Evaluable(r) => "seal" \in dirs[r].files
    BY DEF Evaluable, Sealed
  <2> USE DEF d
  <2>2. "seal" \in d.files => d.kind = "sealed"
    BY <1>1 DEF DirOK, NoDirectory
  <2> QED  BY <2>1, <2>2
<1>4. CASE EvaluateP0 /\ ~Evaluable(r)
  <2>1. job' = Idle /\ UNCHANGED dirs
    BY <1>4 DEF EvaluateP0, End
  <2> QED  BY <2>1, SameDirectories DEF Idle, JobOK, OnRun
<1>5. CASE EvaluateP0 /\ Evaluable(r)
  <2>1. /\ dirs' = [dirs EXCEPT ![r].p0 = "begun"]
        /\ job' = [name |-> "evaluate", run |-> r, at |-> 2]
    BY <1>1, <1>5 DEF EvaluateP0, Step
  <2>2. dirs'[r] = [d EXCEPT !.p0 = "begun"]
    BY <1>1, <2>1
  <2>3. /\ dirs' = [s \in Runs |-> dirs'[s]]
        /\ \A s \in Runs : s # r => dirs'[s] = dirs[s]
    BY <1>1, <2>1
  <2>4. JobOK'
    BY <2>1 DEF JobOK
  <2>5. d.kind = "sealed" /\ "seal" \in d.files
    BY <1>3, <1>5
  <2> HIDE DEF d
  <2>6. dirs'[r] = [state |-> d.state, kind |-> d.kind, files |-> d.files,
                    decisions |-> d.decisions, calls |-> d.calls, p0 |-> "begun"]
    BY <1>2, <2>2
  <2>7. DirOK(dirs'[r]) /\ SealJobOK(job', dirs'[r])
    BY <1>1, <2>1, <2>5, <2>6 DEF DirOK, SealJobOK, NoDirectory
  <2> QED  BY <1>1, <2>1, <2>3, <2>4, <2>7, OneDirectory
<1>6. CASE FinishP0
  <2>1. /\ job.at = 2
        /\ dirs' = [dirs EXCEPT ![r].p0 = "complete"]
        /\ job' = [name |-> "evaluate", run |-> r, at |-> 3] \/ job' = Idle
    BY <1>1, <1>6 DEF FinishP0, Step, End
  <2>2. dirs'[r] = [d EXCEPT !.p0 = "complete"]
    BY <1>1, <2>1
  <2>3. /\ dirs' = [s \in Runs |-> dirs'[s]]
        /\ \A s \in Runs : s # r => dirs'[s] = dirs[s]
    BY <1>1, <2>1
  <2>4. JobOK'
    BY <2>1 DEF JobOK, Idle
  <2>5. d.kind = "sealed" /\ "seal" \in d.files
    BY <1>1, <2>1 DEF SealJobOK
  <2> HIDE DEF d
  <2>6. dirs'[r] = [state |-> d.state, kind |-> d.kind, files |-> d.files,
                    decisions |-> d.decisions, calls |-> d.calls, p0 |-> "complete"]
    BY <1>2, <2>2
  <2>7. DirOK(dirs'[r])
    BY <1>1, <2>5, <2>6 DEF DirOK, NoDirectory
  <2>8. job'.name \in OnRun => job'.run = r /\ SealJobOK(job', dirs'[r])
    BY <2>1, <2>5, <2>6 DEF SealJobOK, OnRun, Idle
  <2> QED  BY <1>1, <2>3, <2>4, <2>7, <2>8, OneDirectory
<1>7. CASE WriteReport
  <2>1. /\ job.at = 3
        /\ dirs' = [dirs EXCEPT ![r].files = @ \cup {"report"}]
        /\ job' = [name |-> "evaluate", run |-> r, at |-> 4]
    BY <1>1, <1>7 DEF WriteReport, Step
  <2>2. dirs'[r] = [d EXCEPT !.files = d.files \cup {"report"}]
    BY <1>1, <2>1
  <2>3. /\ dirs' = [s \in Runs |-> dirs'[s]]
        /\ \A s \in Runs : s # r => dirs'[s] = dirs[s]
    BY <1>1, <2>1
  <2>4. JobOK'
    BY <2>1 DEF JobOK
  <2>5. d.kind = "sealed" /\ "seal" \in d.files
    BY <1>1, <2>1 DEF SealJobOK
  <2> HIDE DEF d
  <2>6. dirs'[r] = WithFile(d, "report", d.calls)
    BY <1>2, <2>2 DEF WithFile
  <2>7. DirOK(dirs'[r])
    BY <1>1, <2>5, <2>6 DEF DirOK, WithFile, NoDirectory
  <2>8. SealJobOK(job', dirs'[r])
    BY <2>1, <2>5, <2>6 DEF SealJobOK, WithFile
  <2> QED  BY <1>1, <2>1, <2>3, <2>4, <2>7, <2>8, OneDirectory
<1>8. CASE Complete
  <2>1. /\ job.at = 4
        /\ dirs' = [dirs EXCEPT ![r].state = "complete"]
        /\ job' = Idle
    BY <1>1, <1>8 DEF Complete, End
  <2>2. dirs'[r] = [d EXCEPT !.state = "complete"]
    BY <1>1, <2>1
  <2>3. /\ dirs' = [s \in Runs |-> dirs'[s]]
        /\ \A s \in Runs : s # r => dirs'[s] = dirs[s]
    BY <1>1, <2>1
  <2>4. JobOK' /\ job'.name \notin OnRun
    BY <2>1 DEF JobOK, Idle, OnRun
  <2>5. d.kind = "sealed" /\ "seal" \in d.files /\ "report" \in d.files
    BY <1>1, <2>1 DEF SealJobOK
  <2> HIDE DEF d
  <2>6. dirs'[r] = [state |-> "complete", kind |-> d.kind, files |-> d.files,
                    decisions |-> d.decisions, calls |-> d.calls, p0 |-> d.p0]
    BY <1>2, <2>2
  <2>7. DirOK(dirs'[r])
    BY <1>1, <2>5, <2>6 DEF DirOK, NoDirectory
  <2> QED  BY <1>1, <2>3, <2>4, <2>7, OneDirectory
<1> QED  BY <1>4, <1>5, <1>6, <1>7, <1>8

LEMMA NextSeal == SealInv /\ [Next]_vars => SealInv'
<1> SUFFICES ASSUME SealInv, [Next]_vars  PROVE SealInv'
  OBVIOUS
<1>0. JobOK
  BY DEF SealInv
<1>1. ASSUME UNCHANGED dirs, JobOK', job'.name \notin OnRun  PROVE SealInv'
  BY <1>1, SameDirectories
<1>2. CASE StartMaterialize
  BY <1>2, <1>1 DEF StartMaterialize, Job, JobAt, JobOK, OnRun
<1>3. CASE MaterializeOne
  <2>1. job' = Idle \/ job' = [job EXCEPT !.at = job.at + 1]
    BY <1>3 DEF MaterializeOne, Step, End
  <2>2. job.name = "materialize" /\ UNCHANGED dirs
    BY <1>3 DEF MaterializeOne
  <2> QED  BY <1>0, <1>1, <2>1, <2>2 DEF Idle, JobOK, OnRun
<1>4. CASE ReportMaterialization
  BY <1>4, <1>1 DEF ReportMaterialization, End, Idle, JobOK, OnRun
<1>5. ASSUME NEW a \in Runs, NEW b \in Runs, Compare(a, b)  PROVE SealInv'
  BY <1>5, <1>1 DEF Compare, Job, JobAt, JobOK, OnRun
<1>6. CASE EndCompare \/ StartInterrupted \/ ReportInterrupted \/ Crash
  BY <1>6, <1>1 DEF EndCompare, StartInterrupted, ReportInterrupted, Crash, End, Job,
                    JobAt, Idle, JobOK, OnRun
<1>7. CASE UNCHANGED vars
  BY <1>7 DEF vars, SealInv, JobOK
<1> QED  BY <1>2, <1>3, <1>4, <1>5, <1>6, <1>7, StartsKeepSeal, DecideKeepsSeal,
            SealOneKeepsSeal, ReportOneKeepsSeal, EvaluateRawKeepsSeal, EvaluateKeepsSeal
         DEF Next

(* prediction-seal.json is evidence: a run that has one has all that it    *)
(* fingerprints, gold labels are read only for runs that have one, and no  *)
(* state claims more than the files show, whatever was killed when         *)
(* (recovery_r2.py).                                                       *)
THEOREM Seal == Spec => []SealIsEvidence
<1>1. SealInv => SealIsEvidence
  BY DEF SealInv, DirOK, SealIsEvidence, Evidence, Decided
<1> QED  BY <1>1, InitSeal, NextSeal, PTL DEF Spec

-----------------------------------------------------------------------------
(***************************************************************************)
(* What the policies see of a decision.                                    *)
(***************************************************************************)

AllEnds == KeptEnds \cup LostEnds

(* A decision that accepts holds a valid candidate and no error; one that  *)
(* refuses says why; and only the critic or a limit parts the policies.    *)
Gated(d) ==
  /\ d.error \in {"none", "STRUCTURED_OUTPUT_ERROR", "PROVIDER_ERROR"}
  /\ d.selective => d.deterministic
  /\ d.deterministic => d.valid /\ d.error = "none"
  /\ d.error = "none" /\ ~d.deterministic =>
       d.reason \in {"INCOMPLETE_SOURCE_COVERAGE", "NO_CORRECTION_PROGRESS",
                     "RESOURCE_LIMIT"}
  /\ d.deterministic /\ ~d.selective =>
       d.reason \in {"CRITIC_REJECTED", "RESOURCE_LIMIT"}

IsMissed(d) == d.error = "PROVIDER_ERROR" \/ d.reason = "RESOURCE_LIMIT"

LEMMA DecisionFacts ==
  ASSUME NEW end \in AllEnds, NEW v \in BOOLEAN, NEW d, d = DecisionOf(end, v)
  PROVE  /\ Gated(d)
         /\ d.deterministic /\ ~d.corrected => end \in FirstCritique
         /\ end \notin KeptEnds => IsMissed(d)
<1>1. /\ d.selective <=> end \in {"accepted", "corrected"}
      /\ d.deterministic <=> end \in {"accepted", "critic_limit", "corrected",
                                      "rejected", "final_critic_limit"}
      /\ d.corrected <=> end \in Replaced
      /\ end \in FirstCritique \cup Replaced => d.valid
  BY DEF DecisionOf
<1>2. d.error = CASE end \in {"critic_failed", "correction_failed",
                              "final_critic_failed"} -> "STRUCTURED_OUTPUT_ERROR"
                  [] end = "missed" -> "PROVIDER_ERROR"
                  [] OTHER -> "none"
  BY DEF DecisionOf
<1>3. d.reason = CASE end = "rejected"   -> "CRITIC_REJECTED"
                   [] end = "unrepaired" -> "INCOMPLETE_SOURCE_COVERAGE"
                   [] end = "repeated"   -> "NO_CORRECTION_PROGRESS"
                   [] end \in LimitEnds  -> "RESOURCE_LIMIT"
                   [] OTHER              -> "none"
  BY DEF DecisionOf
<1>4. end \in {"accepted", "critic_failed", "corrected", "rejected",
               "final_critic_failed", "unrepaired", "repeated", "correction_failed",
               "critic_limit", "correction_limit", "final_critic_limit", "missed"}
  BY DEF AllEnds, KeptEnds, LostEnds, LimitEnds
<1> QED  BY <1>1, <1>2, <1>3, <1>4
         DEF KeptEnds, LimitEnds, FirstCritique, Replaced, Gated, IsMissed

LEMMA PoliciesNestFor ==
  ASSUME NEW w, NEW d, NEW e \in Examples, Gated(d[e]), Gated(d[TheoryOf[e]]),
         w.answer[e] \in [{"raw", "corrected"} -> Statuses]
  PROVE  LET p0 == RawPrediction(w, e)
             p1 == PolicyPrediction(w, d, FALSE, e)
             p2 == PolicyPrediction(w, d, TRUE, e) IN
         /\ IsAnswered(p2) => p1 = p2
         /\ p2.label = "ERROR" => p1 = p2
         /\ p1 # p2 => p2.label = "ABSTAIN" /\ p2.why \in {"CRITIC_REJECTED", "RESOURCE_LIMIT"}
         /\ p1.why # "RELIABILITY_GATE_FAILED"
         /\ IsAnswered(p0) /\ IsAnswered(p1) /\ p0 # p1
              => d[e].corrected \/ d[TheoryOf[e]].corrected
         /\ IsAnswered(p1) => d[e].deterministic /\ d[TheoryOf[e]].deterministic
<1> DEFINE td == d[TheoryOf[e]]
           qd == d[e]
           version == IF td.corrected \/ qd.corrected THEN "corrected" ELSE "raw"
           end == Reasoned(w.answer[e][version], Abstain("UNEXPECTED_INCONSISTENCY"))
           p1 == PolicyPrediction(w, d, FALSE, e)
           p2 == PolicyPrediction(w, d, TRUE, e)
<1>1. w.answer[e]["raw"] \in Statuses /\ w.answer[e][version] \in Statuses
  OBVIOUS
<1>2. /\ end = [label |-> end.label, why |-> end.why]
      /\ end.label \in Answered \cup {"ABSTAIN", "ERROR"}
      /\ end.why \in {"none", "PROOF_VERIFICATION_ERROR", "UNEXPECTED_INCONSISTENCY"}
  BY <1>1 DEF Reasoned, Statuses, Answered, Error, Abstain, Prediction
<1>3. ASSUME td.error # "none"
      PROVE  p1 = Error(td.error) /\ p2 = Error(td.error)
  BY <1>3 DEF PolicyPrediction
<1>4. ASSUME td.error = "none", qd.error # "none"
      PROVE  p1 = Error(qd.error) /\ p2 = Error(qd.error)
  BY <1>4 DEF PolicyPrediction
<1>5. ASSUME td.error = "none", qd.error = "none"
      PROVE  /\ p1 = IF ~td.deterministic THEN Abstain(Reason(td))
                     ELSE IF ~qd.deterministic THEN Abstain(Reason(qd))
                     ELSE end
             /\ p2 = IF ~td.selective THEN Abstain(Reason(td))
                     ELSE IF ~qd.selective THEN Abstain(Reason(qd))
                     ELSE end
  BY <1>5 DEF PolicyPrediction, Accepts, Gated
<1>6. \A x : /\ Error(x) = [label |-> "ERROR", why |-> x]
             /\ Abstain(x) = [label |-> "ABSTAIN", why |-> x]
  BY DEF Error, Abstain, Prediction
<1>7. /\ td.reason # "none" => Reason(td) = td.reason
      /\ qd.reason # "none" => Reason(qd) = qd.reason
  BY DEF Reason
<1>8. p1 = p2
      \/ /\ p1 # p2
         /\ \E why \in {"CRITIC_REJECTED", "RESOURCE_LIMIT"} : p2 = Abstain(why)
  <2>1. CASE td.error # "none" \/ qd.error # "none"
    BY <1>3, <1>4, <2>1
  <2>2. CASE td.error = "none" /\ qd.error = "none"
    <3>1. CASE ~td.selective
      BY <1>5, <1>7, <2>2, <3>1 DEF Gated
    <3>2. CASE td.selective /\ ~qd.selective
      BY <1>5, <1>7, <2>2, <3>2 DEF Gated
    <3>3. CASE td.selective /\ qd.selective
      BY <1>5, <2>2, <3>3 DEF Gated
    <3> QED  BY <3>1, <3>2, <3>3
  <2> QED  BY <2>1, <2>2
<1>9. IsAnswered(p1) \/ p1.why = "RELIABILITY_GATE_FAILED"
        => /\ p1 = end /\ td.deterministic /\ qd.deterministic
  <2>1. CASE td.error # "none" \/ qd.error # "none"
    <3>1. \E x \in {"STRUCTURED_OUTPUT_ERROR", "PROVIDER_ERROR"} : p1 = Error(x)
      BY <1>3, <1>4, <2>1 DEF Gated
    <3> HIDE DEF p1, p2
    <3> QED  BY <1>6, <3>1 DEF IsAnswered, Answered
  <2>2. CASE td.error = "none" /\ qd.error = "none"
    <3>1. CASE td.deterministic /\ qd.deterministic
      BY <1>5, <2>2, <3>1
    <3>2. CASE ~(td.deterministic /\ qd.deterministic)
      <4>1. \E why \in {"INCOMPLETE_SOURCE_COVERAGE", "NO_CORRECTION_PROGRESS",
                        "RESOURCE_LIMIT"} : p1 = Abstain(why)
        BY <1>5, <1>7, <2>2, <3>2 DEF Gated
      <4> HIDE DEF p1, p2
      <4> QED  BY <1>6, <4>1 DEF IsAnswered, Answered
    <3> QED  BY <3>1, <3>2
  <2> QED  BY <2>1, <2>2
<1>10. ASSUME IsAnswered(RawPrediction(w, e)), IsAnswered(p1),
              ~td.corrected, ~qd.corrected
       PROVE  RawPrediction(w, e) = p1
  <2>1. p1 = Reasoned(w.answer[e]["raw"], Abstain("UNEXPECTED_INCONSISTENCY"))
    BY <1>9, <1>10
  <2>2. RawPrediction(w, e) = Reasoned(w.answer[e]["raw"], Error("INCONSISTENT"))
    <3>1. \A x, y : ~IsAnswered(RawError(x, y))
      BY DEF RawError, Error, Prediction, IsAnswered, Answered
    <3>2. CASE w.raw[TheoryOf[e]] # "valid"
      BY <1>10, <3>1, <3>2 DEF RawPrediction
    <3>3. CASE w.raw[TheoryOf[e]] = "valid" /\ w.raw[e] # "valid"
      BY <1>10, <3>1, <3>3 DEF RawPrediction
    <3>4. CASE w.raw[TheoryOf[e]] = "valid" /\ w.raw[e] = "valid"
      BY <3>4 DEF RawPrediction
    <3> QED  BY <3>2, <3>3, <3>4
  <2> DEFINE status == w.answer[e]["raw"]
  <2> HIDE DEF p1, p2, status
  <2> QED  BY <1>1, <1>10, <2>1, <2>2
           DEF Reasoned, Statuses, IsAnswered, Answered, Error, Abstain, Prediction
<1>11. /\ IsAnswered(p2) => p1 = p2
       /\ p2.label = "ERROR" => p1 = p2
       /\ p1 # p2 => /\ p2.label = "ABSTAIN"
                                /\ p2.why \in {"CRITIC_REJECTED", "RESOURCE_LIMIT"}
  <2> HIDE DEF p1, p2
  <2> QED  BY <1>6, <1>8 DEF IsAnswered, Answered
<1>12. p1.why # "RELIABILITY_GATE_FAILED"
  <2> HIDE DEF p1, p2, end
  <2> QED  BY <1>2, <1>9
<1>13. IsAnswered(p1) => td.deterministic /\ qd.deterministic
  BY <1>9
<1> HIDE DEF end, version, td, qd
<1> QED  BY <1>10, <1>11, <1>12, <1>13 DEF td, qd

-----------------------------------------------------------------------------
(***************************************************************************)
(* The decisions of a run.  Each is what the store held for its request,   *)
(* and the store never changes what it holds, so two runs with an outcome  *)
(* for every request decide alike.                                         *)
(***************************************************************************)

StoreOK ==
  /\ store \in [Requests -> KeptEnds \cup {"none"}]
  /\ \A c \in Components : store[<<c, FALSE>>] \notin FirstCritique

(* The decision about c: how its tasks ended, and that the store has it. *)
DecidedAs(d, c, valid) ==
  \E end \in AllEnds : /\ d = DecisionOf(end, valid)
                       /\ end \in KeptEnds => store[<<c, valid>>] = end
                       /\ end \in FirstCritique => valid = TRUE

DecisionsOK(ds) ==
  /\ ds = [c \in DOMAIN ds |-> ds[c]]
  /\ DOMAIN ds \subseteq Components
  /\ \A e \in Examples : e \in DOMAIN ds => TheoryOf[e] \in DOMAIN ds
  /\ \A c \in DOMAIN ds : \A valid \in BOOLEAN :
       (valid <=> RawValid(c, ds)) => DecidedAs(ds[c], c, valid)

(* What a comparison found while its command lasts. *)
VerdictOK ==
  verdict.end # "none" =>
    /\ job.name = "compare"
    /\ verdict.live \in Runs /\ verdict.replay \in Runs
    /\ "seal" \in dirs[verdict.live].files \cap dirs[verdict.replay].files
    /\ verdict.end = "passed" <=> Passes(verdict.live, verdict.replay)

RunsInv ==
  /\ SealInv /\ world \in Worlds /\ StoreOK /\ VerdictOK
  /\ \A r \in Runs : DecisionsOK(Decided(r))
  /\ \A r \in Runs : "report" \in dirs[r].files =>
       DOMAIN Decided(r) = Components

(* A request that has an outcome keeps it. *)
StoreGrows ==
  \A q \in Requests : store[q] # "none" => store'[q] = store[q]

LEMMA SameDecisions ==
  ASSUME NEW ds, DecisionsOK(ds), world' = world, StoreGrows
  PROVE  DecisionsOK(ds)'
<1>1. \A c \in DOMAIN ds : RawValid(c, ds)' <=> RawValid(c, ds)
  BY DEF RawValid
<1>2. ASSUME NEW c \in Components, NEW valid \in BOOLEAN, NEW d, DecidedAs(d, c, valid)
      PROVE  DecidedAs(d, c, valid)'
  <2>1. <<c, valid>> \in Requests /\ "none" \notin KeptEnds
    BY DEF Requests, KeptEnds
  <2> QED  BY <1>2, <2>1 DEF DecidedAs, StoreGrows
<1> QED  BY <1>1, <1>2 DEF DecisionsOK

(* A command that decides nothing and compares nothing. *)
LEMMA SameRuns ==
  ASSUME RunsInv, SealInv', world' = world, StoreOK', StoreGrows,
         job.name # "compare", verdict' = verdict,
         \A r \in Runs : dirs'[r].decisions = Decided(r),
         \A r \in Runs : "report" \in dirs'[r].files => DOMAIN Decided(r) = Components
  PROVE  RunsInv'
<1>1. ASSUME NEW r \in Runs
      PROVE  DecisionsOK(Decided(r))'
  <2>1. PICK ds : ds = Decided(r)
    OBVIOUS
  <2>2. DecisionsOK(ds)
    BY <2>1 DEF RunsInv
  <2>3. DecisionsOK(ds)'
    BY <2>2, SameDecisions
  <2>4. Decided(r)' = ds
    BY <2>1 DEF Decided
  <2> QED  BY <2>3, <2>4
<1>2. VerdictOK'
  BY DEF RunsInv, VerdictOK
<1>3. \A r \in Runs : "report" \in dirs'[r].files => DOMAIN Decided(r)' = Components
  BY DEF Decided
<1> QED  BY <1>1, <1>2, <1>3 DEF RunsInv

(* A decision takes what the store holds, or what the store will hold. *)
LEMMA DecideKeepsStore ==
  ASSUME StoreOK, NEW r, NEW c \in Components, NEW v \in BOOLEAN, NEW end \in EndOf(r, <<c, v>>),
         store' = IF IsKept(end) THEN [store EXCEPT ![<<c, v>>] = end] ELSE store
  PROVE  /\ StoreOK' /\ StoreGrows /\ end \in AllEnds
         /\ end \in KeptEnds => store'[<<c, v>>] = end
         /\ end \in FirstCritique => v = TRUE
<1> DEFINE q == <<c, v>>
<1>1. q \in Requests /\ q[1] = c /\ q[2] = v /\ store[q] \in KeptEnds \cup {"none"}
  BY DEF Requests, StoreOK
<1>2. end \in AllEnds /\ (end \in FirstCritique => v = TRUE)
  <2>1. CASE store[q] # "none"
    <3>1. end = store[q]
      BY <2>1 DEF EndOf
    <3> QED  BY <1>1, <2>1, <3>1 DEF StoreOK, AllEnds
  <2>2. CASE store[q] = "none" /\ r \in Replays
    BY <2>2 DEF EndOf, AllEnds, LostEnds, FirstCritique
  <2>3. CASE store[q] = "none" /\ r \notin Replays
    <3>1. PICK ends : /\ end \in EndsOf(ends, v)
                      /\ ends = LimitEnds \/ ends = Ends[c]
      BY <1>1, <2>3 DEF EndOf
    <3>2. ends \subseteq AllEnds
      BY <3>1, RunsAssumption DEF AllEnds, LostEnds
    <3> QED  BY <3>1, <3>2 DEF EndsOf
  <2> QED  BY <2>1, <2>2, <2>3
<1>3. store[q] # "none" => end = store[q]
  BY DEF EndOf
<1>4. CASE end \notin KeptEnds
  BY <1>2, <1>4 DEF IsKept, StoreOK, StoreGrows
<1>5. CASE end \in KeptEnds
  <2>1. store' = [store EXCEPT ![q] = end]
    BY <1>5 DEF IsKept
  <2>2. store'[q] = end /\ \A p \in Requests : p # q => store'[p] = store[p]
    BY <1>1, <2>1 DEF StoreOK
  <2>3. StoreGrows
    BY <1>3, <2>2 DEF StoreGrows
  <2>4. store' \in [Requests -> KeptEnds \cup {"none"}]
    BY <1>1, <1>5, <2>1 DEF StoreOK
  <2>5. ASSUME NEW x \in Components
        PROVE  store'[<<x, FALSE>>] \notin FirstCritique
    <3>1. <<x, FALSE>> \in Requests
      BY DEF Requests
    <3>2. CASE <<x, FALSE>> = q
      <4>1. v = FALSE
        BY <3>2
      <4> QED  BY <1>2, <2>2, <3>2, <4>1
    <3>3. CASE <<x, FALSE>> # q
      BY <2>2, <3>1, <3>3 DEF StoreOK
    <3> QED  BY <3>2, <3>3
  <2> QED  BY <1>2, <2>2, <2>3, <2>4, <2>5 DEF StoreOK
<1> QED  BY <1>4, <1>5

LEMMA OneMoreDecision ==
  ASSUME NEW ds, NEW c \in Components, c \notin DOMAIN ds,
         c \in Examples => TheoryOf[c] \in DOMAIN ds,
         DecisionsOK(ds), world' = world, StoreGrows,
         NEW v \in BOOLEAN, v <=> RawValid(c, ds),
         NEW d, DecidedAs(d, c, v)'
  PROVE  DecisionsOK([x \in {c} \cup DOMAIN ds |-> IF x = c THEN d ELSE ds[x]])'
<1> DEFINE more == [x \in {c} \cup DOMAIN ds |-> IF x = c THEN d ELSE ds[x]]
<1>1. DecisionsOK(ds)'
  BY SameDecisions
<1>2. /\ DOMAIN more = {c} \cup DOMAIN ds /\ more[c] = d
      /\ \A x \in DOMAIN ds : x # c /\ more[x] = ds[x]
  OBVIOUS
<1>3. ASSUME NEW x \in {c} \cup DOMAIN ds
      PROVE  RawValid(x, more)' <=> RawValid(x, ds)'
  <2>1. CASE x \in Examples
    <3>1. TheoryOf[x] \in DOMAIN ds
      BY <2>1 DEF DecisionsOK
    <3>2. more[TheoryOf[x]] = ds[TheoryOf[x]]
      BY <1>2, <3>1
    <3> HIDE DEF more
    <3> QED  BY <3>2 DEF RawValid
  <2>2. CASE x \notin Examples
    <3> HIDE DEF more
    <3> QED  BY <2>2 DEF RawValid
  <2> QED  BY <2>1, <2>2
<1>4. RawValid(c, ds)' <=> RawValid(c, ds)
  BY DEF RawValid
<1>5. more = [x \in DOMAIN more |-> more[x]]
  OBVIOUS
<1> HIDE DEF more
<1>6. ASSUME NEW x \in DOMAIN more, NEW valid \in BOOLEAN, valid <=> RawValid(x, more)'
      PROVE  DecidedAs(more[x], x, valid)'
  <2>1. CASE x = c
    BY <1>2, <1>3, <1>4, <1>6, <2>1
  <2>2. CASE x \in DOMAIN ds
    <3>1. valid <=> RawValid(x, ds)'
      BY <1>3, <1>6, <2>2
    <3> QED  BY <1>1, <1>2, <2>2, <3>1 DEF DecisionsOK
  <2> QED  BY <1>2, <2>1, <2>2
<1> QED  BY <1>1, <1>2, <1>5, <1>6 DEF DecisionsOK

(* The components are decided once, and a theory before its examples. *)
LEMMA DecidedInOrder ==
  ASSUME NEW at \in 1..Len(Order)
  PROVE  LET c == Order[at] IN
         /\ c \in Components /\ c \notin DecidedBefore(at)
         /\ c \in Examples => TheoryOf[c] \in DecidedBefore(at)
<1>1. Order[at] \in Components /\ Order[at] \notin DecidedBefore(at)
  <2>1. Order[at] \in Components /\ Len(Order) \in Nat
    BY RunsAssumption
  <2>2. ASSUME NEW j \in 1..Len(Order), j < at, Order[j] = Order[at]
        PROVE  FALSE
    <3>1. j = at
      BY <2>2, RunsAssumption
    <3> QED  BY <2>1, <2>2, <3>1
  <2> QED  BY <2>1, <2>2 DEF DecidedBefore
<1>2. ASSUME Order[at] \in Examples
      PROVE  TheoryOf[Order[at]] \in DecidedBefore(at)
  <2>1. PICK j \in 1..Len(Order), k \in 1..Len(Order) :
          j < k /\ Order[j] = TheoryOf[Order[at]] /\ Order[k] = Order[at]
    BY <1>2, RunsAssumption
  <2>2. k = at
    BY <2>1, RunsAssumption
  <2> QED  BY <2>1, <2>2 DEF DecidedBefore
<1> QED  BY <1>1, <1>2

LEMMA DecideKeepsRuns ==
  ASSUME RunsInv, DecideOne, SealInv'
  PROVE  RunsInv'
<1>0. PICK r, c, ds : r = job.run /\ c = Order[job.at] /\ ds = Decided(r)
  OBVIOUS
<1>1. /\ job.name \in {"seal", "unsealed"} /\ job.at \in 1..Len(Order)
      /\ r \in Runs /\ world' = world /\ verdict' = verdict
      /\ verdict.end = "none" /\ StoreOK
  BY <1>0 DEF DecideOne, RunsInv, SealInv, OnRun, VerdictOK
<1>2. DOMAIN ds = DecidedBefore(job.at) /\ "report" \notin dirs[r].files
  <2>1. /\ DOMAIN ds = DecidedBefore(job.at)
        /\ \/ dirs[r].files = WrittenBefore(Artefacts, job.at)
           \/ dirs[r].files = WrittenBefore(UnsealedArtefacts, job.at)
    BY <1>0, <1>1 DEF RunsInv, SealInv, OnRun, SealJobOK, Deciding, Decided
  <2>2. job.at \in Nat /\ job.at <= Len(Order) + 1
    BY <1>1, RunsAssumption
  <2> QED  BY <2>1, <2>2, NothingBefore, ArtefactCounts
<1>3. /\ c \in Components /\ c \notin DOMAIN ds
      /\ c \in Examples => TheoryOf[c] \in DOMAIN ds
  BY <1>0, <1>1, <1>2, DecidedInOrder
<1>4. PICK v \in BOOLEAN : v = RawValid(c, ds)
  BY DEF RawValid
<1>5. PICK end \in EndOf(r, <<c, v>>) :
        /\ dirs' = [dirs EXCEPT ![r].decisions =
                     [x \in {c} \cup DOMAIN ds |->
                        IF x = c THEN DecisionOf(end, v) ELSE ds[x]]]
        /\ store' = IF IsKept(end) THEN [store EXCEPT ![<<c, v>>] = end] ELSE store
  BY <1>0, <1>4 DEF DecideOne
<1>6. /\ StoreOK' /\ StoreGrows /\ end \in AllEnds
      /\ end \in KeptEnds => store'[<<c, v>>] = end
      /\ end \in FirstCritique => v = TRUE
  BY <1>1, <1>3, <1>5, DecideKeepsStore
<1>7. DecidedAs(DecisionOf(end, v), c, v)'
  BY <1>6 DEF DecidedAs
<1>8. /\ DirOK(dirs[r]) /\ dirs = [s \in Runs |-> dirs[s]]
  BY <1>1 DEF RunsInv, SealInv
<1>9. /\ dirs'[r].decisions = [x \in {c} \cup DOMAIN ds |->
                                 IF x = c THEN DecisionOf(end, v) ELSE ds[x]]
      /\ dirs'[r].files = dirs[r].files
      /\ \A s \in Runs : s # r => dirs'[s] = dirs[s]
  <2>1. {"decisions", "files"} \subseteq DOMAIN dirs[r]
    BY <1>8 DEF DirOK
  <2> DEFINE more == [x \in {c} \cup DOMAIN ds |->
                        IF x = c THEN DecisionOf(end, v) ELSE ds[x]]
  <2>2. dirs' = [dirs EXCEPT ![r].decisions = more]
    BY <1>5
  <2> HIDE DEF more
  <2>3. dirs'[r] = [dirs[r] EXCEPT !.decisions = more]
    BY <1>1, <1>8, <2>2
  <2>4. \A s \in Runs : s # r => dirs'[s] = dirs[s]
    BY <1>8, <2>2
  <2> QED  BY <2>1, <2>3, <2>4 DEF more
<1>10. DecisionsOK(Decided(r))'
  <2>1. PICK d : d = DecisionOf(end, v)
    OBVIOUS
  <2>2. DecisionsOK(ds) /\ DecidedAs(d, c, v)'
    BY <1>0, <1>1, <1>7, <2>1 DEF RunsInv
  <2>3. DecisionsOK([x \in {c} \cup DOMAIN ds |-> IF x = c THEN d ELSE ds[x]])'
    BY <1>1, <1>3, <1>4, <1>6, <2>2, OneMoreDecision
  <2>4. Decided(r)' = [x \in {c} \cup DOMAIN ds |-> IF x = c THEN d ELSE ds[x]]
    BY <1>9, <2>1 DEF Decided
  <2> QED  BY <2>3, <2>4
<1>11. ASSUME NEW s \in Runs, s # r
       PROVE  DecisionsOK(Decided(s))'
  <2>1. PICK old : old = Decided(s)
    OBVIOUS
  <2>2. DecisionsOK(old)'
    BY <1>1, <1>6, <2>1, SameDecisions DEF RunsInv
  <2>3. Decided(s)' = old
    BY <1>9, <1>11, <2>1 DEF Decided
  <2> QED  BY <2>2, <2>3
<1>12. VerdictOK'
  BY <1>1 DEF VerdictOK
<1>13. \A s \in Runs : "report" \in dirs'[s].files => DOMAIN Decided(s)' = Components
  BY <1>2, <1>9 DEF RunsInv, Decided
<1> QED  BY <1>1, <1>6, <1>10, <1>11, <1>12, <1>13 DEF RunsInv

LEMMA InitRuns == Init => RunsInv
<1> SUFFICES ASSUME Init PROVE RunsInv
  OBVIOUS
<1>1. \A r \in Runs : dirs[r] = NoDirectory /\ Decided(r) = <<>>
  BY DEF Init, Decided, NoDirectory
<1>2. DecisionsOK(<<>>)
  BY DEF DecisionsOK
<1>3. \A r \in Runs : "report" \notin dirs[r].files
  BY <1>1 DEF NoDirectory
<1>4. StoreOK /\ VerdictOK
  <2>1. \A c \in Components, v \in BOOLEAN : <<c, v>> \in Requests
    BY DEF Requests
  <2> QED  BY <2>1 DEF Init, StoreOK, VerdictOK, FirstCritique
<1> QED  BY <1>1, <1>2, <1>3, <1>4, InitSeal DEF RunsInv, Init

(* What a step that writes in a directory leaves of its decisions: it      *)
(* writes a file only when every component is decided.                     *)
Wrote(d, new) ==
  /\ new.decisions = d.decisions
  /\ new.files = d.files \/ DOMAIN d.decisions = Components

LEMMA WritersDecideNothing ==
  ASSUME RunsInv, SealInv', NEW r \in Runs,
         \/ job = Idle /\ (StartSeal(r) \/ StartUnsealed(r))
         \/ /\ r = job.run
            /\ \/ SealOne \/ EvaluateRaw \/ ReportOne
               \/ EvaluateP0 \/ FinishP0 \/ WriteReport \/ Complete
  PROVE  RunsInv'
<1>1. /\ DirOK(dirs[r]) /\ dirs = [s \in Runs |-> dirs[s]]
      /\ {"decisions", "files", "calls", "state", "kind", "p0"} = DOMAIN dirs[r]
  BY DEF RunsInv, SealInv, DirOK
<1>2. /\ world' = world /\ store' = store /\ verdict' = verdict
      /\ job.name # "compare"
  BY DEF StartSeal, StartUnsealed, SealOne, EvaluateRaw, ReportOne, EvaluateP0,
         FinishP0, WriteReport, Complete, Idle
<1>3. ASSUME job.name \in {"seal", "unsealed"}, job.at > Len(Order), r = job.run
      PROVE  DOMAIN Decided(r) = Components
  BY <1>3, AllDecided DEF RunsInv, SealInv, JobOK, OnRun, SealJobOK, Deciding, Decided
<1>4. /\ \A s \in Runs : s # r => dirs'[s] = dirs[s]
      /\ Wrote(dirs[r], dirs'[r])
  <2>1. CASE job = Idle /\ (StartSeal(r) \/ StartUnsealed(r))
    <3>1. PICK kind : dirs' = [dirs EXCEPT ![r].state = "incomplete", ![r].kind = kind]
      BY <2>1 DEF StartSeal, StartUnsealed
    <3>2. dirs'[r] = [dirs[r] EXCEPT !.state = "incomplete", !.kind = kind]
      BY <1>1, <3>1
    <3> QED  BY <1>1, <3>1, <3>2 DEF Wrote
  <2>2. CASE r = job.run /\ (SealOne \/ ReportOne)
    <3>1. /\ DOMAIN dirs[r].decisions = Components
      BY <1>3, <2>2 DEF SealOne, ReportOne, Decided
    <3>2. CASE \E file : dirs' = [dirs EXCEPT ![r].files = @ \cup {file}, ![r].calls = calls]
      <4>1. PICK file : dirs' = [dirs EXCEPT ![r].files = @ \cup {file}, ![r].calls = calls]
        BY <3>2
      <4>2. dirs'[r] = [dirs[r] EXCEPT !.files = @ \cup {file}, !.calls = calls]
        BY <1>1, <4>1
      <4> QED  BY <1>1, <3>1, <4>1, <4>2 DEF Wrote
    <3>3. CASE \E state : dirs' = [dirs EXCEPT ![r].state = state]
      <4>1. PICK state : dirs' = [dirs EXCEPT ![r].state = state]
        BY <3>3
      <4>2. dirs'[r] = [dirs[r] EXCEPT !.state = state]
        BY <1>1, <4>1
      <4> QED  BY <1>1, <4>1, <4>2 DEF Wrote
    <3> QED  BY <2>2, <3>2, <3>3 DEF SealOne, ReportOne
  <2>3. CASE r = job.run /\ (EvaluateRaw \/ EvaluateP0 \/ FinishP0)
    <3>1. dirs' = dirs \/ \E p0 : dirs' = [dirs EXCEPT ![r].p0 = p0]
      BY <2>3 DEF EvaluateRaw, EvaluateP0, FinishP0
    <3>2. CASE \E p0 : dirs' = [dirs EXCEPT ![r].p0 = p0]
      <4>1. PICK p0 : dirs' = [dirs EXCEPT ![r].p0 = p0]
        BY <3>2
      <4>2. dirs'[r] = [dirs[r] EXCEPT !.p0 = p0]
        BY <1>1, <4>1
      <4> QED  BY <1>1, <4>1, <4>2 DEF Wrote
    <3> QED  BY <3>1, <3>2 DEF Wrote
  <2>4. CASE r = job.run /\ WriteReport
    <3>1. DOMAIN dirs[r].decisions = Components
      <4>1. job.name = "evaluate" /\ job.at >= 2 /\ SealJobOK(job, dirs[r])
        BY <2>4 DEF WriteReport, RunsInv, SealInv, OnRun
      <4>2. "seal" \in dirs[r].files
        BY <4>1 DEF SealJobOK
      <4> QED  BY <1>1, <4>2 DEF DirOK
    <3>2. dirs' = [dirs EXCEPT ![r].files = @ \cup {"report"}]
      BY <2>4 DEF WriteReport
    <3>3. dirs'[r] = [dirs[r] EXCEPT !.files = @ \cup {"report"}]
      BY <1>1, <3>2
    <3> QED  BY <1>1, <3>1, <3>2, <3>3 DEF Wrote
  <2>5. CASE r = job.run /\ Complete
    <3>1. dirs' = [dirs EXCEPT ![r].state = "complete"]
      BY <2>5 DEF Complete
    <3>2. dirs'[r] = [dirs[r] EXCEPT !.state = "complete"]
      BY <1>1, <3>1
    <3> QED  BY <1>1, <3>1, <3>2 DEF Wrote
  <2> QED  BY <2>1, <2>2, <2>3, <2>4, <2>5
<1>5. \A s \in Runs : dirs'[s].decisions = Decided(s)
  BY <1>4 DEF Wrote, Decided
<1>6. \A s \in Runs : "report" \in dirs'[s].files => DOMAIN Decided(s) = Components
  BY <1>4 DEF Wrote, Decided, RunsInv
<1>7. StoreOK' /\ StoreGrows
  BY <1>2 DEF RunsInv, StoreOK, StoreGrows
<1> QED  BY <1>2, <1>5, <1>6, <1>7, SameRuns

LEMMA CompareKeepsRuns ==
  ASSUME RunsInv, SealInv',
         EndCompare \/ \E a, b \in Runs : Compare(a, b)
  PROVE  RunsInv'
<1>1. UNCHANGED <<world, store, dirs>>
  BY DEF EndCompare, Compare
<1>2. VerdictOK'
  <2>1. CASE EndCompare
    BY <2>1 DEF EndCompare, VerdictOK
  <2>2. ASSUME NEW a \in Runs, NEW b \in Runs, Compare(a, b)
        PROVE  VerdictOK'
    <3>1. /\ verdict' = [end |-> IF Passes(a, b) THEN "passed" ELSE "refused",
                         live |-> a, replay |-> b]
          /\ "seal" \in dirs[a].files \cap dirs[b].files
          /\ job'.name = "compare"
      BY <2>2 DEF Compare, Job, JobAt
    <3>2. Passes(a, b)' <=> Passes(a, b)
      BY <1>1 DEF Passes, Misses, Decided
    <3> QED  BY <1>1, <3>1, <3>2 DEF VerdictOK
  <2> QED  BY <2>1, <2>2
<1>3. ASSUME NEW r \in Runs
      PROVE  DecisionsOK(Decided(r))'
  <2>1. PICK ds : ds = Decided(r)
    OBVIOUS
  <2>2. DecisionsOK(ds)'
    BY <1>1, <2>1, SameDecisions DEF RunsInv, StoreGrows
  <2>3. Decided(r)' = ds
    BY <1>1, <2>1 DEF Decided
  <2> QED  BY <2>2, <2>3
<1> QED  BY <1>1, <1>2, <1>3 DEF RunsInv, StoreOK, Decided

LEMMA NextRuns == RunsInv /\ [Next]_vars => RunsInv'
<1> SUFFICES ASSUME RunsInv, [Next]_vars PROVE RunsInv'
  OBVIOUS
<1>1. SealInv'
  BY NextSeal DEF RunsInv
<1>2. ASSUME UNCHANGED <<world, store, dirs, verdict>>, job.name # "compare"
      PROVE  RunsInv'
  BY <1>1, <1>2, SameRuns DEF RunsInv, StoreOK, StoreGrows, Decided
<1>3. CASE StartMaterialize \/ MaterializeOne \/ ReportMaterialization
           \/ ReportInterrupted \/ Crash \/ \E r \in Runs : StartEvaluate(r)
  BY <1>2, <1>3 DEF StartMaterialize, MaterializeOne, ReportMaterialization,
                    ReportInterrupted, Crash, StartEvaluate, Idle
<1>4. ASSUME NEW r \in Runs, StartSeal(r) \/ StartUnsealed(r)
      PROVE  RunsInv'
  BY <1>1, <1>4, WritersDecideNothing DEF StartSeal, StartUnsealed
<1>5. CASE SealOne \/ EvaluateRaw \/ ReportOne
           \/ EvaluateP0 \/ FinishP0 \/ WriteReport \/ Complete
  <2>1. job.run \in Runs
    BY <1>5 DEF RunsInv, SealInv, OnRun, SealOne, EvaluateRaw, ReportOne, EvaluateP0,
                FinishP0, WriteReport, Complete
  <2> QED  BY <1>1, <1>5, <2>1, WritersDecideNothing
<1>6. CASE DecideOne
  BY <1>1, <1>6, DecideKeepsRuns
<1>7. CASE EndCompare \/ \E a, b \in Runs : Compare(a, b)
  BY <1>1, <1>7, CompareKeepsRuns
<1>8. CASE StartInterrupted
  <2>1. /\ store' = [store EXCEPT ![InterruptedRequest] = "correction_failed"]
        /\ store[InterruptedRequest] = "none" /\ job.name # "compare"
        /\ UNCHANGED <<world, dirs, verdict>>
    BY <1>8 DEF StartInterrupted, Idle
  <2>2. StoreOK' /\ StoreGrows
    <3>1. store' \in [Requests -> KeptEnds \cup {"none"}]
      BY <2>1 DEF RunsInv, StoreOK, KeptEnds
    <3>2. \A q \in Requests :
            \/ store'[q] = store[q]
            \/ store[q] = "none" /\ store'[q] = "correction_failed"
      BY <2>1 DEF RunsInv, StoreOK
    <3>3. \A c \in Components : <<c, FALSE>> \in Requests
      BY DEF Requests
    <3> QED  BY <3>1, <3>2, <3>3 DEF RunsInv, StoreOK, StoreGrows, FirstCritique
  <2> QED  BY <1>1, <2>1, <2>2, SameRuns DEF RunsInv, Decided
<1>9. CASE UNCHANGED vars
  <2>1. UNCHANGED <<world, store, dirs, verdict, job>>
    BY <1>9 DEF vars
  <2>2. CASE job.name # "compare"
    BY <1>2, <2>1, <2>2
  <2>3. ASSUME NEW r \in Runs
        PROVE  DecisionsOK(Decided(r))'
    <3>1. PICK ds : ds = Decided(r)
      OBVIOUS
    <3>2. DecisionsOK(ds)'
      BY <2>1, <3>1, SameDecisions DEF RunsInv, StoreGrows
    <3>3. Decided(r)' = ds
      BY <2>1, <3>1 DEF Decided
    <3> QED  BY <3>2, <3>3
  <2>4. VerdictOK'
    BY <2>1 DEF RunsInv, VerdictOK, Passes, Misses, Decided
  <2> QED  BY <1>1, <2>1, <2>3, <2>4 DEF RunsInv, StoreOK, Decided
<1> QED  BY <1>3, <1>4, <1>5, <1>6, <1>7, <1>8, <1>9 DEF Next

(* Every decision of a run passes the gates of the policies. *)
LEMMA RunsAreGated ==
  ASSUME RunsInv, NEW r \in Runs, NEW c \in DOMAIN Decided(r)
  PROVE  \E end \in AllEnds, v \in BOOLEAN :
           /\ Decided(r)[c] = DecisionOf(end, v) /\ (v <=> RawValid(c, Decided(r)))
           /\ end \in FirstCritique => v = TRUE
           /\ end \in KeptEnds => store[<<c, v>>] = end
           /\ Gated(Decided(r)[c])
<1>1. PICK v \in BOOLEAN : v = RawValid(c, Decided(r))
  BY DEF RawValid
<1>2. DecidedAs(Decided(r)[c], c, v)
  BY <1>1 DEF RunsInv, DecisionsOK
<1>3. PICK end \in AllEnds : /\ Decided(r)[c] = DecisionOf(end, v)
                             /\ end \in KeptEnds => store[<<c, v>>] = end
                             /\ end \in FirstCritique => v = TRUE
  BY <1>2 DEF DecidedAs
<1>4. PICK d : d = Decided(r)[c]
  OBVIOUS
<1>5. Gated(d)
  BY <1>3, <1>4, DecisionFacts
<1> QED  BY <1>1, <1>3, <1>4, <1>5

LEMMA ComponentsAreFinite == IsFiniteSet(Components) /\ IsFiniteSet(Examples)
<1> DEFINE f == [k \in 1..Len(Order) |-> Order[k]]
<1>1. f \in Surjection(1..Len(Order), Components)
  BY RunsAssumption DEF Surjection
<1>2. IsFiniteSet(1..Len(Order))
  <2>1. Len(Order) \in Nat
    BY RunsAssumption
  <2> QED  BY <2>1, FS_Interval
<1>3. IsFiniteSet(Components)
  <2> HIDE DEF f
  <2> QED  BY <1>1, <1>2, FS_Surjection
<1> QED  BY <1>3, FS_Subset DEF Components

LEMMA NothingMissed ==
  ASSUME NEW r, Misses(r) = 0
  PROVE  \A c \in Components : ~IsMissed(Decided(r)[c])
<1> DEFINE missed == {c \in Components : Decided(r)[c].error = "PROVIDER_ERROR"
                                           \/ Decided(r)[c].reason = "RESOURCE_LIMIT"}
<1>1. IsFiniteSet(missed)
  BY ComponentsAreFinite, FS_Subset
<1>2. Cardinality(missed) = 0
  BY DEF Misses
<1>3. missed = {}
  <2> HIDE DEF missed
  <2> QED  BY <1>1, <1>2, FS_EmptySet
<1> QED  BY <1>3 DEF IsMissed

(* Two runs that missed nothing decided every component alike. *)
LEMMA SameStoreSameDecisions ==
  ASSUME RunsInv, NEW a \in Runs, NEW b \in Runs,
         "seal" \in dirs[a].files, "seal" \in dirs[b].files,
         Misses(a) = 0, Misses(b) = 0
  PROVE  Decided(a) = Decided(b)
<1>1. \A r \in {a, b} : /\ DOMAIN Decided(r) = Components
                        /\ Decided(r) = [c \in Components |-> Decided(r)[c]]
  BY DEF RunsInv, SealInv, DirOK, DecisionsOK, Decided
<1>2. ASSUME NEW c \in Components,
             RawValid(c, Decided(a)) <=> RawValid(c, Decided(b))
      PROVE  Decided(a)[c] = Decided(b)[c]
  <2>0. c \in DOMAIN Decided(a) /\ c \in DOMAIN Decided(b)
    BY <1>1
  <2>1. PICK end \in AllEnds, v \in BOOLEAN :
          /\ Decided(a)[c] = DecisionOf(end, v) /\ (v <=> RawValid(c, Decided(a)))
          /\ end \in FirstCritique => v = TRUE
          /\ end \in KeptEnds => store[<<c, v>>] = end
          /\ Gated(Decided(a)[c])
    BY <2>0, RunsAreGated
  <2>2. PICK end2 \in AllEnds, v2 \in BOOLEAN :
          /\ Decided(b)[c] = DecisionOf(end2, v2) /\ (v2 <=> RawValid(c, Decided(b)))
          /\ end2 \in FirstCritique => v2 = TRUE
          /\ end2 \in KeptEnds => store[<<c, v2>>] = end2
          /\ Gated(Decided(b)[c])
    BY <2>0, RunsAreGated
  <2>3. v = v2
    BY <1>2, <2>1, <2>2
  <2>4. end \in KeptEnds /\ end2 \in KeptEnds
    <3>1. PICK d : d = Decided(a)[c]
      OBVIOUS
    <3>2. PICK d2 : d2 = Decided(b)[c]
      OBVIOUS
    <3>3. ~IsMissed(d) /\ ~IsMissed(d2)
      BY <3>1, <3>2, NothingMissed
    <3>4. d = DecisionOf(end, v) /\ d2 = DecisionOf(end2, v2)
      BY <2>1, <2>2, <3>1, <3>2
    <3> QED  BY <3>3, <3>4, DecisionFacts
  <2> QED  BY <2>1, <2>2, <2>3, <2>4
<1>3. ASSUME NEW t \in Theories
      PROVE  Decided(a)[t] = Decided(b)[t]
  <2>1. t \in Components /\ t \notin Examples
    BY ExamplesAssumption DEF Components
  <2> QED  BY <1>2, <2>1 DEF RawValid
<1>4. ASSUME NEW e \in Examples
      PROVE  Decided(a)[e] = Decided(b)[e]
  <2>1. e \in Components /\ TheoryOf[e] \in Theories
    BY ExamplesAssumption DEF Components
  <2> QED  BY <1>2, <1>3, <2>1 DEF RawValid
<1>5. \A c \in Components : Decided(a)[c] = Decided(b)[c]
  BY <1>3, <1>4 DEF Components
<1> QED  BY <1>1, <1>5

(* A comparison passes exactly when both runs found an outcome for every   *)
(* request and the second one made no call (recovery_r2.py).               *)
THEOREM Replay == Spec => []ReplayAgrees
<1>1. RunsInv => ReplayAgrees
  <2> SUFFICES ASSUME RunsInv, verdict.end # "none"
               PROVE  verdict.end = "passed"
                        <=> /\ Misses(verdict.live) = 0
                            /\ Misses(verdict.replay) = 0
                            /\ dirs[verdict.replay].calls = 0
    BY DEF ReplayAgrees
  <2>1. PICK a \in Runs, b \in Runs :
          /\ a = verdict.live /\ b = verdict.replay
          /\ "seal" \in dirs[a].files /\ "seal" \in dirs[b].files
          /\ verdict.end = "passed" <=> Passes(a, b)
    BY DEF RunsInv, VerdictOK
  <2>2. Decided(a) = Decided(b) => Misses(a) = Misses(b)
    BY DEF Misses
  <2>3. Misses(a) = 0 /\ Misses(b) = 0 => Decided(a) = Decided(b)
    BY <2>1, SameStoreSameDecisions
  <2> QED  BY <2>1, <2>2, <2>3 DEF Passes
<1> QED  BY <1>1, InitRuns, NextRuns, PTL DEF Spec

(* The policies of a report nest: P2 answers what P1 answers or abstains   *)
(* for a reason of a component, no accepted candidate fails the second     *)
(* validation, and only a correction changes an answer of P0               *)
(* (validation_correction/evaluation.py, recovery_r2.py).                  *)
THEOREM Policies == Spec => []PoliciesNest
<1>1. ASSUME RunsInv, NEW r \in Runs, HasReport(r), NEW e \in Examples
      PROVE  /\ Gated(Decided(r)[e]) /\ Gated(Decided(r)[TheoryOf[e]])
             /\ world.answer[e] \in [{"raw", "corrected"} -> Statuses]
  <2>1. DOMAIN Decided(r) = Components
    BY <1>1 DEF RunsInv, HasReport
  <2>2. e \in DOMAIN Decided(r) /\ TheoryOf[e] \in DOMAIN Decided(r)
    BY <2>1, ExamplesAssumption DEF Components
  <2>3. Gated(Decided(r)[e]) /\ Gated(Decided(r)[TheoryOf[e]])
    BY <1>1, <2>2, RunsAreGated
  <2> QED  BY <1>1, <2>3, WorldsAssumption DEF RunsInv
<1>2. RunsInv => PoliciesNest
  <2> SUFFICES ASSUME RunsInv, NEW r \in Runs, HasReport(r), NEW e \in Examples
               PROVE  LET d  == Decided(r)
                          p0 == P0(world)[e]
                          p1 == P1(world, d)[e]
                          p2 == P2(world, d)[e] IN
                      /\ IsAnswered(p2) => p1 = p2
                      /\ p2.label = "ERROR" => p1 = p2
                      /\ p1 # p2 => p2.label = "ABSTAIN"
                                     /\ p2.why \in {"CRITIC_REJECTED", "RESOURCE_LIMIT"}
                      /\ p1.why # "RELIABILITY_GATE_FAILED"
                      /\ IsAnswered(p0) /\ IsAnswered(p1) /\ p0 # p1
                         => d[e].corrected \/ d[TheoryOf[e]].corrected
    BY DEF PoliciesNest
  <2>1. PICK d : d = Decided(r)
    OBVIOUS
  <2>2. Gated(d[e]) /\ Gated(d[TheoryOf[e]])
        /\ world.answer[e] \in [{"raw", "corrected"} -> Statuses]
    BY <1>1, <2>1
  <2>3. /\ P0(world)[e] = RawPrediction(world, e)
        /\ P1(world, d)[e] = PolicyPrediction(world, d, FALSE, e)
        /\ P2(world, d)[e] = PolicyPrediction(world, d, TRUE, e)
    BY DEF P0, P1, P2
  <2>4. PICK p0, p1, p2 : /\ p0 = RawPrediction(world, e)
                          /\ p1 = PolicyPrediction(world, d, FALSE, e)
                          /\ p2 = PolicyPrediction(world, d, TRUE, e)
    OBVIOUS
  <2>5. /\ IsAnswered(p2) => p1 = p2
        /\ p2.label = "ERROR" => p1 = p2
        /\ p1 # p2 => p2.label = "ABSTAIN" /\ p2.why \in {"CRITIC_REJECTED", "RESOURCE_LIMIT"}
        /\ p1.why # "RELIABILITY_GATE_FAILED"
        /\ IsAnswered(p0) /\ IsAnswered(p1) /\ p0 # p1
             => d[e].corrected \/ d[TheoryOf[e]].corrected
    BY <2>2, <2>4, PoliciesNestFor
  <2> QED  BY <2>1, <2>3, <2>4, <2>5
<1> QED  BY <1>2, InitRuns, NextRuns, PTL DEF Spec

-----------------------------------------------------------------------------
(***************************************************************************)
(* The numbers of a report.                                                *)
(***************************************************************************)

LEMMA FewerOf ==
  ASSUME NEW S, IsFiniteSet(S), NEW T \in SUBSET S
  PROVE  /\ IsFiniteSet(T) /\ Cardinality(T) \in Nat
         /\ Cardinality(T) <= Cardinality(S)
BY FS_Subset, FS_CardinalityType

LEMMA AllOf ==
  ASSUME NEW S, IsFiniteSet(S), NEW T \in SUBSET S, NEW U \in SUBSET S, T \cap U = {}
  PROVE  Cardinality(T \cup U) = Cardinality(T) + Cardinality(U)
<1> DEFINE k == Cardinality(T)
           n == Cardinality(U)
           all == Cardinality(T \cup U)
           both == Cardinality(T \cap U)
<1>1. IsFiniteSet(T) /\ IsFiniteSet(U) /\ k \in Nat /\ n \in Nat
  BY FewerOf
<1>2. all = k + n - both
  BY <1>1, FS_Union
<1>3. both = 0
  BY FS_EmptySet
<1>4. all = k + n
  <2> HIDE DEF k, n, all, both
  <2> QED  BY <1>1, <1>2, <1>3
<1> QED  BY <1>4

(* How the evaluation of the semantic parser labels an example. *)
LEMMA ParserFacts ==
  ASSUME NEW w \in Worlds, NEW e \in Examples, NEW p, p = ParserPrediction(w, e)
  PROVE  /\ p.label \in Answered \cup {"ERROR"}
         /\ p.label = RawPrediction(w, e).label
         /\ e \in ParsedExamples(w) \/ p.why = "SOURCE_COVERAGE_ERROR"
              => Parsed(w, TheoryOf[e]) /\ Parsed(w, e)
         /\ e \in ParsedExamples(w)
              <=> IsAnswered(p) \/ p.why = "INCONSISTENT" \/ p.why = "PROOF_VERIFICATION_ERROR"
         /\ IsAnswered(p) => p.why = "none"
         /\ e \in ParsedExamples(w) => p.why # "SOURCE_COVERAGE_ERROR"
<1> DEFINE t == TheoryOf[e]
           status == w.answer[e]["raw"]
<1>1. /\ w.raw[t] \in RawValues /\ w.raw[e] \in RawValues \ {"coverage"}
      /\ status \in Statuses
  BY WorldsAssumption, ExamplesAssumption DEF Components
<1>2. /\ Parsed(w, t) <=> w.raw[t] \in {"coverage", "semantic", "valid"}
      /\ Parsed(w, e) <=> w.raw[e] \in {"coverage", "semantic", "valid"}
  BY <1>1 DEF Parsed, ParserStatus, RawValues
<1>3. e \in ParsedExamples(w) <=> w.raw[t] = "valid" /\ w.raw[e] = "valid"
  BY DEF ParsedExamples
<1>4. \A x : Error(x) = [label |-> "ERROR", why |-> x]
  BY DEF Error, Prediction
<1>5. CASE e \in ParsedExamples(w)
  <2>1. p = Reasoned(status, Error("INCONSISTENT"))
        /\ RawPrediction(w, e) = Reasoned(status, Error("INCONSISTENT"))
    BY <1>2, <1>3, <1>5 DEF ParserPrediction, RawPrediction
  <2>2. p = IF status = "INCONSISTENT" THEN Error("INCONSISTENT")
            ELSE IF status = "UNVERIFIED" THEN Error("PROOF_VERIFICATION_ERROR")
            ELSE [label |-> status, why |-> "none"]
    BY <2>1 DEF Reasoned, Prediction
  <2> HIDE DEF status, t
  <2> QED  BY <1>1, <1>2, <1>3, <1>4, <1>5, <2>1, <2>2
           DEF Statuses, Answered, IsAnswered, t
<1>6. CASE e \notin ParsedExamples(w)
  <2>1. \E x \in {"STRUCTURED_OUTPUT_ERROR", "SEMANTIC_INVALID"} \cup
                 {y \in {"SOURCE_COVERAGE_ERROR"} : Parsed(w, t) /\ Parsed(w, e)} :
          p = Error(x)
    BY <1>1, <1>2, <1>3, <1>6 DEF ParserPrediction, ParserStatus, RawValues
  <2>2. \E x : RawPrediction(w, e) = Error(x)
    BY <1>3, <1>6 DEF RawPrediction, RawError
  <2> QED  BY <1>4, <1>6, <2>1, <2>2 DEF Answered, IsAnswered
<1> QED  BY <1>5, <1>6

LEMMA FunnelAddsUp ==
  ASSUME NEW w \in Worlds
  PROVE  LET pp == ParserP0(w)
             f  == Funnel(w, pp) IN
         /\ f.parsed <= f.covered /\ f.covered <= f.structured
         /\ f.parsed = Metrics(w, pp).answered + ErrorCount(pp, "INCONSISTENT")
                         + ErrorCount(pp, "PROOF_VERIFICATION_ERROR")
<1> DEFINE pp == ParserP0(w)
           structured == {e \in Examples : Parsed(w, TheoryOf[e]) /\ Parsed(w, e)}
           uncovered == {e \in Examples : pp[e].why = "SOURCE_COVERAGE_ERROR"}
           covered == structured \ uncovered
           answered == {e \in Examples : pp[e].label \in Answered}
           inconsistent == {e \in Examples : pp[e].why = "INCONSISTENT"}
           unverified == {e \in Examples : pp[e].why = "PROOF_VERIFICATION_ERROR"}
           parsed == ParsedExamples(w)
<1>1. ASSUME NEW e \in Examples
      PROVE  /\ e \in parsed \/ pp[e].why = "SOURCE_COVERAGE_ERROR"
                   => Parsed(w, TheoryOf[e]) /\ Parsed(w, e)
             /\ e \in parsed
                  <=> \/ pp[e].label \in Answered
                      \/ pp[e].why = "INCONSISTENT"
                      \/ pp[e].why = "PROOF_VERIFICATION_ERROR"
             /\ pp[e].label \in Answered => pp[e].why = "none"
             /\ e \in parsed => pp[e].why # "SOURCE_COVERAGE_ERROR"
  <2>1. PICK p : p = ParserPrediction(w, e)
    OBVIOUS
  <2>2. pp[e] = p
    BY <2>1 DEF ParserP0
  <2> HIDE DEF pp
  <2> QED  BY <2>1, <2>2, ParserFacts DEF IsAnswered
<1>2. /\ uncovered \subseteq structured /\ parsed \subseteq covered
      /\ parsed = (answered \cup inconsistent) \cup unverified
      /\ answered \cap inconsistent = {} /\ (answered \cup inconsistent) \cap unverified = {}
  <2> HIDE DEF pp
  <2>1. parsed \subseteq Examples
    BY DEF ParsedExamples
  <2> HIDE DEF parsed
  <2> QED  BY <1>1, <2>1
<1>3. structured \subseteq Examples /\ answered \subseteq Examples
      /\ inconsistent \subseteq Examples /\ unverified \subseteq Examples
  OBVIOUS
<1> DEFINE s == Cardinality(structured)
           u == Cardinality(uncovered)
           c == Cardinality(covered)
           n == Cardinality(parsed)
<1>4. /\ Funnel(w, pp).structured = s /\ Funnel(w, pp).covered = s - u
      /\ Funnel(w, pp).parsed = n
      /\ Metrics(w, pp).answered = Cardinality(answered)
      /\ ErrorCount(pp, "INCONSISTENT") = Cardinality(inconsistent)
      /\ ErrorCount(pp, "PROOF_VERIFICATION_ERROR") = Cardinality(unverified)
  <2> HIDE DEF pp
  <2> QED  BY DEF Funnel, Metrics, Count, ErrorCount
<1> HIDE DEF structured, uncovered, answered, inconsistent, unverified, parsed, pp
<1>5. IsFiniteSet(structured)
  BY <1>3, ComponentsAreFinite, FewerOf
<1>6. s = c + u /\ s \in Nat /\ u \in Nat /\ c \in Nat
  <2>1. structured = covered \cup uncovered /\ covered \cap uncovered = {}
    BY <1>2
  <2>2. covered \subseteq structured
    OBVIOUS
  <2> HIDE DEF covered
  <2> QED  BY <1>2, <1>5, <2>1, <2>2, AllOf, FewerOf
<1>7. n <= c /\ n \in Nat
  <2>1. IsFiniteSet(covered)
    BY <1>5, FewerOf
  <2> HIDE DEF covered
  <2> QED  BY <1>2, <2>1, FewerOf
<1>8. n = Cardinality(answered) + Cardinality(inconsistent) + Cardinality(unverified)
  <2>1. (answered \cup inconsistent) \subseteq Examples
    BY <1>3
  <2>2. n = Cardinality(answered \cup inconsistent) + Cardinality(unverified)
    BY <1>2, <1>3, <2>1, ComponentsAreFinite, AllOf
  <2> QED  BY <1>2, <1>3, <2>2, ComponentsAreFinite, AllOf
<1>9. n <= s - u /\ s - u <= s
  <2> HIDE DEF n, s, u, c
  <2> QED  BY <1>6, <1>7
<1> QED  BY <1>4, <1>8, <1>9 DEF pp

LEMMA GainsAddUp ==
  ASSUME NEW w, NEW p0, NEW p1,
         \A e \in Examples : p0[e].label \in Answered \cup {"ERROR"}
  PROVE  Metrics(w, p1).answered + LostAfterCorrection(p0, p1)
           = Metrics(w, p0).answered + NewlyAnswerable(p0, p1)
<1> DEFINE before == {e \in Examples : p0[e].label \in Answered}
           after  == {e \in Examples : p1[e].label \in Answered}
           lost   == {e \in Examples : IsAnswered(p0[e]) /\ ~IsAnswered(p1[e])}
           gained == {e \in Examples : p0[e].label = "ERROR" /\ IsAnswered(p1[e])}
<1>1. /\ after \cup lost = before \cup gained
      /\ after \cap lost = {} /\ before \cap gained = {}
  BY DEF IsAnswered, Answered
<1>2. /\ Metrics(w, p1).answered = Cardinality(after)
      /\ Metrics(w, p0).answered = Cardinality(before)
      /\ LostAfterCorrection(p0, p1) = Cardinality(lost)
      /\ NewlyAnswerable(p0, p1) = Cardinality(gained)
  BY DEF Metrics, Count, LostAfterCorrection, NewlyAnswerable
<1>3. /\ after \subseteq Examples /\ lost \subseteq Examples
      /\ before \subseteq Examples /\ gained \subseteq Examples
  OBVIOUS
<1> HIDE DEF before, after, lost, gained
<1>4. /\ Cardinality(after \cup lost) = Cardinality(after) + Cardinality(lost)
      /\ Cardinality(before \cup gained) = Cardinality(before) + Cardinality(gained)
  BY <1>1, <1>3, ComponentsAreFinite, AllOf
<1> QED  BY <1>1, <1>2, <1>4

(* An error that becomes an abstention is no longer one, and that is all.  *)
LEMMA ValidationOnlyAddsUp ==
  ASSUME NEW w, NEW p
  PROVE  /\ Metrics(w, ValidationOnly(p)).errored = 0
         /\ Metrics(w, ValidationOnly(p)).answered = Metrics(w, p).answered
<1> DEFINE vo == ValidationOnly(p)
<1>1. \A e \in Examples : vo[e].label = IF p[e].label = "ERROR" THEN "ABSTAIN" ELSE p[e].label
  BY DEF ValidationOnly, Abstain, Prediction
<1> HIDE DEF vo
<1>2. /\ {e \in Examples : vo[e].label \in {"ERROR"}} = {}
      /\ {e \in Examples : vo[e].label \in Answered}
           = {e \in Examples : p[e].label \in Answered}
  BY <1>1 DEF Answered
<1>3. /\ Metrics(w, vo).errored = Cardinality({})
      /\ Metrics(w, vo).answered = Metrics(w, p).answered
  BY <1>2 DEF Metrics, Count
<1> QED  BY <1>3, FS_EmptySet DEF vo

(* The selective policy only trades answers for abstentions. *)
LEMMA TradesAddUp ==
  ASSUME NEW p1, NEW p2,
         \A e \in Examples : p1[e] # p2[e] => p2[e].label = "ABSTAIN"
  PROVE  /\ \A from, to \in Labels :
              TransitionMatrix(p1, p2)[<<from, to>>] > 0 => from = to \/ to = "ABSTAIN"
         /\ AbstentionMetrics(p1, p2).retained <= AbstentionMetrics(p1, p2).answered
         /\ AbstentionMetrics(p1, p2).p2_errors <= AbstentionMetrics(p1, p2).p1_errors
<1>1. ASSUME NEW from \in Labels, NEW to \in Labels, from # to, to # "ABSTAIN"
      PROVE  ~(TransitionMatrix(p1, p2)[<<from, to>>] > 0)
  <2>1. {e \in Examples : p1[e].label = from /\ p2[e].label = to} = {}
    BY <1>1
  <2>2. TransitionMatrix(p1, p2)[<<from, to>>] = Cardinality({})
    BY <2>1 DEF TransitionMatrix
  <2>3. Cardinality({}) = 0
    BY FS_EmptySet
  <2> QED  BY <2>2, <2>3
<1>2. ASSUME NEW labels, "ABSTAIN" \notin labels
      PROVE  Count(p2, labels) <= Count(p1, labels)
  <2> DEFINE few  == {e \in Examples : p2[e].label \in labels}
             many == {e \in Examples : p1[e].label \in labels}
  <2>1. few \subseteq many /\ many \subseteq Examples
    BY <1>2
  <2>2. IsFiniteSet(many)
    BY <2>1, ComponentsAreFinite, FewerOf
  <2>3. Cardinality(few) <= Cardinality(many)
    <3> HIDE DEF few, many
    <3> QED  BY <2>1, <2>2, FewerOf
  <2> QED  BY <2>3 DEF Count
<1>3. "ABSTAIN" \notin Answered /\ "ABSTAIN" \notin {"ERROR"}
  BY DEF Answered
<1>4. /\ AbstentionMetrics(p1, p2).retained = Count(p2, Answered)
      /\ AbstentionMetrics(p1, p2).answered = Count(p1, Answered)
      /\ AbstentionMetrics(p1, p2).p2_errors = Count(p2, {"ERROR"})
      /\ AbstentionMetrics(p1, p2).p1_errors = Count(p1, {"ERROR"})
  BY DEF AbstentionMetrics
<1> QED  BY <1>1, <1>2, <1>3, <1>4

(* What a second attempt recovers, and what it loses, are apart. *)
LEMMA CorrectionsAddUp ==
  ASSUME NEW valid, NEW d, \A c \in Components : d[c].selective => d[c].deterministic
  PROVE  LET cm == CorrectionMetrics(valid, d) IN
         cm.accepted <= cm.recovered /\ cm.recovered + cm.regressions <= cm.attempted
<1> DEFINE attempted == {c \in Components : d[c].attempts > 0}
           recovered == {c \in attempted : d[c].deterministic}
           accepted == {c \in attempted : d[c].selective}
           regressed == {c \in attempted : valid[c] /\ ~d[c].deterministic}
           cm == CorrectionMetrics(valid, d)
<1>1. /\ cm.attempted = Cardinality(attempted) /\ cm.recovered = Cardinality(recovered)
      /\ cm.accepted = Cardinality(accepted) /\ cm.regressions = Cardinality(regressed)
  BY DEF CorrectionMetrics
<1>2. /\ attempted \subseteq Components /\ recovered \subseteq attempted
      /\ accepted \subseteq recovered /\ regressed \subseteq attempted
      /\ recovered \cap regressed = {} /\ recovered \cup regressed \subseteq attempted
  OBVIOUS
<1> HIDE DEF attempted, recovered, accepted, regressed
<1>3. IsFiniteSet(attempted) /\ IsFiniteSet(recovered)
  BY <1>2, ComponentsAreFinite, FewerOf
<1>4. Cardinality(accepted) <= Cardinality(recovered)
  BY <1>2, <1>3, FewerOf
<1>5. Cardinality(recovered \cup regressed) <= Cardinality(attempted)
  BY <1>2, <1>3, FewerOf
<1>6. Cardinality(recovered \cup regressed) = Cardinality(recovered) + Cardinality(regressed)
  BY <1>2, <1>3, AllOf
<1> HIDE DEF cm
<1> QED  BY <1>1, <1>4, <1>5, <1>6 DEF cm

(* What is accepted without a correction was valid as it was parsed. *)
LEMMA AcceptedAsParsed ==
  ASSUME RunsInv, NEW r \in Runs, NEW c \in DOMAIN Decided(r),
         Decided(r)[c].deterministic, ~Decided(r)[c].corrected
  PROVE  RawValid(c, Decided(r))
<1>1. PICK end \in AllEnds, v \in BOOLEAN :
        /\ Decided(r)[c] = DecisionOf(end, v) /\ (v <=> RawValid(c, Decided(r)))
        /\ end \in FirstCritique => v = TRUE
        /\ end \in KeptEnds => store[<<c, v>>] = end
        /\ Gated(Decided(r)[c])
  BY RunsAreGated
<1>2. PICK d : d = Decided(r)[c]
  OBVIOUS
<1>3. d.deterministic /\ ~d.corrected => end \in FirstCritique
  BY <1>1, <1>2, DecisionFacts
<1> QED  BY <1>1, <1>2, <1>3

(* What fails validation in P0 is answered by P1 only after a correction. *)
LEMMA OnlyCorrectionsRecover ==
  ASSUME RunsInv, NEW r \in Runs, DOMAIN Decided(r) = Components,
         NEW e \in Examples \ ParsedExamples(world),
         IsAnswered(PolicyPrediction(world, Decided(r), FALSE, e))
  PROVE  Decided(r)[e].corrected \/ Decided(r)[TheoryOf[e]].corrected
<1> DEFINE t == TheoryOf[e]
<1>1. PICK d : d = Decided(r)
  OBVIOUS
<1>2. e \in DOMAIN d /\ t \in DOMAIN d /\ t \notin Examples
  BY <1>1, ExamplesAssumption DEF Components
<1>3. Gated(d[e]) /\ Gated(d[t])
  BY <1>1, <1>2, RunsAreGated
<1>4. world.answer[e] \in [{"raw", "corrected"} -> Statuses]
  BY WorldsAssumption DEF RunsInv
<1>5. PICK p1 : p1 = PolicyPrediction(world, d, FALSE, e)
  OBVIOUS
<1>6. IsAnswered(p1)
  BY <1>1, <1>5
<1>7. d[e].deterministic /\ d[t].deterministic
  BY <1>3, <1>4, <1>5, <1>6, PoliciesNestFor
<1>8. ASSUME ~d[e].corrected, ~d[t].corrected  PROVE FALSE
  <2>1. RawValid(e, d) /\ RawValid(t, d)
    BY <1>1, <1>2, <1>7, <1>8, AcceptedAsParsed
  <2>2. world.raw[t] = "valid"
    BY <1>2, <2>1 DEF RawValid
  <2>3. d[t].valid
    BY <1>3, <1>7 DEF Gated
  <2>4. world.raw[e] = "valid"
    BY <2>1, <2>3 DEF RawValid
  <2> QED  BY <2>2, <2>4 DEF ParsedExamples
<1> QED  BY <1>1, <1>8

(* The two computations of P0 label alike, and the numbers of every report *)
(* agree with each other (validation_correction/evaluation.py,             *)
(* recovery_r2.py).                                                        *)
THEOREM Reports == Spec => []ReportAddsUp
<1>1. ASSUME world \in Worlds, NEW e \in Examples
      PROVE  /\ P0(world)[e].label = ParserP0(world)[e].label
             /\ ParserP0(world)[e].label \in Answered \cup {"ERROR"}
  BY <1>1, ParserFacts DEF P0, ParserP0
<1>2. ASSUME RunsInv  PROVE SameLabels
  BY <1>1, <1>2 DEF SameLabels, RunsInv, P0, ParserP0
<1>3. ASSUME RunsInv, NEW r \in Runs, HasReport(r), NEW d, d = Decided(r),
             NEW pp, pp = ParserP0(world),
             NEW p0, p0 = IF dirs[r].kind = "sealed" THEN P0(world) ELSE pp,
             NEW p1, p1 = P1(world, d), NEW p2, p2 = P2(world, d),
             NEW vo, vo = Metrics(world, ValidationOnly(pp)),
             NEW f, f = Funnel(world, pp), NEW am, am = AbstentionMetrics(p1, p2),
             NEW cm, cm = CorrectionMetrics([c \in Components |-> RawValid(c, d)], d)
      PROVE  /\ f.parsed <= f.covered /\ f.covered <= f.structured
             /\ f.parsed = Metrics(world, pp).answered + ErrorCount(pp, "INCONSISTENT")
                             + ErrorCount(pp, "PROOF_VERIFICATION_ERROR")
             /\ Metrics(world, p1).answered + LostAfterCorrection(p0, p1)
                  = Metrics(world, p0).answered + NewlyAnswerable(p0, p1)
             /\ vo.errored = 0 /\ vo.answered = Metrics(world, pp).answered
             /\ \A from, to \in Labels :
                  TransitionMatrix(p1, p2)[<<from, to>>] > 0 => from = to \/ to = "ABSTAIN"
             /\ am.retained <= am.answered /\ am.p2_errors <= am.p1_errors
             /\ cm.accepted <= cm.recovered /\ cm.recovered + cm.regressions <= cm.attempted
             /\ \A e \in Examples \ ParsedExamples(world) :
                  IsAnswered(p1[e]) => d[e].corrected \/ d[TheoryOf[e]].corrected
  <2>1. /\ DOMAIN d = Components /\ world \in Worlds
        /\ \A c \in Components : Gated(d[c])
    BY <1>3, RunsAreGated DEF RunsInv, HasReport
  <2>2. /\ f.parsed <= f.covered /\ f.covered <= f.structured
        /\ f.parsed = Metrics(world, pp).answered + ErrorCount(pp, "INCONSISTENT")
                        + ErrorCount(pp, "PROOF_VERIFICATION_ERROR")
    BY <1>3, <2>1, FunnelAddsUp
  <2>3. \A e \in Examples : p0[e].label \in Answered \cup {"ERROR"}
    BY <1>1, <1>3, <2>1
  <2>4. Metrics(world, p1).answered + LostAfterCorrection(p0, p1)
          = Metrics(world, p0).answered + NewlyAnswerable(p0, p1)
    BY <2>3, GainsAddUp
  <2>5. vo.errored = 0 /\ vo.answered = Metrics(world, pp).answered
    BY <1>3, ValidationOnlyAddsUp
  <2>6. ASSUME NEW e \in Examples
        PROVE  p1[e] # p2[e] => p2[e].label = "ABSTAIN"
    <3>1. e \in Components /\ TheoryOf[e] \in Components
      BY ExamplesAssumption DEF Components
    <3>2. Gated(d[e]) /\ Gated(d[TheoryOf[e]])
          /\ world.answer[e] \in [{"raw", "corrected"} -> Statuses]
      BY <2>1, <3>1, WorldsAssumption
    <3>3. PICK a, b : /\ a = PolicyPrediction(world, d, FALSE, e)
                      /\ b = PolicyPrediction(world, d, TRUE, e)
      OBVIOUS
    <3>4. a # b => b.label = "ABSTAIN"
      BY <3>2, <3>3, PoliciesNestFor
    <3>5. p1[e] = a /\ p2[e] = b
      BY <1>3, <3>3 DEF P1, P2
    <3> QED  BY <3>4, <3>5
  <2>7. /\ \A from, to \in Labels :
             TransitionMatrix(p1, p2)[<<from, to>>] > 0 => from = to \/ to = "ABSTAIN"
        /\ am.retained <= am.answered /\ am.p2_errors <= am.p1_errors
    BY <1>3, <2>6, TradesAddUp
  <2>8. cm.accepted <= cm.recovered /\ cm.recovered + cm.regressions <= cm.attempted
    <3>1. \A c \in Components : d[c].selective => d[c].deterministic
      BY <2>1 DEF Gated
    <3>2. PICK valid : valid = [c \in Components |-> RawValid(c, d)]
      OBVIOUS
    <3>3. cm = CorrectionMetrics(valid, d)
      BY <1>3, <3>2
    <3> QED  BY <3>1, <3>3, CorrectionsAddUp
  <2>9. ASSUME NEW e \in Examples \ ParsedExamples(world), IsAnswered(p1[e])
        PROVE  d[e].corrected \/ d[TheoryOf[e]].corrected
    <3>1. p1[e] = PolicyPrediction(world, d, FALSE, e)
      BY <1>3 DEF P1
    <3> QED  BY <1>3, <2>1, <2>9, <3>1, OnlyCorrectionsRecover
  <2> QED  BY <2>2, <2>4, <2>5, <2>7, <2>8, <2>9
<1>4. RunsInv => ReportAddsUp
  BY <1>2, <1>3 DEF ReportAddsUp
<1> QED  BY <1>4, InitRuns, NextRuns, PTL DEF Spec
=============================================================================
