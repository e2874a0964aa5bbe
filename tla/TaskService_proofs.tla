--------------------------- MODULE TaskService_proofs ---------------------------
(***************************************************************************)
(* Proofs about the task services, for any requests, budget, attempts and  *)
(* answers.                                                                *)
(***************************************************************************)
EXTENDS TaskService, Integers, TLAPS

(* A final entry is told as an answer or a failure. *)
LEMMA OutcomeType ==
  ASSUME NEW e \in Entries, e.kind \in {"success", "terminal"}
  PROVE  OutcomeOf(e) \in Outcomes
<1>1. CASE e \in {Success(a) : a \in Answers}
  BY <1>1 DEF OutcomeOf, Success, Unusable, Outcomes, Failures
<1>2. CASE e \in {Terminal(s, n) : s \in Failures, n \in 0..MaxAttempts}
  BY <1>2 DEF OutcomeOf, Terminal, Outcomes
<1>3. CASE e \in {NoEntry, Corrupt, Unusable}
  BY <1>3 DEF OutcomeOf, NoEntry, Corrupt, Unusable, Outcomes, Failures
<1> QED  BY <1>1, <1>2, <1>3 DEF Entries

(* The kinds an entry may have, and the only entry that is no file. *)
LEMMA EntryKinds ==
  ASSUME NEW e \in Entries
  PROVE  /\ e.kind \in {"none", "corrupt", "success", "terminal"}
         /\ e.kind = "none" => e = NoEntry
<1>1. CASE e \in {Success(a) : a \in Answers}
  BY <1>1 DEF Success
<1>2. CASE e \in {Terminal(s, n) : s \in Failures, n \in 0..MaxAttempts}
  BY <1>2 DEF Terminal
<1>3. CASE e \in {NoEntry, Corrupt, Unusable}
  BY <1>3 DEF NoEntry, Corrupt, Unusable
<1> QED  BY <1>1, <1>2, <1>3 DEF Entries

(* What the terminal entry of a failed dispatch holds has its type. *)
LEMMA TerminalType ==
  ASSUME NEW s \in Failures
  PROVE  /\ Terminal(s, ObservedAttempts(s)) \in Entries
         /\ Terminal(s, 1) \in Entries
         /\ Terminal(s, ObservedAttempts(s)).kind = "terminal"
         /\ Terminal(s, 1).kind = "terminal"
<1>1. ObservedAttempts(s) \in 0..MaxAttempts /\ 1 \in 0..MaxAttempts
  BY LimitsAssumption DEF ObservedAttempts
<1>2. \A n \in 0..MaxAttempts : Terminal(s, n) \in Entries
  BY DEF Entries
<1>3. \A n : Terminal(s, n).kind = "terminal"
  BY DEF Terminal
<1> QED  BY <1>1, <1>2, <1>3

-----------------------------------------------------------------------------
(***************************************************************************)
(* The strengthening.  A task that is being dispatched or stored found no  *)
(* file and is not a replay, and no other task can have written one since. *)
(***************************************************************************)
TaskInProgress ==
  /\ step = "load" => attempts = 0
  /\ step = "dispatch" => attempts < MaxAttempts /\ ~replay
  /\ step \in {"dispatch", "store"} => cache[task] = NoEntry
  /\ step = "store" => entry.kind \in {"success", "terminal"}

IInv == TypeOK /\ TaskInProgress /\ SeenIsStored

LEMMA InitIInv == Init => IInv
<1> SUFFICES ASSUME Init  PROVE IInv
  OBVIOUS
<1>1. {NoEntry, Corrupt, Unusable} \subseteq Entries
  BY DEF Entries
<1>2. TypeOK
  BY <1>1 DEF Init, TypeOK, Undecided
<1>3. TaskInProgress
  BY DEF Init, TaskInProgress
<1>4. SeenIsStored
  BY DEF Init, SeenIsStored, Undecided
<1> QED  BY <1>2, <1>3, <1>4 DEF IInv

LEMMA NextIInv == IInv /\ [Next]_vars => IInv'
<1> SUFFICES ASSUME IInv, [Next]_vars  PROVE IInv'
  OBVIOUS
<1> USE DEF IInv
<1>1. ASSUME NEW r \in Requests, Begin(r)  PROVE IInv'
  BY <1>1 DEF Begin, TypeOK, TaskInProgress, SeenIsStored
<1>2. CASE Refuse
  BY <1>2 DEF Refuse, TypeOK, TaskInProgress, SeenIsStored
<1>3. CASE Hit
  <2>1. /\ task \in Requests
        /\ cache[task] \in Entries
        /\ cache[task].kind \in {"success", "terminal"}
    BY <1>3 DEF Hit, IsDecided, TypeOK
  <2>2. OutcomeOf(cache[task]) \in Outcomes
    BY <2>1, OutcomeType
  <2>3. TypeOK'
    BY <1>3, <2>2 DEF Hit, Seen, TypeOK
  <2>4. TaskInProgress'
    BY <1>3 DEF Hit, TaskInProgress
  <2>5. SeenIsStored'
    BY <1>3, <2>1 DEF Hit, Seen, TypeOK, SeenIsStored
  <2> QED  BY <2>3, <2>4, <2>5
<1>4. CASE Miss
  <2>1. /\ cache[task].kind \notin {"corrupt", "success", "terminal"}
        /\ cache[task].kind = "none" => ~replay
    BY <1>4 DEF Miss, Refused, IsDecided
  <2>2. cache[task] = NoEntry /\ ~replay
    BY <2>1, EntryKinds DEF TypeOK
  <2>3. TypeOK'
    BY <1>4 DEF Miss, TypeOK
  <2>4. TaskInProgress'
    BY <1>4, <2>2, LimitsAssumption DEF Miss, TaskInProgress
  <2>5. SeenIsStored'
    BY <1>4 DEF Miss, SeenIsStored
  <2> QED  BY <2>3, <2>4, <2>5
<1>5. ASSUME NEW s \in Failures, step = "dispatch", KeepFailure(s),
             UNCHANGED <<cache, replay, newCalls, task, made, settled>>,
             claimed' \in Nat, attempts' \in Nat
      PROVE  IInv'
  <2>1. /\ entry' \in Entries
        /\ step' \in {"idle", "store"}
        /\ step' = "store" => entry'.kind = "terminal"
    BY <1>5, TerminalType DEF KeepFailure, TypeOK
  <2>2. TypeOK'
    BY <1>5, <2>1 DEF TypeOK
  <2>3. TaskInProgress'
    BY <1>5, <2>1 DEF TaskInProgress
  <2>4. SeenIsStored'
    BY <1>5 DEF SeenIsStored
  <2> QED  BY <2>2, <2>3, <2>4
<1>6. CASE OverBudget
  <2>1. "PROVIDER_ERROR" \in Failures
    BY DEF Failures
  <2> QED  BY <1>5, <1>6, <2>1 DEF OverBudget, TypeOK
<1>7. CASE Respond
  <2>1. entry' \in Entries /\ entry'.kind \in {"success", "terminal"}
    <3>1. ASSUME NEW a \in Answers
          PROVE  Success(a) \in Entries /\ Success(a).kind = "success"
      BY DEF Success, Entries
    <3>2. "STRUCTURED_OUTPUT_ERROR" \in Failures
      BY DEF Failures
    <3> QED  BY <1>7, <3>1, <3>2, TerminalType DEF Respond
  <2>2. TypeOK'
    BY <1>7, <2>1 DEF Respond, Claim, TypeOK
  <2>3. TaskInProgress'
    BY <1>7, <2>1 DEF Respond, TaskInProgress
  <2>4. SeenIsStored'
    BY <1>7 DEF Respond, SeenIsStored
  <2> QED  BY <2>2, <2>3, <2>4
<1>8. CASE Retry
  BY <1>8 DEF Retry, Claim, TypeOK, TaskInProgress, SeenIsStored
<1>9. ASSUME NEW s \in Failures, Give(s)  PROVE IInv'
  <2>1. claimed' \in Nat /\ attempts' \in Nat
    BY <1>9 DEF Give, Claim, TypeOK
  <2> QED  BY <1>5, <1>9, <2>1 DEF Give
<1>10. CASE Store
  <2>1. entry \in Entries /\ entry.kind \in {"success", "terminal"}
    BY <1>10 DEF Store, TypeOK, TaskInProgress
  <2>2. OutcomeOf(entry) \in Outcomes /\ NoEntry \in Entries
    BY <2>1, OutcomeType DEF Entries
  <2>3. TypeOK'
    BY <1>10, <2>1, <2>2 DEF Store, Seen, TypeOK
  <2>4. TaskInProgress'
    BY <1>10 DEF Store, TaskInProgress
  <2>5. SeenIsStored'
    BY <1>10, <2>1 DEF Store, Seen, TypeOK, SeenIsStored
  <2> QED  BY <2>3, <2>4, <2>5
<1>11. CASE NewRun
  <2>1. NoEntry \in Entries
    BY DEF Entries
  <2> QED  BY <1>11, <2>1 DEF NewRun, TypeOK, TaskInProgress, SeenIsStored
<1>12. CASE UNCHANGED vars
  BY <1>12 DEF vars, TypeOK, TaskInProgress, SeenIsStored
<1> QED
  BY <1>1, <1>2, <1>3, <1>4, <1>6, <1>7, <1>8, <1>9, <1>10, <1>11, <1>12
     DEF Next, Dispatch

LEMMA Invariant == Spec => []IInv
<1> QED  BY InitIInv, NextIInv, PTL DEF Spec

-----------------------------------------------------------------------------

(* The state of the services always has its type.                          *)
THEOREM TypeCorrect == Spec => []TypeOK
<1>1. IInv => TypeOK
  BY DEF IInv
<1> QED  BY Invariant, <1>1, PTL

(* Nothing is reported as final that is not on disk.                       *)
THEOREM SeenStays == Spec => []SeenIsStored
<1>1. IInv => SeenIsStored
  BY DEF IInv
<1> QED  BY Invariant, <1>1, PTL

(* Every call of the provider has its justification: no file on disk, a    *)
(* run that may call, a budget that is not used up, an attempt that is left. *)
THEOREM PaidFor == Spec => CallsArePaidFor
<1>1. IInv /\ [Next]_vars =>
        [claimed' > claimed => /\ cache[task] = NoEntry
                               /\ ~replay
                               /\ claimed' <= DispatchLimit
                               /\ attempts' <= MaxAttempts]_vars
  <2> SUFFICES ASSUME IInv, [Next]_vars, claimed' > claimed
               PROVE  /\ cache[task] = NoEntry
                      /\ ~replay
                      /\ claimed' <= DispatchLimit
                      /\ attempts' <= MaxAttempts
    OBVIOUS
  <2>1. CASE step = "dispatch" /\ Claim
    BY <2>1, LimitsAssumption DEF IInv, TypeOK, TaskInProgress, Claim
  <2>2. CASE claimed' = claimed
    BY <2>2 DEF IInv, TypeOK
  <2>3. CASE claimed' = 0
    BY <2>3 DEF IInv, TypeOK
  <2> QED
    BY <2>1, <2>2, <2>3
       DEF Next, Begin, Refuse, Hit, Miss, Dispatch, OverBudget, Respond,
           Retry, Give, Store, NewRun, vars
<1> QED  BY Invariant, <1>1, PTL DEF Spec, CallsArePaidFor

(* What a caller saw as final every later caller sees.                     *)
THEOREM Replayed == Spec => OutcomesAreReplayed
<1>1. IInv /\ [Next]_vars =>
        [\A r \in Requests : settled[r] # "none" => settled'[r] = settled[r]]_vars
  <2> SUFFICES ASSUME IInv, [Next]_vars, NEW r \in Requests, settled[r] # "none"
               PROVE  settled'[r] = settled[r]
    OBVIOUS
  <2>1. CASE Hit
    BY <2>1 DEF IInv, TypeOK, SeenIsStored, Hit, Seen
  <2>2. CASE Store
    <3>1. cache[task] = NoEntry /\ NoEntry.kind = "none"
      BY <2>2 DEF IInv, TaskInProgress, Store, NoEntry
    <3>2. r # task
      BY <3>1 DEF IInv, SeenIsStored
    <3> QED  BY <2>2, <3>2 DEF IInv, TypeOK, Store, Seen
  <2>3. CASE settled' = settled
    BY <2>3
  <2> QED
    BY <2>1, <2>2, <2>3
       DEF Next, Begin, Refuse, Miss, Dispatch, OverBudget, Respond,
           Retry, Give, NewRun, vars
<1> QED  BY Invariant, <1>1, PTL DEF Spec, OutcomesAreReplayed

(* The steps a task in progress may still take.                            *)
StepsLeft ==
  CASE step = "load"     -> MaxAttempts + 2
    [] step = "dispatch" -> MaxAttempts + 1 - attempts
    [] step = "store"    -> 1
    [] step = "idle"     -> 0

(* Whatever happens to a task in progress - an answer, an error of any     *)
(* kind, a budget that runs out, a crash - takes it nearer to its return:  *)
(* its attempts are counted in the task, so that neither errors that recur *)
(* nor other tasks can keep it going.                                      *)
TaskGetsOn ==
  [][step # "idle" => StepsLeft' \in 0..(StepsLeft - 1)]_vars

(* A task in progress has a bounded number of steps before it, and each    *)
(* step takes at least one of them.                                        *)
THEOREM GetsOn == Spec => TaskGetsOn
<1>1. IInv /\ [Next]_vars =>
        [step # "idle" => StepsLeft' \in 0..(StepsLeft - 1)]_vars
  <2> SUFFICES ASSUME IInv, Next, step # "idle"
               PROVE  StepsLeft' \in 0..(StepsLeft - 1)
    OBVIOUS
  <2>a. attempts \in Nat /\ MaxAttempts \in Nat \ {0}
    BY LimitsAssumption DEF IInv, TypeOK
  <2>b. /\ step = "load" => StepsLeft = MaxAttempts + 2
        /\ step = "dispatch" => StepsLeft = MaxAttempts + 1 - attempts
        /\ step = "store" => StepsLeft = 1
    BY DEF StepsLeft
  <2>c. /\ step' = "dispatch" => StepsLeft' = MaxAttempts + 1 - attempts'
        /\ step' = "store" => StepsLeft' = 1
        /\ step' = "idle" => StepsLeft' = 0
    BY DEF StepsLeft
  <2>d. StepsLeft \in Nat \ {0} /\ (step = "dispatch" => StepsLeft > 1)
    BY <2>a, <2>b DEF IInv, TypeOK, TaskInProgress
  <2>1. CASE step' = "idle"
    BY <2>1, <2>c, <2>d
  <2>2. CASE Miss
    BY <2>2, <2>a, <2>b, <2>c DEF Miss, IInv, TaskInProgress
  <2>3. CASE Retry
    BY <2>3, <2>a, <2>b, <2>c DEF Retry, Claim
  <2>4. CASE step = "dispatch" /\ step' = "store"
    BY <2>4, <2>c, <2>d
  <2> QED
    BY <2>1, <2>2, <2>3, <2>4
       DEF Next, Begin, Refuse, Hit, Dispatch, OverBudget, KeepFailure,
           Respond, Give, Store, NewRun
<1> QED  BY Invariant, <1>1, PTL DEF Spec, TaskGetsOn
=============================================================================
