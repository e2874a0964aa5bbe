-------------------------- MODULE BaselineRun_proofs --------------------------
(***************************************************************************)
(* Proofs about the baselines, for any processes over one cache directory, *)
(* any requests, answers, attempts, threshold and cap.                     *)
(***************************************************************************)
EXTENDS BaselineRun, Integers, FiniteSetTheorems, TLAPS

Steps == {"queued", "lookup", "quarantine", "lock", "unlink", "recheck",
          "requarantine", "reserve", "send", "store", "release", "done"}

CallType == [step : Steps, tries : Nat, result : Results \cup {"none"}]

Phases == {"start", "refused", "planned", "predicting", "draining", "published",
           "failed", "crashed"} \cup Publishing

DirType == [name     : {"none", "incomplete", "final"},
            manifest : {"none", "INCOMPLETE", "COMPLETE", "FAILED"},
            files    : SUBSET {"predictions", "metrics"}]

TypeInv ==
  /\ cacheFile \in [Requests -> Labels \cup {"none", "corrupt", "foreign"}]
  /\ lockFile \in [Requests -> {"free", "fresh", "stale"}]
  /\ call \in [Processes -> [Requests -> CallType]]
  /\ committed \in [Processes -> Int] /\ reserved \in [Processes -> Int]
  /\ failures \in [Processes -> Int] /\ billed \in [Processes -> Int]
  /\ phase \in [Processes -> Phases]
  /\ dir \in [Processes -> DirType]

(* A request that no lock went stale for and whose entry was never         *)
(* corrupt: whoever is past the lock holds it, alone, and finds in the     *)
(* cache what it goes on with.                                             *)
Holding == {"recheck", "reserve", "send", "store", "release"}

Asking == {"reserve", "send", "store"}

Unexposed(r, cached, lock, c) ==
  /\ cached # "corrupt" /\ lock # "stale"
  /\ c.step \notin {"unlink", "quarantine", "requarantine"}
  /\ c.step \in Holding => lock = "fresh"
  /\ c.step \in Asking => cached = "none"
  /\ c.step \in {"release", "done"} /\ c.result \in Labels => cached = c.result

LockInv ==
  /\ \A r \in Requests \ exposed :
       /\ \A p \in Processes : Unexposed(r, cacheFile[r], lockFile[r], call[p][r])
       /\ \A p, q \in Processes :
            call[p][r].step \in Holding /\ call[q][r].step \in Holding => p = q
  /\ \A p \in Processes, r \in Requests :
       call[p][r].step = "store" => call[p][r].result \in Labels

(* What is on its way or billed is covered by what is reserved or settled. *)
Sending(p) == {r \in Requests : call[p][r].step \in {"send", "store"}}

SpendInv ==
  provider = "openai" =>
    \A p \in Processes : billed[p] + Cardinality(Sending(p)) <= committed[p] + reserved[p]

(* A process calls only while it predicts, and publishes what is done.     *)
Idle == {"start", "planned", "refused", "failed", "crashed"}

PhaseInv ==
  \A p \in Processes :
    /\ phase[p] \in Idle => \A r \in Requests : call[p][r] = Queued
    /\ phase[p] \in Publishing \cup {"published"} =>
         \A r \in Requests : call[p][r].step = "done" /\ call[p][r].result # "FATAL"

(* A replay that was accepted finds every answer. *)
ReplayInv ==
  \A p \in Processes \cap replays :
    /\ phase[p] \notin {"start", "refused"} =>
         \A r \in Requests \ exposed : cacheFile[r] \in Labels
    /\ \A r \in Requests \ exposed :
         /\ call[p][r].step \in {"queued", "lookup", "done"}
         /\ call[p][r].step = "done" => call[p][r].result \in Labels

DirInv ==
  \A p \in Processes :
    /\ dir[p].name = "final" => phase[p] = "published"
    /\ dir[p].manifest = "COMPLETE" => dir[p].files = {"predictions", "metrics"}
    /\ phase[p] = "metrics" => dir[p].files = {"predictions"}
    /\ phase[p] \in {"manifest", "rename", "published"} =>
         dir[p].files = {"predictions", "metrics"}
    /\ phase[p] \in {"rename", "published"} => dir[p].manifest = "COMPLETE"
    /\ phase[p] \in {"predicting", "draining", "predictions", "metrics"} =>
         dir[p].manifest = "INCOMPLETE"
    /\ phase[p] = "predictions" => dir[p].files = {}
    /\ phase[p] \in {"predicting", "draining"} => dir[p].files = {}

BInv == TypeInv /\ LockInv /\ SpendInv /\ PhaseInv /\ ReplayInv /\ DirInv

-----------------------------------------------------------------------------

LEMMA QueuedType == Queued \in CallType /\ Queued.step = "queued" /\ Queued.result = "none"
BY DEF Queued, CallType, Steps

LEMMA NoDirectoryType == NoDirectory \in DirType
BY DEF NoDirectory, DirType

LEMMA NoneIsSending ==
  ASSUME NEW p \in Processes, \A r \in Requests : call[p][r].step \notin {"send", "store"}
  PROVE  Cardinality(Sending(p)) = 0
<1>1. Sending(p) = {}
  BY DEF Sending
<1> QED  BY <1>1, FS_EmptySet

LEMMA InitBaseline == Init => BInv
<1> SUFFICES ASSUME Init  PROVE BInv
  OBVIOUS
<1>1. \A p \in Processes, r \in Requests : call[p][r] = Queued
  BY DEF Init, CallsInit
<1>2. TypeInv
  BY QueuedType, NoDirectoryType DEF Init, CallsInit, TypeInv, Phases
<1>3. LockInv
  BY <1>1, QueuedType DEF Init, CallsInit, LockInv, Unexposed, Holding, Asking
<1>4. SpendInv
  <2>1. \A p \in Processes : Cardinality(Sending(p)) = 0
    BY <1>1, QueuedType, NoneIsSending
  <2> QED  BY <2>1 DEF Init, CallsInit, SpendInv
<1>5. PhaseInv
  BY <1>1 DEF Init, PhaseInv, Publishing
<1>6. ReplayInv
  BY <1>1, QueuedType DEF Init, ReplayInv
<1>7. DirInv
  BY DEF Init, DirInv, NoDirectory
<1> QED  BY <1>2, <1>3, <1>4, <1>5, <1>6, <1>7 DEF BInv

-----------------------------------------------------------------------------
(***************************************************************************)
(* One step of one call: it is at c afterwards.                            *)
(***************************************************************************)

OnItsWay(c) == IF c.step \in {"send", "store"} THEN 1 ELSE 0

(* What the step may do to the entry and the lock of its request. *)
KeepsLock(p, r, c) ==
  LET old == call[p][r]
  IN  /\ c.step = "store" => c.result \in Labels
      /\ r \notin exposed =>
           /\ Unexposed(r, cacheFile'[r], lockFile'[r], c)
           /\ c.step \in Holding => old.step \in Holding \/ lockFile[r] = "free"
           /\ lockFile'[r] # lockFile[r] => lockFile'[r] = "fresh" \/ old.step \in Holding
           /\ cacheFile'[r] # cacheFile[r] => old.step = "store"

(* What is billed and on its way grows by no more than what covers it. *)
KeepsCover(p, r, c) ==
  /\ billed' \in [Processes -> Int] /\ committed' \in [Processes -> Int]
  /\ reserved' \in [Processes -> Int] /\ failures' \in [Processes -> Int]
  /\ \A q \in Processes : q # p =>
       /\ billed'[q] = billed[q]
       /\ committed'[q] = committed[q] /\ reserved'[q] = reserved[q]
  /\ provider = "openai" =>
       billed'[p] + OnItsWay(c) + committed[p] + reserved[p]
         <= billed[p] + OnItsWay(call[p][r]) + committed'[p] + reserved'[p]

Effect(p, r, c) ==
  /\ c \in CallType
  /\ call' = [call EXCEPT ![p][r] = c]
  /\ cacheFile' \in [Requests -> Labels \cup {"none", "corrupt", "foreign"}]
  /\ lockFile' \in [Requests -> {"free", "fresh", "stale"}]
  /\ \A s \in Requests : s # r => cacheFile'[s] = cacheFile[s] /\ lockFile'[s] = lockFile[s]
  /\ KeepsLock(p, r, c)
  /\ KeepsCover(p, r, c)
  /\ p \in replays /\ r \notin exposed =>
       /\ c.step \in {"queued", "lookup", "done"}
       /\ c.step = "done" => c.result \in Labels
  /\ UNCHANGED <<provider, exposed, runVars>>

LEMMA Called ==
  ASSUME TypeInv, NEW p \in Processes, NEW r \in Requests, NEW c \in CallType,
         call' = [call EXCEPT ![p][r] = c]
  PROVE  /\ call' \in [Processes -> [Requests -> CallType]]
         /\ call'[p][r] = c
         /\ \A q \in Processes, s \in Requests : q # p \/ s # r => call'[q][s] = call[q][s]
BY DEF TypeInv

LEMMA Counted ==
  ASSUME TypeInv, NEW p \in Processes, NEW r \in Requests, NEW c \in CallType,
         call' = [call EXCEPT ![p][r] = c]
  PROVE  /\ \A q \in Processes : q # p => Sending(q)' = Sending(q)
         /\ Cardinality(Sending(p)) \in Nat /\ Cardinality(Sending(p)') \in Nat
         /\ Cardinality(Sending(p)') + OnItsWay(call[p][r])
              = Cardinality(Sending(p)) + OnItsWay(c)
<1>1. /\ call'[p][r] = c
      /\ \A q \in Processes, s \in Requests : q # p \/ s # r => call'[q][s] = call[q][s]
  BY DEF TypeInv
<1>2. \A q \in Processes : q # p => Sending(q)' = Sending(q)
  BY <1>1 DEF Sending
<1> DEFINE S == Sending(p)
           T == Sending(p)'
<1>3. IsFiniteSet(S) /\ IsFiniteSet(T)
  <2>1. IsFiniteSet(Requests) /\ S \in SUBSET Requests /\ T \in SUBSET Requests
    BY ProviderAssumption DEF Sending
  <2> QED  BY <2>1, FS_Subset
<1>4. Cardinality(S) \in Nat /\ Cardinality(T) \in Nat
  BY <1>3, FS_CardinalityType
<1>5. /\ T \cup {r} = S \cup {r}
      /\ r \in T <=> c.step \in {"send", "store"}
      /\ r \in S <=> call[p][r].step \in {"send", "store"}
  BY <1>1 DEF Sending
<1> HIDE DEF S, T
<1>6. /\ Cardinality(S \cup {r}) = IF r \in S THEN Cardinality(S) ELSE Cardinality(S) + 1
      /\ Cardinality(T \cup {r}) = IF r \in T THEN Cardinality(T) ELSE Cardinality(T) + 1
  BY <1>3, FS_AddElement
<1>7. Cardinality(T) + OnItsWay(call[p][r]) = Cardinality(S) + OnItsWay(c)
  <2>1. Cardinality(T \cup {r}) = Cardinality(S \cup {r})
    BY <1>5
  <2>2. OnItsWay(c) = (IF r \in T THEN 1 ELSE 0)
        /\ OnItsWay(call[p][r]) = (IF r \in S THEN 1 ELSE 0)
    BY <1>5 DEF OnItsWay
  <2> QED  BY <1>4, <1>6, <2>1, <2>2
<1> QED  BY <1>2, <1>4, <1>7 DEF S, T

LEMMA EffectKeepsLock ==
  ASSUME TypeInv, LockInv, NEW p \in Processes, NEW r \in Requests,
         NEW c \in CallType, Effect(p, r, c)
  PROVE  LockInv'
<1>1. /\ call'[p][r] = c
      /\ \A q \in Processes, s \in Requests : q # p \/ s # r => call'[q][s] = call[q][s]
      /\ exposed' = exposed
      /\ \A s \in Requests :
           s # r => cacheFile'[s] = cacheFile[s] /\ lockFile'[s] = lockFile[s]
      /\ KeepsLock(p, r, c)
  <2>1. call' = [call EXCEPT ![p][r] = c]
    BY DEF Effect
  <2>2. /\ call'[p][r] = c
        /\ \A q \in Processes, s \in Requests : q # p \/ s # r => call'[q][s] = call[q][s]
    BY <2>1 DEF TypeInv
  <2> QED  BY <2>2 DEF Effect
<1>2. \A q \in Processes, s \in Requests :
        call'[q][s].step = "store" => call'[q][s].result \in Labels
  BY <1>1 DEF LockInv, KeepsLock
<1>3. ASSUME NEW s \in Requests \ exposed, s # r
      PROVE  /\ \A q \in Processes : Unexposed(s, cacheFile'[s], lockFile'[s], call'[q][s])
             /\ \A q, o \in Processes :
                  call'[q][s].step \in Holding /\ call'[o][s].step \in Holding => q = o
  BY <1>1, <1>3 DEF LockInv
<1>4. ASSUME r \notin exposed
      PROVE  /\ \A q \in Processes : Unexposed(r, cacheFile'[r], lockFile'[r], call'[q][r])
             /\ \A q, o \in Processes :
                  call'[q][r].step \in Holding /\ call'[o][r].step \in Holding => q = o
  <2>1. /\ Unexposed(r, cacheFile'[r], lockFile'[r], c)
        /\ c.step \in Holding => call[p][r].step \in Holding \/ lockFile[r] = "free"
        /\ lockFile'[r] # lockFile[r] =>
             lockFile'[r] = "fresh" \/ call[p][r].step \in Holding
        /\ cacheFile'[r] # cacheFile[r] => call[p][r].step = "store"
    BY <1>1, <1>4 DEF KeepsLock
  <2>2. /\ \A q \in Processes : Unexposed(r, cacheFile[r], lockFile[r], call[q][r])
        /\ \A q, o \in Processes :
             call[q][r].step \in Holding /\ call[o][r].step \in Holding => q = o
    BY <1>4 DEF LockInv
  <2>3. ASSUME NEW q \in Processes, q # p
        PROVE  /\ Unexposed(r, cacheFile'[r], lockFile'[r], call'[q][r])
               /\ ~(c.step \in Holding /\ call'[q][r].step \in Holding)
    <3>1. call'[q][r] = call[q][r] /\ Unexposed(r, cacheFile[r], lockFile[r], call[q][r])
      BY <1>1, <2>2, <2>3
    <3>2. call[q][r].step \in Holding => call[p][r].step \notin Holding
      BY <2>2, <2>3
    <3>3. cacheFile'[r] # "corrupt" /\ lockFile'[r] # "stale"
      BY <2>1 DEF Unexposed
    <3>4. call[q][r].step \in Holding => lockFile'[r] = "fresh"
      BY <2>1, <3>1, <3>2 DEF Unexposed
    <3>5. cacheFile'[r] # cacheFile[r] =>
            /\ call[q][r].step \notin Asking /\ cacheFile[r] = "none"
      <4>1. call[p][r].step = "store" =>
              call[p][r].step \in Holding /\ call[p][r].step \in Asking
        BY DEF Holding, Asking
      <4>2. call[q][r].step \in Asking => call[q][r].step \in Holding
        BY DEF Holding, Asking
      <4> QED  BY <2>1, <2>2, <3>2, <4>1, <4>2 DEF Unexposed
    <3>6. call[q][r].step \in Asking => cacheFile'[r] = "none"
      BY <3>1, <3>5 DEF Unexposed
    <3>7. call[q][r].step \in {"release", "done"} /\ call[q][r].result \in Labels
            => cacheFile'[r] = call[q][r].result
      BY <3>1, <3>5, ProviderAssumption DEF Unexposed
    <3>8. Unexposed(r, cacheFile'[r], lockFile'[r], call[q][r])
      BY <3>1, <3>3, <3>4, <3>6, <3>7 DEF Unexposed
    <3>9. ~(c.step \in Holding /\ call[q][r].step \in Holding)
      BY <2>1, <3>1, <3>2 DEF Unexposed
    <3> QED  BY <3>1, <3>8, <3>9
  <2>4. ASSUME NEW q \in Processes
        PROVE  Unexposed(r, cacheFile'[r], lockFile'[r], call'[q][r])
    <3>1. CASE q = p
      BY <1>1, <2>1, <3>1
    <3>2. CASE q # p
      BY <2>3, <3>2
    <3> QED  BY <3>1, <3>2
  <2>5. ASSUME NEW q \in Processes, NEW o \in Processes,
               call'[q][r].step \in Holding, call'[o][r].step \in Holding
        PROVE  q = o
    <3>1. CASE q = p /\ o # p
      BY <1>1, <2>3, <2>5, <3>1
    <3>2. CASE q # p /\ o = p
      BY <1>1, <2>3, <2>5, <3>2
    <3>3. CASE q # p /\ o # p
      BY <1>1, <2>2, <2>5, <3>3
    <3> QED  BY <3>1, <3>2, <3>3
  <2> QED  BY <2>4, <2>5
<1> QED  BY <1>1, <1>2, <1>3, <1>4 DEF LockInv

LEMMA EffectKeepsAll ==
  ASSUME BInv, NEW p \in Processes, phase[p] \in {"predicting", "draining"},
         NEW r \in Requests, NEW c, Effect(p, r, c)
  PROVE  BInv'
<1>1. /\ c \in CallType /\ TypeInv /\ LockInv
      /\ call' = [call EXCEPT ![p][r] = c]
      /\ UNCHANGED <<provider, exposed, replays, phase, dir>>
  BY DEF Effect, BInv, runVars
<1>2. /\ call' \in [Processes -> [Requests -> CallType]]
      /\ call'[p][r] = c
      /\ \A q \in Processes, s \in Requests : q # p \/ s # r => call'[q][s] = call[q][s]
  BY <1>1 DEF TypeInv
<1>3. LockInv'
  BY <1>1, EffectKeepsLock
<1>4. TypeInv'
  BY <1>1, <1>2 DEF TypeInv, Effect, KeepsCover
<1>5. SpendInv'
  <2> SUFFICES ASSUME provider = "openai", NEW q \in Processes
               PROVE  billed'[q] + Cardinality(Sending(q)') <= committed'[q] + reserved'[q]
    BY <1>1 DEF SpendInv
  <2>1. billed[q] + Cardinality(Sending(q)) <= committed[q] + reserved[q]
    BY DEF BInv, SpendInv
  <2>2. KeepsCover(p, r, c)
    BY DEF Effect
  <2>3. CASE q # p
    <3>1. Sending(q)' = Sending(q)
      BY <1>1, <2>3, Counted
    <3> QED  BY <2>1, <2>2, <2>3, <3>1 DEF KeepsCover
  <2>4. CASE q = p
    <3>1. /\ Cardinality(Sending(p)) \in Nat /\ Cardinality(Sending(p)') \in Nat
          /\ Cardinality(Sending(p)') + OnItsWay(call[p][r])
               = Cardinality(Sending(p)) + OnItsWay(c)
      BY <1>1, Counted
    <3>2. /\ billed[p] \in Int /\ committed[p] \in Int /\ reserved[p] \in Int
          /\ billed'[p] \in Int /\ committed'[p] \in Int /\ reserved'[p] \in Int
          /\ OnItsWay(c) \in Int /\ OnItsWay(call[p][r]) \in Int
      BY <1>1, <1>4 DEF TypeInv, OnItsWay
    <3>3. billed'[p] + OnItsWay(c) + committed[p] + reserved[p]
            <= billed[p] + OnItsWay(call[p][r]) + committed'[p] + reserved'[p]
      BY <2>2 DEF KeepsCover
    <3> QED  BY <2>1, <2>4, <3>1, <3>2, <3>3
  <2> QED  BY <2>3, <2>4
<1>6. PhaseInv'
  BY <1>1, <1>2 DEF BInv, PhaseInv, Idle, Publishing
<1>7. ReplayInv'
  <2>1. \A s \in Requests \ exposed : cacheFile[s] \in Labels => cacheFile'[s] \in Labels
    <3> SUFFICES ASSUME NEW s \in Requests \ exposed, cacheFile[s] \in Labels
                 PROVE  cacheFile'[s] = cacheFile[s]
      OBVIOUS
    <3>1. CASE s # r
      BY <3>1 DEF Effect
    <3>2. CASE s = r
      <4>1. cacheFile'[r] # cacheFile[r] => call[p][r].step = "store"
        BY <3>2 DEF Effect, KeepsLock
      <4>2. call[p][r].step = "store" => cacheFile[r] = "none"
        BY <1>1, <3>2 DEF LockInv, Unexposed, Asking
      <4> QED  BY <3>2, <4>1, <4>2, ProviderAssumption
    <3> QED  BY <3>1, <3>2
  <2>2. p \in replays /\ r \notin exposed =>
          /\ c.step \in {"queued", "lookup", "done"}
          /\ c.step = "done" => c.result \in Labels
    BY DEF Effect
  <2>3. \A q \in Processes \cap replays : \A s \in Requests \ exposed :
          /\ call'[q][s].step \in {"queued", "lookup", "done"}
          /\ call'[q][s].step = "done" => call'[q][s].result \in Labels
    BY <1>2, <2>2 DEF BInv, ReplayInv
  <2> QED  BY <1>1, <2>1, <2>3 DEF BInv, ReplayInv
<1>8. DirInv'
  BY <1>1 DEF BInv, DirInv
<1> QED  BY <1>3, <1>4, <1>5, <1>6, <1>7, <1>8 DEF BInv

-----------------------------------------------------------------------------
(***************************************************************************)
(* The steps of complete().                                                *)
(***************************************************************************)

Gone(p, r, step) ==
  [step |-> step, tries |-> call[p][r].tries, result |-> call[p][r].result]

Finished(step, result) == [step |-> step, tries |-> 0, result |-> result]

LEMMA GoIs ==
  ASSUME TypeInv, NEW p \in Processes, NEW r \in Requests, NEW step \in Steps, Go(p, r, step)
  PROVE  /\ Gone(p, r, step) \in CallType
         /\ call' = [call EXCEPT ![p][r] = Gone(p, r, step)]
<1>1. call[p][r] \in CallType
  BY DEF TypeInv
<1>2. [call[p][r] EXCEPT !.step = step] = Gone(p, r, step)
  BY <1>1 DEF CallType, Gone
<1>3. call' = [call EXCEPT ![p][r] = Gone(p, r, step)]
  BY <1>2 DEF Go
<1> QED  BY <1>1, <1>3 DEF Gone, CallType

LEMMA FinishIs ==
  ASSUME NEW p \in Processes, NEW r \in Requests, NEW step \in Steps,
         NEW result \in Results, Finish(p, r, step, result)
  PROVE  /\ Finished(step, result) \in CallType
         /\ call' = [call EXCEPT ![p][r] = Finished(step, result)]
BY DEF Finish, Finished, CallType

(* A step that leaves the cache, the lock and the budget alone. *)
LEMMA Quiet ==
  ASSUME BInv, NEW p \in Processes, phase[p] \in {"predicting", "draining"},
         NEW r \in Requests, NEW c \in CallType, call' = [call EXCEPT ![p][r] = c],
         UNCHANGED <<provider, sharedVars, budgetVars, runVars>>,
         OnItsWay(c) = 0, c.step # "store",
         r \notin exposed =>
           /\ Unexposed(r, cacheFile[r], lockFile[r], c)
           /\ c.step \in Holding => call[p][r].step \in Holding \/ lockFile[r] = "free",
         p \in replays /\ r \notin exposed =>
           /\ c.step \in {"queued", "lookup", "done"}
           /\ c.step = "done" => c.result \in Labels
  PROVE  BInv'
<1>1. TypeInv /\ OnItsWay(call[p][r]) \in {0, 1}
  BY DEF BInv, OnItsWay
<1>2. UNCHANGED <<cacheFile, lockFile, exposed, committed, reserved, failures, billed>>
  BY DEF sharedVars, budgetVars
<1>3. KeepsLock(p, r, c)
  BY <1>2 DEF KeepsLock
<1>4. KeepsCover(p, r, c)
  BY <1>1, <1>2 DEF KeepsCover, TypeInv
<1>5. Effect(p, r, c)
  BY <1>1, <1>2, <1>3, <1>4 DEF Effect, TypeInv
<1> QED  BY <1>5, EffectKeepsAll

(* What is known of a call, and of its entry and lock, before its step. *)
Before(p, r) ==
  /\ TypeInv /\ call[p][r] \in CallType
  /\ r \notin exposed => Unexposed(r, cacheFile[r], lockFile[r], call[p][r])
  /\ p \in replays /\ r \notin exposed =>
       /\ cacheFile[r] \in Labels
       /\ call[p][r].step \in {"queued", "lookup", "done"}

LEMMA BeforeStep ==
  ASSUME BInv, NEW p \in Processes, phase[p] \in {"predicting", "draining"},
         NEW r \in Requests
  PROVE  Before(p, r)
BY DEF BInv, Before, LockInv, ReplayInv, TypeInv

LEMMA FirstReadKeeps ==
  ASSUME BInv, NEW p \in Processes, phase[p] \in {"predicting", "draining"},
         NEW r \in Requests, UNCHANGED runVars,
         FirstRead(p, r, p \in replays) \/ LockTimesOut(p, r)
  PROVE  BInv'
<1>1. Before(p, r)
  BY BeforeStep
<1>2. UNCHANGED <<provider, sharedVars, budgetVars>>
  BY DEF FirstRead, Read, LockTimesOut
<1>3. CASE Finish(p, r, "done", "ERROR") /\ (p \in replays => r \in exposed)
  <2>1. "done" \in Steps /\ "ERROR" \in Results
    BY DEF Steps, Results
  <2>2. /\ Finished("done", "ERROR") \in CallType
        /\ call' = [call EXCEPT ![p][r] = Finished("done", "ERROR")]
    BY <1>3, <2>1, FinishIs
  <2> QED  BY <1>1, <1>2, <1>3, <2>2, Quiet, ProviderAssumption
           DEF Finished, OnItsWay, Before, Unexposed, Holding, Asking
<1>4. CASE cacheFile[r] \in Labels /\ Finish(p, r, "done", cacheFile[r])
  <2>1. "done" \in Steps /\ cacheFile[r] \in Results
    BY <1>4 DEF Steps, Results
  <2>2. /\ Finished("done", cacheFile[r]) \in CallType
        /\ call' = [call EXCEPT ![p][r] = Finished("done", cacheFile[r])]
    BY <1>4, <2>1, FinishIs
  <2> QED  BY <1>1, <1>2, <1>4, <2>2, Quiet
           DEF Finished, OnItsWay, Before, Unexposed, Holding, Asking
<1>5. ASSUME NEW step \in {"quarantine", "lock"}, Go(p, r, step),
             step = "quarantine" => cacheFile[r] = "corrupt",
             p \in replays => r \in exposed
      PROVE  BInv'
  <2>1. step \in Steps
    BY DEF Steps
  <2>2. /\ Gone(p, r, step) \in CallType
        /\ call' = [call EXCEPT ![p][r] = Gone(p, r, step)]
    BY <1>1, <1>5, <2>1, GoIs DEF Before
  <2> QED  BY <1>1, <1>2, <1>5, <2>2, Quiet
           DEF Gone, OnItsWay, Before, Unexposed, Holding, Asking
<1>6. CASE LockTimesOut(p, r)
  BY <1>1, <1>3, <1>6 DEF LockTimesOut, Before, At
<1>7. CASE FirstRead(p, r, p \in replays)
  <2>1. CASE cacheFile[r] = "none" /\ Missed(p, r, p \in replays)
    <3>1. p \in replays => r \in exposed
      BY <1>1, <2>1, ProviderAssumption DEF Before
    <3> QED  BY <1>3, <1>5, <2>1, <3>1 DEF Missed
  <2>2. CASE cacheFile[r] = "corrupt" /\ Go(p, r, "quarantine")
    <3>1. r \in exposed
      BY <1>1, <2>2 DEF Before, Unexposed
    <3> QED  BY <1>5, <2>2, <3>1
  <2>3. CASE cacheFile[r] = "foreign" /\ Finish(p, r, "done", "ERROR")
    <3>1. p \in replays => r \in exposed
      BY <1>1, <2>3, ProviderAssumption DEF Before
    <3> QED  BY <1>3, <2>3, <3>1
  <2> QED  BY <1>4, <1>7, <2>1, <2>2, <2>3 DEF FirstRead, Read
<1> QED  BY <1>6, <1>7

(* A step that may change the entry or the lock, but not the budget.       *)
LEMMA Unpaid ==
  ASSUME BInv, NEW p \in Processes, phase[p] \in {"predicting", "draining"},
         NEW r \in Requests, NEW c \in CallType, call' = [call EXCEPT ![p][r] = c],
         UNCHANGED <<provider, exposed, budgetVars, runVars>>,
         OnItsWay(c) = 0, c.step # "store",
         \E file \in Labels \cup {"none", "corrupt", "foreign"} :
           cacheFile' = [cacheFile EXCEPT ![r] = file],
         \E lock \in {"free", "fresh", "stale"} : lockFile' = [lockFile EXCEPT ![r] = lock],
         KeepsLock(p, r, c),
         p \in replays => r \in exposed
  PROVE  BInv'
<1>1. TypeInv /\ OnItsWay(call[p][r]) \in {0, 1}
  BY DEF BInv, OnItsWay
<1>2. UNCHANGED <<committed, reserved, failures, billed>>
  BY DEF budgetVars
<1>3. KeepsCover(p, r, c)
  BY <1>1, <1>2 DEF KeepsCover, TypeInv
<1>4. /\ cacheFile' \in [Requests -> Labels \cup {"none", "corrupt", "foreign"}]
      /\ lockFile' \in [Requests -> {"free", "fresh", "stale"}]
      /\ \A s \in Requests :
           s # r => cacheFile'[s] = cacheFile[s] /\ lockFile'[s] = lockFile[s]
  BY <1>1 DEF TypeInv
<1>5. Effect(p, r, c)
  BY <1>3, <1>4 DEF Effect
<1> QED  BY <1>5, EffectKeepsAll

LEMMA QuarantineKeeps ==
  ASSUME BInv, NEW p \in Processes, phase[p] \in {"predicting", "draining"},
         NEW r \in Requests, UNCHANGED runVars,
         FirstQuarantine(p, r, p \in replays) \/ SecondQuarantine(p, r)
  PROVE  BInv'
<1>1. Before(p, r)
  BY BeforeStep
<1>2. /\ cacheFile' = [cacheFile EXCEPT ![r] = "none"]
      /\ UNCHANGED <<provider, lockFile, exposed, budgetVars>>
      /\ call[p][r].step \in {"quarantine", "requarantine"}
  BY DEF FirstQuarantine, SecondQuarantine, Quarantine, At
<1>3. r \in exposed
  BY <1>1, <1>2 DEF Before, Unexposed
<1>4. /\ lockFile[r] \in {"free", "fresh", "stale"}
      /\ lockFile' = [lockFile EXCEPT ![r] = lockFile[r]]
  BY <1>1, <1>2 DEF Before, TypeInv
<1>5. ASSUME NEW c \in CallType, call' = [call EXCEPT ![p][r] = c],
             OnItsWay(c) = 0, c.step # "store"
      PROVE  BInv'
  <2>1. KeepsLock(p, r, c)
    BY <1>3, <1>5 DEF KeepsLock
  <2> QED  BY <1>2, <1>3, <1>4, <1>5, <2>1, Unpaid
<1>6. CASE Finish(p, r, "done", "ERROR")
  <2>1. "done" \in Steps /\ "ERROR" \in Results
    BY DEF Steps, Results
  <2>2. /\ Finished("done", "ERROR") \in CallType
        /\ call' = [call EXCEPT ![p][r] = Finished("done", "ERROR")]
    BY <1>6, <2>1, FinishIs
  <2>3. /\ OnItsWay(Finished("done", "ERROR")) = 0
        /\ Finished("done", "ERROR").step # "store"
    BY DEF Finished, OnItsWay
  <2> QED  BY <1>5, <2>2, <2>3
<1>7. ASSUME NEW step \in {"lock", "reserve"}, Go(p, r, step)
      PROVE  BInv'
  <2>1. step \in Steps
    BY DEF Steps
  <2>2. /\ Gone(p, r, step) \in CallType
        /\ call' = [call EXCEPT ![p][r] = Gone(p, r, step)]
    BY <1>1, <1>7, <2>1, GoIs DEF Before
  <2>3. OnItsWay(Gone(p, r, step)) = 0 /\ Gone(p, r, step).step # "store"
    BY DEF Gone, OnItsWay
  <2> QED  BY <1>5, <2>2, <2>3
<1> QED  BY <1>6, <1>7 DEF FirstQuarantine, SecondQuarantine, Quarantine, Missed

LEMMA LockKeeps ==
  ASSUME BInv, NEW p \in Processes, phase[p] \in {"predicting", "draining"},
         NEW r \in Requests, UNCHANGED runVars,
         Lock(p, r) \/ UnlinkStale(p, r) \/ Release(p, r)
  PROVE  BInv'
<1>1. Before(p, r)
  BY BeforeStep
<1>2. /\ UNCHANGED <<provider, exposed, budgetVars>>
      /\ \E file \in Labels \cup {"none", "corrupt", "foreign"} :
           cacheFile' = [cacheFile EXCEPT ![r] = file]
  <2>1. UNCHANGED <<provider, exposed, budgetVars, cacheFile>>
    BY DEF Lock, UnlinkStale, Release
  <2>2. /\ cacheFile[r] \in Labels \cup {"none", "corrupt", "foreign"}
        /\ cacheFile' = [cacheFile EXCEPT ![r] = cacheFile[r]]
    BY <1>1, <2>1 DEF Before, TypeInv
  <2> QED  BY <2>1, <2>2
<1>3. cacheFile' = cacheFile /\ call[p][r].step \in {"lock", "unlink", "release"}
  BY DEF Lock, UnlinkStale, Release, At
<1>4. p \in replays => r \in exposed
  BY <1>1, <1>3 DEF Before
<1>5. ASSUME NEW step \in {"recheck", "unlink", "lock", "done"}, Go(p, r, step)
      PROVE  /\ Gone(p, r, step) \in CallType
             /\ call' = [call EXCEPT ![p][r] = Gone(p, r, step)]
             /\ OnItsWay(Gone(p, r, step)) = 0 /\ Gone(p, r, step).step = step
             /\ Gone(p, r, step).result = call[p][r].result
  <2>1. step \in Steps
    BY DEF Steps
  <2> QED  BY <1>1, <1>5, <2>1, GoIs DEF Before, Gone, OnItsWay
<1>6. CASE Lock(p, r) /\ lockFile[r] = "free"
  <2>1. Go(p, r, "recheck") /\ lockFile' = [lockFile EXCEPT ![r] = "fresh"]
    BY <1>6 DEF Lock, SetLock
  <2>2. lockFile'[r] = "fresh"
    BY <1>1, <2>1 DEF Before, TypeInv
  <2>3. KeepsLock(p, r, Gone(p, r, "recheck"))
    BY <1>1, <1>3, <1>5, <1>6, <2>1, <2>2 DEF KeepsLock, Before, Unexposed, Holding, Asking
  <2> QED  BY <1>2, <1>4, <1>5, <2>1, <2>3, Unpaid
<1>7. CASE Lock(p, r) /\ lockFile[r] = "stale"
  <2>1. Go(p, r, "unlink") /\ lockFile' = lockFile
    BY <1>7 DEF Lock
  <2>2. lockFile' = [lockFile EXCEPT ![r] = "stale"]
    BY <1>1, <1>7, <2>1 DEF Before, TypeInv
  <2>3. r \in exposed
    BY <1>1, <1>7 DEF Before, Unexposed
  <2>4. KeepsLock(p, r, Gone(p, r, "unlink"))
    BY <1>5, <2>1, <2>3 DEF KeepsLock
  <2> QED  BY <1>2, <1>4, <1>5, <2>1, <2>2, <2>4, Unpaid
<1>8. CASE UnlinkStale(p, r)
  <2>1. Go(p, r, "lock") /\ lockFile' = [lockFile EXCEPT ![r] = "free"]
    BY <1>8 DEF UnlinkStale, SetLock
  <2>2. r \in exposed
    BY <1>1, <1>8 DEF Before, Unexposed, UnlinkStale, At
  <2>3. KeepsLock(p, r, Gone(p, r, "lock"))
    BY <1>5, <2>1, <2>2 DEF KeepsLock
  <2> QED  BY <1>2, <1>4, <1>5, <2>1, <2>3, Unpaid
<1>9. CASE Release(p, r)
  <2>1. Go(p, r, "done") /\ lockFile' = [lockFile EXCEPT ![r] = "free"]
        /\ call[p][r].step = "release"
    BY <1>9 DEF Release, SetLock, At
  <2>2. lockFile'[r] = "free"
    BY <1>1, <2>1 DEF Before, TypeInv
  <2>3. KeepsLock(p, r, Gone(p, r, "done"))
    BY <1>1, <1>3, <1>5, <2>1, <2>2 DEF KeepsLock, Before, Unexposed, Holding, Asking
  <2> QED  BY <1>2, <1>4, <1>5, <2>1, <2>3, Unpaid
<1> QED  BY <1>6, <1>7, <1>8, <1>9 DEF Lock

LEMMA SecondReadKeeps ==
  ASSUME BInv, NEW p \in Processes, phase[p] \in {"predicting", "draining"},
         NEW r \in Requests, UNCHANGED runVars, SecondRead(p, r)
  PROVE  BInv'
<1>1. Before(p, r)
  BY BeforeStep
<1>2. UNCHANGED <<provider, sharedVars, budgetVars>> /\ call[p][r].step = "recheck"
  BY DEF SecondRead, Read, At
<1>3. p \in replays => r \in exposed
  BY <1>1, <1>2 DEF Before
<1>4. CASE cacheFile[r] = "none" /\ Go(p, r, "reserve")
  <2>1. "reserve" \in Steps
    BY DEF Steps
  <2>2. /\ Gone(p, r, "reserve") \in CallType
        /\ call' = [call EXCEPT ![p][r] = Gone(p, r, "reserve")]
    BY <1>1, <1>4, <2>1, GoIs DEF Before
  <2> QED  BY <1>1, <1>2, <1>3, <1>4, <2>2, Quiet
           DEF Gone, OnItsWay, Before, Unexposed, Holding, Asking
<1>5. CASE cacheFile[r] = "corrupt" /\ Go(p, r, "requarantine")
  <2>1. "requarantine" \in Steps
    BY DEF Steps
  <2>2. /\ Gone(p, r, "requarantine") \in CallType
        /\ call' = [call EXCEPT ![p][r] = Gone(p, r, "requarantine")]
    BY <1>1, <1>5, <2>1, GoIs DEF Before
  <2>3. r \in exposed
    BY <1>1, <1>5 DEF Before, Unexposed
  <2> QED  BY <1>2, <1>3, <2>2, <2>3, Quiet DEF Gone, OnItsWay
<1>6. ASSUME NEW result \in Results, Finish(p, r, "release", result),
             result \in Labels => cacheFile[r] = result
      PROVE  BInv'
  <2>1. "release" \in Steps
    BY DEF Steps
  <2>2. /\ Finished("release", result) \in CallType
        /\ call' = [call EXCEPT ![p][r] = Finished("release", result)]
    BY <1>6, <2>1, FinishIs
  <2> QED  BY <1>1, <1>2, <1>3, <1>6, <2>2, Quiet
           DEF Finished, OnItsWay, Before, Unexposed, Holding, Asking
<1>7. CASE cacheFile[r] = "foreign" /\ Finish(p, r, "release", "ERROR")
  BY <1>6, <1>7, ProviderAssumption DEF Results
<1>8. CASE cacheFile[r] \in Labels /\ Finish(p, r, "release", cacheFile[r])
  BY <1>6, <1>8 DEF Results
<1> QED  BY <1>4, <1>5, <1>7, <1>8 DEF SecondRead, Read

(* A step under the lock that leaves the lock alone. *)
LEMMA HolderKeeps ==
  ASSUME BInv, NEW p \in Processes, phase[p] \in {"predicting", "draining"},
         NEW r \in Requests, NEW c \in CallType, call' = [call EXCEPT ![p][r] = c],
         UNCHANGED <<provider, lockFile, exposed, runVars>>,
         call[p][r].step \in Asking, c.step \in Holding,
         \/ cacheFile' = cacheFile
         \/ /\ call[p][r].step = "store" /\ c.step = "release"
            /\ cacheFile' = [cacheFile EXCEPT ![r] = call[p][r].result],
         c.step \in Asking => cacheFile' = cacheFile,
         c.step \in {"release", "done"} /\ c.result \in Labels =>
           r \in exposed \/ cacheFile'[r] = c.result,
         c.step = "store" => c.result \in Labels,
         c.step # "recheck",
         KeepsCover(p, r, c)
  PROVE  BInv'
<1>1. /\ TypeInv /\ call[p][r] \in CallType
      /\ r \notin exposed => Unexposed(r, cacheFile[r], lockFile[r], call[p][r])
      /\ call[p][r].step = "store" => call[p][r].result \in Labels
  BY DEF BInv, TypeInv, LockInv
<1>2. p \in replays => r \in exposed
  BY BeforeStep DEF Before, Asking
<1>3. /\ cacheFile' \in [Requests -> Labels \cup {"none", "corrupt", "foreign"}]
      /\ \A s \in Requests : s # r => cacheFile'[s] = cacheFile[s]
      /\ cacheFile'[r] # cacheFile[r] => call[p][r].step = "store"
      /\ cacheFile' # cacheFile => cacheFile'[r] = call[p][r].result
  BY <1>1 DEF TypeInv
<1>4. /\ lockFile' \in [Requests -> {"free", "fresh", "stale"}]
      /\ \A s \in Requests : lockFile'[s] = lockFile[s]
  BY <1>1 DEF TypeInv
<1>5. c.step \notin {"unlink", "quarantine", "requarantine"}
      /\ call[p][r].step \in Holding
  BY DEF Holding, Asking
<1>6. r \notin exposed => Unexposed(r, cacheFile'[r], lockFile'[r], c)
  <2> SUFFICES ASSUME r \notin exposed
               PROVE  Unexposed(r, cacheFile'[r], lockFile'[r], c)
    OBVIOUS
  <2>1. lockFile'[r] = "fresh"
    BY <1>1, <1>4, <1>5 DEF Unexposed
  <2>2. cacheFile'[r] # "corrupt"
    <3>1. CASE cacheFile' = cacheFile
      BY <1>1, <3>1 DEF Unexposed
    <3>2. CASE cacheFile' # cacheFile
      BY <1>1, <1>3, <3>2, ProviderAssumption
    <3> QED  BY <3>1, <3>2
  <2>3. c.step \in Asking => cacheFile'[r] = "none"
    BY <1>1 DEF Unexposed
  <2> QED  BY <1>5, <2>1, <2>2, <2>3 DEF Unexposed
<1>7. KeepsLock(p, r, c)
  BY <1>3, <1>4, <1>5, <1>6 DEF KeepsLock
<1>8. Effect(p, r, c)
  BY <1>2, <1>3, <1>4, <1>7 DEF Effect
<1> QED  BY <1>8, EffectKeepsAll

LEMMA ReserveKeeps ==
  ASSUME BInv, NEW p \in Processes, phase[p] \in {"predicting", "draining"},
         NEW r \in Requests, UNCHANGED runVars, Reserve(p, r)
  PROVE  BInv'
<1>1. /\ TypeInv /\ call[p][r] \in CallType /\ call[p][r].step = "reserve"
      /\ UNCHANGED <<provider, lockFile, cacheFile, exposed, committed, failures, billed>>
      /\ call[p][r].step \in Asking /\ OnItsWay(call[p][r]) = 0
  BY DEF BInv, TypeInv, Reserve, At, sharedVars, Asking, OnItsWay
<1>2. /\ reserved' \in [Processes -> Int]
      /\ \A q \in Processes : q # p => reserved'[q] = reserved[q]
      /\ reserved'[p] >= reserved[p]
  BY <1>1 DEF Reserve, TypeInv
<1>3. CASE Finish(p, r, "release", "FATAL")
  <2>1. "release" \in Steps /\ "FATAL" \in Results
    BY DEF Steps, Results
  <2> DEFINE c == Finished("release", "FATAL")
  <2>2. c \in CallType /\ call' = [call EXCEPT ![p][r] = c]
    BY <1>3, <2>1, FinishIs
  <2>3. c.step = "release" /\ c.result \notin Labels /\ OnItsWay(c) = 0
    BY ProviderAssumption DEF Finished, OnItsWay
  <2>4. KeepsCover(p, r, c)
    BY <1>1, <1>2, <2>3 DEF KeepsCover, TypeInv
  <2>5. c.step \in Holding /\ c.step \notin Asking
    BY <2>3 DEF Holding, Asking
  <2> QED  BY <1>1, <2>2, <2>3, <2>4, <2>5, HolderKeeps
<1>4. CASE /\ reserved' = [reserved EXCEPT ![p] = @ + IF provider = "openai" THEN 1 ELSE 0]
           /\ Go(p, r, "send")
  <2>1. "send" \in Steps
    BY DEF Steps
  <2> DEFINE c == Gone(p, r, "send")
  <2>2. c \in CallType /\ call' = [call EXCEPT ![p][r] = c]
    BY <1>1, <1>4, <2>1, GoIs
  <2>3. c.step = "send" /\ OnItsWay(c) = 1
    BY DEF Gone, OnItsWay
  <2>4. KeepsCover(p, r, c)
    BY <1>1, <1>2, <1>4, <2>3 DEF KeepsCover, TypeInv
  <2>5. c.step \in Holding
    BY <2>3 DEF Holding
  <2> QED  BY <1>1, <2>2, <2>3, <2>4, <2>5, HolderKeeps
<1> QED  BY <1>3, <1>4 DEF Reserve

LEMMA AttemptKeeps ==
  ASSUME BInv, NEW p \in Processes, phase[p] \in {"predicting", "draining"},
         NEW r \in Requests, UNCHANGED runVars, Attempt(p, r)
  PROVE  BInv'
<1>1. /\ TypeInv /\ call[p][r] \in CallType /\ call[p][r].step = "send"
      /\ UNCHANGED <<provider, lockFile, cacheFile, exposed, committed, reserved>>
      /\ call[p][r].step \in Asking /\ OnItsWay(call[p][r]) = 1
  BY DEF BInv, TypeInv, Attempt, At, sharedVars, Asking, OnItsWay
<1>2. ASSUME NEW result \in {"ERROR", "FATAL"}, Finish(p, r, "release", result), Bill(p, 1),
             failures' \in [Processes -> Int]
      PROVE  BInv'
  <2>1. "release" \in Steps /\ result \in Results
    BY DEF Steps, Results
  <2> DEFINE c == Finished("release", result)
  <2>2. c \in CallType /\ call' = [call EXCEPT ![p][r] = c]
    BY <1>2, <2>1, FinishIs
  <2>3. c.step = "release" /\ c.result \notin Labels /\ OnItsWay(c) = 0
    BY ProviderAssumption DEF Finished, OnItsWay
  <2>4. KeepsCover(p, r, c)
    BY <1>1, <1>2, <2>3 DEF KeepsCover, TypeInv, Bill
  <2>5. c.step \in Holding /\ c.step \notin Asking
    BY <2>3 DEF Holding, Asking
  <2> QED  BY <1>1, <2>2, <2>3, <2>4, <2>5, HolderKeeps
<1>3. ASSUME NEW f \in Failures, Fails(p, r, f)  PROVE BInv'
  <2>1. CASE /\ call' = [call EXCEPT ![p][r].tries = @ + 1]
             /\ UNCHANGED <<failures, billed>>
    <3> DEFINE c == [call[p][r] EXCEPT !.tries = @ + 1]
    <3>1. /\ c \in CallType /\ c.step = "send" /\ OnItsWay(c) = 1
          /\ call' = [call EXCEPT ![p][r] = c]
      BY <1>1, <2>1 DEF CallType, OnItsWay
    <3> HIDE DEF c
    <3>2. KeepsCover(p, r, c)
      BY <1>1, <2>1, <3>1 DEF KeepsCover, TypeInv
    <3>3. c.step \in Holding
      BY <3>1 DEF Holding
    <3> QED  BY <1>1, <3>1, <3>2, <3>3, HolderKeeps
  <2>2. CASE /\ failures' = [failures EXCEPT ![p] = @ + 1]
             /\ Bill(p, 1)
             /\ Finish(p, r, "release",
                       IF failures[p] + 1 >= Threshold THEN "FATAL" ELSE "ERROR")
    <3>1. failures' \in [Processes -> Int]
      BY <1>1, <2>2 DEF TypeInv
    <3>2. \E result \in {"ERROR", "FATAL"} : Finish(p, r, "release", result)
      BY <2>2
    <3> QED  BY <1>2, <2>2, <3>1, <3>2
  <2>3. CASE Bill(p, 1) /\ Finish(p, r, "release", "FATAL") /\ UNCHANGED failures
    <3>1. failures' \in [Processes -> Int]
      BY <1>1, <2>3 DEF TypeInv
    <3> QED  BY <1>2, <2>3, <3>1
  <2> QED  BY <1>3, <2>1, <2>2, <2>3 DEF Fails
<1>4. ASSUME NEW a \in Answers, Finish(p, r, "store", a),
             failures' = [failures EXCEPT ![p] = 0], UNCHANGED billed
      PROVE  BInv'
  <2>1. "store" \in Steps /\ a \in Results /\ a \in Labels
    BY DEF Steps, Results, Answers
  <2> DEFINE c == Finished("store", a)
  <2>2. c \in CallType /\ call' = [call EXCEPT ![p][r] = c]
    BY <1>4, <2>1, FinishIs
  <2>3. c.step = "store" /\ c.result \in Labels /\ OnItsWay(c) = 1
    BY <2>1 DEF Finished, OnItsWay
  <2>4. KeepsCover(p, r, c)
    BY <1>1, <1>4, <2>3 DEF KeepsCover, TypeInv
  <2>5. c.step \in Holding
    BY <2>3 DEF Holding
  <2> QED  BY <1>1, <2>2, <2>3, <2>4, <2>5, HolderKeeps
<1> QED  BY <1>3, <1>4 DEF Attempt

LEMMA StoreKeeps ==
  ASSUME BInv, NEW p \in Processes, phase[p] \in {"predicting", "draining"},
         NEW r \in Requests, UNCHANGED runVars, Store(p, r)
  PROVE  BInv'
<1>1. /\ TypeInv /\ call[p][r] \in CallType /\ call[p][r].step = "store"
      /\ UNCHANGED <<provider, lockFile, exposed, failures>>
      /\ call[p][r].step \in Asking /\ OnItsWay(call[p][r]) = 1
  BY DEF BInv, TypeInv, Store, At, Asking, OnItsWay
<1>2. PICK cost \in (IF provider = "openai" THEN {1, 2} ELSE {1}) :
        /\ Settle(p, cost)
        /\ Bill(p, cost)
        /\ \/ /\ cacheFile' = [cacheFile EXCEPT ![r] = call[p][r].result]
              /\ IF committed'[p] > MaxCost
                 THEN Finish(p, r, "release", "FATAL")
                 ELSE Go(p, r, "release")
           \/ /\ Finish(p, r, "release", "ERROR")
              /\ UNCHANGED cacheFile
  BY DEF Store
<1>3. ASSUME NEW c, OnItsWay(c) = 0  PROVE KeepsCover(p, r, c)
  <2>1. cost \in Int
    OBVIOUS
  <2>2. failures' \in [Processes -> Int]
    BY <1>1 DEF TypeInv
  <2>3. CASE provider = "ollama"
    BY <1>1, <1>2, <1>3, <2>1, <2>2, <2>3 DEF KeepsCover, TypeInv, Settle, Bill
  <2>4. CASE provider # "ollama"
    BY <1>1, <1>2, <1>3, <2>1, <2>2, <2>4 DEF KeepsCover, TypeInv, Settle, Bill
  <2> QED  BY <2>3, <2>4
<1>4. ASSUME NEW result \in {"ERROR", "FATAL"}, Finish(p, r, "release", result)
      PROVE  BInv'
  <2>1. "release" \in Steps /\ result \in Results
    BY DEF Steps, Results
  <2> DEFINE c == Finished("release", result)
  <2>2. c \in CallType /\ call' = [call EXCEPT ![p][r] = c]
    BY <1>4, <2>1, FinishIs
  <2>3. c.step = "release" /\ c.result \notin Labels /\ OnItsWay(c) = 0
    BY ProviderAssumption DEF Finished, OnItsWay
  <2>4. KeepsCover(p, r, c)
    BY <1>3, <2>3
  <2>5. c.step \in Holding /\ c.step \notin Asking
    BY <2>3 DEF Holding, Asking
  <2> QED  BY <1>1, <1>2, <2>2, <2>3, <2>4, <2>5, HolderKeeps
<1>5. CASE Go(p, r, "release") /\ cacheFile' = [cacheFile EXCEPT ![r] = call[p][r].result]
  <2>1. "release" \in Steps
    BY DEF Steps
  <2> DEFINE c == Gone(p, r, "release")
  <2>2. c \in CallType /\ call' = [call EXCEPT ![p][r] = c]
    BY <1>1, <1>5, <2>1, GoIs
  <2>3. c.step = "release" /\ OnItsWay(c) = 0 /\ c.result = call[p][r].result
    BY DEF Gone, OnItsWay
  <2>4. KeepsCover(p, r, c)
    BY <1>3, <2>3
  <2>5. c.step \in Holding /\ c.step \notin Asking
    BY <2>3 DEF Holding, Asking
  <2>6. cacheFile'[r] = c.result
    BY <1>1, <1>5, <2>3 DEF TypeInv
  <2> QED  BY <1>1, <1>5, <2>2, <2>3, <2>4, <2>5, <2>6, HolderKeeps
<1> QED  BY <1>2, <1>4, <1>5

LEMMA TakeKeeps ==
  ASSUME BInv, NEW p \in Processes, Take(p)
  PROVE  BInv'
<1>1. PICK r \in Requests : call[p][r].step = "queued" /\ Go(p, r, "lookup")
  BY DEF Take, Waiting, At
<1>2. phase[p] \in {"predicting", "draining"}
      /\ UNCHANGED <<provider, sharedVars, budgetVars, runVars>>
  BY DEF Take
<1>3. Before(p, r)
  BY <1>2, BeforeStep
<1>4. "lookup" \in Steps
  BY DEF Steps
<1>5. /\ Gone(p, r, "lookup") \in CallType
      /\ call' = [call EXCEPT ![p][r] = Gone(p, r, "lookup")]
  BY <1>1, <1>3, <1>4, GoIs DEF Before
<1> QED  BY <1>1, <1>2, <1>3, <1>5, Quiet
         DEF Gone, OnItsWay, Before, Unexposed, Holding, Asking

(* complete() as a whole. *)
LEMMA PredictKeeps ==
  ASSUME BInv, NEW p \in Processes, Predict(p)
  PROVE  BInv'
<1>1. PICK r \in Requests : Complete(p, r, p \in replays)
  BY DEF Predict
<1>2. phase[p] \in {"predicting", "draining"} /\ UNCHANGED runVars
  BY DEF Predict
<1>3. CASE FirstRead(p, r, p \in replays) \/ LockTimesOut(p, r)
  BY <1>2, <1>3, FirstReadKeeps
<1>4. CASE FirstQuarantine(p, r, p \in replays) \/ SecondQuarantine(p, r)
  BY <1>2, <1>4, QuarantineKeeps
<1>5. CASE Lock(p, r) \/ UnlinkStale(p, r) \/ Release(p, r)
  BY <1>2, <1>5, LockKeeps
<1>6. CASE SecondRead(p, r)
  BY <1>2, <1>6, SecondReadKeeps
<1>7. CASE Reserve(p, r)
  BY <1>2, <1>7, ReserveKeeps
<1>8. CASE Attempt(p, r)
  BY <1>2, <1>8, AttemptKeeps
<1>9. CASE Store(p, r)
  BY <1>2, <1>9, StoreKeeps
<1> QED  BY <1>1, <1>3, <1>4, <1>5, <1>6, <1>7, <1>8, <1>9 DEF Complete

-----------------------------------------------------------------------------
(***************************************************************************)
(* The steps of the run around the calls.                                  *)
(***************************************************************************)

LEMMA SameCalls ==
  ASSUME BInv, UNCHANGED callVars
  PROVE  /\ UNCHANGED <<provider, cacheFile, lockFile, exposed, call>>
         /\ UNCHANGED <<committed, reserved, failures, billed>>
         /\ LockInv' /\ SpendInv'
<1>1. /\ UNCHANGED <<provider, cacheFile, lockFile, exposed, call>>
      /\ UNCHANGED <<committed, reserved, failures, billed>>
  BY DEF callVars, sharedVars, budgetVars
<1>2. LockInv'
  BY <1>1 DEF BInv, LockInv, Unexposed
<1>3. SpendInv'
  <2>1. \A q \in Processes : Sending(q)' = Sending(q)
    BY <1>1 DEF Sending
  <2> QED  BY <1>1, <2>1 DEF BInv, SpendInv
<1> QED  BY <1>1, <1>2, <1>3

LEMMA PlanKeeps ==
  ASSUME BInv, NEW p \in Processes, Plan(p)
  PROVE  BInv'
<1>1. /\ UNCHANGED <<provider, lockFile, exposed, call, replays, dir>>
      /\ UNCHANGED <<committed, reserved, failures, billed>>
      /\ phase[p] = "start"
  BY DEF Plan, budgetVars
<1>2. PICK to \in {"refused", "planned"} : phase' = [phase EXCEPT ![p] = to]
  BY DEF Plan, Enter
<1>3. /\ cacheFile' \in [Requests -> Labels \cup {"none", "corrupt", "foreign"}]
      /\ \A r \in Requests : cacheFile[r] # "corrupt" => cacheFile'[r] = cacheFile[r]
  BY DEF BInv, TypeInv, Plan
<1>4. \A r \in Requests \ exposed : cacheFile[r] # "corrupt" /\ cacheFile'[r] = cacheFile[r]
  BY <1>3 DEF BInv, LockInv, Unexposed
<1>5. TypeInv'
  BY <1>1, <1>2, <1>3 DEF BInv, TypeInv, Phases
<1>6. LockInv'
  BY <1>1, <1>4 DEF BInv, LockInv, Unexposed
<1>7. SpendInv'
  <2>1. \A q \in Processes : Sending(q)' = Sending(q)
    BY <1>1 DEF Sending
  <2> QED  BY <1>1, <2>1 DEF BInv, SpendInv
<1>8. PhaseInv'
  BY <1>1, <1>2 DEF BInv, TypeInv, PhaseInv, Idle, Publishing
<1>9. ReplayInv'
  <2>1. p \in replays /\ to = "planned" => \A r \in Requests : cacheFile[r] \in Labels
    <3> SUFFICES ASSUME p \in replays, to = "planned", NEW r \in Requests
                 PROVE  cacheFile[r] \in Labels
      OBVIOUS
    <3>1. phase'[p] = "planned"
      BY <1>2 DEF BInv, TypeInv
    <3>2. ~(phase' = [phase EXCEPT ![p] = "refused"])
      BY <3>1 DEF BInv, TypeInv
    <3>3. cacheFile[r] # "foreign" /\ PlanIsAccepted(p)
      BY <3>2 DEF Plan, Enter
    <3>4. r \notin Uncached
      BY <3>3 DEF PlanIsAccepted
    <3> QED  BY <3>3, <3>4 DEF Uncached, BInv, TypeInv
  <2> QED  BY <1>1, <1>2, <1>4, <2>1 DEF BInv, TypeInv, ReplayInv
<1>10. DirInv'
  BY <1>1, <1>2 DEF BInv, TypeInv, DirInv
<1> QED  BY <1>5, <1>6, <1>7, <1>8, <1>9, <1>10 DEF BInv

(* A step from one phase of the run to the next, with what is in its       *)
(* directory by then.                                                      *)
FilesAt(to) ==
  IF to \in {"manifest", "rename"} THEN {"predictions", "metrics"}
  ELSE IF to = "metrics" THEN {"predictions"} ELSE {}

ManifestAt(to) == IF to = "rename" THEN "COMPLETE" ELSE "INCOMPLETE"

LEMMA PassageKeeps ==
  ASSUME BInv, NEW p \in Processes, UNCHANGED <<callVars, replays>>,
         NEW to \in Phases, phase' = [phase EXCEPT ![p] = to],
         phase[p] \notin {"start", "refused"},
         to \in {"predicting", "draining"} \cup Publishing,
         to \in Publishing =>
           \A r \in Requests : call[p][r].step = "done" /\ call[p][r].result # "FATAL",
         NEW d \in DirType, dir' = [dir EXCEPT ![p] = d],
         /\ d.name # "final"
         /\ d.manifest = ManifestAt(to)
         /\ d.files = FilesAt(to)
  PROVE  BInv'
<1>1. /\ UNCHANGED <<provider, cacheFile, lockFile, exposed, call, replays>>
      /\ UNCHANGED <<committed, reserved, failures, billed>>
      /\ LockInv' /\ SpendInv'
  BY SameCalls
<1>2. TypeInv'
  BY <1>1 DEF BInv, TypeInv
<1>3. /\ phase'[p] = to /\ dir'[p] = d
      /\ \A q \in Processes : q # p => phase'[q] = phase[q] /\ dir'[q] = dir[q]
  BY DEF BInv, TypeInv
<1>4. PhaseInv'
  BY <1>1, <1>3 DEF BInv, PhaseInv, Idle, Publishing
<1>5. ReplayInv'
  BY <1>1, <1>3 DEF BInv, ReplayInv
<1>6. DirInv'
  BY <1>3 DEF BInv, DirInv, Publishing, FilesAt, ManifestAt
<1> QED  BY <1>1, <1>2, <1>4, <1>5, <1>6 DEF BInv

LEMMA PassagesKeep ==
  ASSUME BInv, NEW p \in Processes,
         Begin(p) \/ Abort(p) \/ Collect(p) \/ Write(p)
  PROVE  BInv'
<1>1. UNCHANGED <<callVars, replays>>
  BY DEF Begin, Abort, Collect, Write
<1>2. /\ dir[p] \in DirType /\ dir' \in [Processes -> DirType]
      /\ dir = [dir EXCEPT ![p] = dir[p]]
  <2>1. dir \in [Processes -> DirType]
    BY DEF BInv, TypeInv
  <2>2. dir' \in [Processes -> DirType]
    BY <2>1 DEF Begin, Abort, Collect, Write, DirType
  <2> QED  BY <2>1, <2>2
<1>3. /\ FilesAt("predicting") = {} /\ FilesAt("draining") = {}
      /\ FilesAt("predictions") = {} /\ FilesAt("metrics") = {"predictions"}
      /\ FilesAt("manifest") = {"predictions", "metrics"}
      /\ FilesAt("rename") = {"predictions", "metrics"}
  BY DEF FilesAt
<1>11. /\ ManifestAt("predicting") = "INCOMPLETE" /\ ManifestAt("draining") = "INCOMPLETE"
       /\ ManifestAt("predictions") = "INCOMPLETE" /\ ManifestAt("metrics") = "INCOMPLETE"
       /\ ManifestAt("manifest") = "INCOMPLETE" /\ ManifestAt("rename") = "COMPLETE"
  BY DEF ManifestAt
<1>12. /\ "predicting" \in Phases \ Publishing /\ "draining" \in Phases \ Publishing
       /\ "predictions" \in Publishing /\ "metrics" \in Publishing
       /\ "manifest" \in Publishing /\ "rename" \in Publishing
       /\ \A to \in Publishing : to \in Phases /\ to \notin {"start", "refused"}
  BY DEF Phases, Publishing
<1>13. ASSUME NEW to \in {"predicting", "draining"} \cup Publishing, NEW d \in DirType,
              phase' = [phase EXCEPT ![p] = to], phase[p] \notin {"start", "refused"},
              to \in Publishing =>
                \A r \in Requests : call[p][r].step = "done" /\ call[p][r].result # "FATAL",
              dir' = [dir EXCEPT ![p] = d], d.name # "final",
              d.manifest = ManifestAt(to), d.files = FilesAt(to)
       PROVE  BInv'
  BY <1>1, <1>12, <1>13, PassageKeeps
<1>4. phase[p] \in {"predicting", "draining"} \cup Publishing => dir[p].name # "final"
  BY DEF BInv, DirInv, Publishing
<1>5. CASE Begin(p)
  <2> DEFINE d == [name |-> "incomplete", manifest |-> "INCOMPLETE", files |-> {}]
  <2>1. /\ d \in DirType /\ dir' = [dir EXCEPT ![p] = d] /\ phase[p] = "planned"
        /\ phase' = [phase EXCEPT ![p] = "predicting"]
    BY <1>5 DEF Begin, Enter, DirType
  <2> QED  BY <2>1, <1>3, <1>11, <1>12, <1>13
<1>6. CASE Abort(p)
  <2>1. /\ phase[p] = "predicting" /\ phase' = [phase EXCEPT ![p] = "draining"]
        /\ dir' = [dir EXCEPT ![p] = dir[p]]
    BY <1>2, <1>6 DEF Abort, Enter
  <2>2. dir[p].manifest = "INCOMPLETE" /\ dir[p].files = {} /\ dir[p].name # "final"
    BY <1>4, <2>1 DEF BInv, DirInv
  <2> QED  BY <1>2, <2>1, <2>2, <1>3, <1>11, <1>12, <1>13
<1>7. CASE Collect(p)
  <2>1. /\ phase[p] = "predicting" /\ phase' = [phase EXCEPT ![p] = "predictions"]
        /\ dir' = [dir EXCEPT ![p] = dir[p]] /\ Done(p) = Requests /\ ~Fatal(p)
    BY <1>2, <1>7 DEF Collect, Enter
  <2>2. dir[p].manifest = "INCOMPLETE" /\ dir[p].files = {} /\ dir[p].name # "final"
    BY <1>4, <2>1 DEF BInv, DirInv
  <2>3. \A r \in Requests : call[p][r].step = "done" /\ call[p][r].result # "FATAL"
    BY <2>1 DEF Done, At, Fatal, Result
  <2> QED  BY <1>2, <2>1, <2>2, <2>3, <1>3, <1>11, <1>12, <1>13
<1>8. CASE Write(p)
  <2>1. \A r \in Requests : call[p][r].step = "done" /\ call[p][r].result # "FATAL"
    BY <1>8 DEF Write, BInv, PhaseInv, Publishing
  <2>2. dir[p].name # "final" /\ dir[p] \in DirType
    BY <1>2, <1>4, <1>8 DEF Write, Publishing
  <2>3. CASE phase[p] = "predictions"
    <3> DEFINE d == [dir[p] EXCEPT !.files = @ \cup {"predictions"}]
    <3>1. dir' = [dir EXCEPT ![p] = d] /\ phase' = [phase EXCEPT ![p] = "metrics"]
      BY <1>8, <2>3 DEF Write, Enter
    <3>2. dir[p].manifest = "INCOMPLETE" /\ dir[p].files = {}
      BY <2>3 DEF BInv, DirInv
    <3>3. d \in DirType /\ d.name # "final" /\ d.manifest = "INCOMPLETE"
          /\ d.files = {"predictions"}
      BY <2>2, <3>2 DEF DirType
    <3> QED  BY <2>1, <2>3, <3>1, <3>3, <1>3, <1>11, <1>12, <1>13
  <2>4. CASE phase[p] = "metrics"
    <3> DEFINE d == [dir[p] EXCEPT !.files = @ \cup {"metrics"}]
    <3>1. dir' = [dir EXCEPT ![p] = d] /\ phase' = [phase EXCEPT ![p] = "manifest"]
      BY <1>8, <2>4 DEF Write, Enter
    <3>2. dir[p].manifest = "INCOMPLETE" /\ dir[p].files = {"predictions"}
      BY <2>4 DEF BInv, DirInv
    <3>3. d \in DirType /\ d.name # "final" /\ d.manifest = "INCOMPLETE"
          /\ d.files = {"predictions", "metrics"}
      BY <2>2, <3>2 DEF DirType
    <3> QED  BY <2>1, <2>4, <3>1, <3>3, <1>3, <1>11, <1>12, <1>13
  <2>5. CASE phase[p] = "manifest"
    <3> DEFINE d == [dir[p] EXCEPT !.manifest = "COMPLETE"]
    <3>1. dir' = [dir EXCEPT ![p] = d] /\ phase' = [phase EXCEPT ![p] = "rename"]
      BY <1>8, <2>5 DEF Write, Enter
    <3>2. dir[p].files = {"predictions", "metrics"}
      BY <2>5 DEF BInv, DirInv
    <3>3. d \in DirType /\ d.name # "final" /\ d.manifest = "COMPLETE"
          /\ d.files = {"predictions", "metrics"}
      BY <2>2, <3>2 DEF DirType
    <3> QED  BY <2>1, <2>5, <3>1, <3>3, <1>3, <1>11, <1>12, <1>13
  <2> QED  BY <1>8, <2>3, <2>4, <2>5 DEF Write
<1> QED  BY <1>5, <1>6, <1>7, <1>8

(* The end of a process: what it remembered is gone.                       *)
LEMMA EndKeeps ==
  ASSUME BInv, NEW p \in Processes, UNCHANGED <<provider, sharedVars, replays>>,
         Exit(p),
         \A r \in Requests : call'[p][r].step \notin {"send", "store"},
         call' = call \/ Forget(p)
  PROVE  /\ UNCHANGED <<cacheFile, lockFile, exposed>>
         /\ committed' \in [Processes -> Int] /\ reserved' \in [Processes -> Int]
         /\ failures' \in [Processes -> Int] /\ billed' \in [Processes -> Int]
         /\ call' \in [Processes -> [Requests -> CallType]]
         /\ \A q \in Processes : q # p => call'[q] = call[q]
         /\ \A r \in Requests : call'[p][r] \in {call[p][r], Queued}
         /\ LockInv' /\ SpendInv'
<1>1. UNCHANGED <<provider, cacheFile, lockFile, exposed>> /\ TypeInv
  BY DEF sharedVars, BInv
<1>2. /\ committed' \in [Processes -> Int] /\ reserved' \in [Processes -> Int]
      /\ failures' \in [Processes -> Int] /\ billed' \in [Processes -> Int]
      /\ committed'[p] = 0 /\ reserved'[p] = 0 /\ billed'[p] = 0
      /\ \A q \in Processes : q # p => /\ committed'[q] = committed[q]
                                       /\ reserved'[q] = reserved[q]
                                       /\ billed'[q] = billed[q]
  BY <1>1 DEF Exit, TypeInv
<1>3. /\ call' \in [Processes -> [Requests -> CallType]]
      /\ \A q \in Processes : q # p => call'[q] = call[q]
      /\ \A r \in Requests : call'[p][r] \in {call[p][r], Queued}
  BY <1>1, QueuedType DEF Forget, TypeInv
<1>4. LockInv'
  <2>1. \A q \in Processes, r \in Requests : call'[q][r] \in {call[q][r], Queued}
    BY <1>3
  <2>2. Queued.step = "queued"
    BY QueuedType
  <2>3. \A q \in Processes, r \in Requests :
          /\ call'[q][r].step \in Holding => call[q][r].step \in Holding
          /\ call'[q][r].step = "store" => call'[q][r].result \in Labels
    BY <2>1, <2>2 DEF Holding, BInv, LockInv
  <2>4. \A q \in Processes, r \in Requests \ exposed :
          Unexposed(r, cacheFile[r], lockFile[r], call'[q][r])
    BY <2>1, <2>2 DEF BInv, LockInv, Unexposed, Holding, Asking
  <2> QED  BY <1>1, <2>3, <2>4 DEF BInv, LockInv
<1>5. SpendInv'
  <2> SUFFICES ASSUME provider = "openai", NEW q \in Processes
               PROVE  billed'[q] + Cardinality(Sending(q)') <= committed'[q] + reserved'[q]
    BY <1>1 DEF SpendInv
  <2>1. CASE q = p
    <3>1. Sending(q)' = {}
      BY <2>1 DEF Sending
    <3>2. Cardinality(Sending(q)') = 0
      BY <3>1, FS_EmptySet
    <3> QED  BY <1>2, <2>1, <3>2
  <2>2. CASE q # p
    <3>1. Sending(q)' = Sending(q)
      BY <1>3, <2>2 DEF Sending
    <3> QED  BY <1>2, <2>2, <3>1 DEF BInv, SpendInv
  <2> QED  BY <2>1, <2>2
<1> QED  BY <1>1, <1>2, <1>3, <1>4, <1>5

LEMMA PublishKeeps ==
  ASSUME BInv, NEW p \in Processes, Publish(p)
  PROVE  BInv'
<1>1. /\ UNCHANGED <<provider, sharedVars, replays>> /\ call' = call /\ Exit(p)
      /\ phase[p] = "rename" /\ phase' = [phase EXCEPT ![p] = "published"]
      /\ dir' = [dir EXCEPT ![p].name = "final"]
  BY DEF Publish, Enter
<1>2. \A r \in Requests : call[p][r].step = "done" /\ call[p][r].result # "FATAL"
  BY <1>1 DEF BInv, PhaseInv, Publishing
<1>3. \A r \in Requests : call'[p][r].step \notin {"send", "store"}
  BY <1>1, <1>2
<1>4. /\ UNCHANGED <<cacheFile, lockFile, exposed>> /\ LockInv' /\ SpendInv'
      /\ committed' \in [Processes -> Int] /\ reserved' \in [Processes -> Int]
      /\ failures' \in [Processes -> Int] /\ billed' \in [Processes -> Int]
  BY <1>1, <1>3, EndKeeps
<1>5. /\ phase' \in [Processes -> Phases] /\ phase'[p] = "published"
      /\ dir' \in [Processes -> DirType]
      /\ dir'[p].files = dir[p].files /\ dir'[p].manifest = dir[p].manifest
      /\ \A q \in Processes : q # p => phase'[q] = phase[q] /\ dir'[q] = dir[q]
  <2>1. phase \in [Processes -> Phases] /\ dir \in [Processes -> DirType]
    BY DEF BInv, TypeInv
  <2>2. "published" \in Phases
    BY DEF Phases
  <2>3. /\ phase' \in [Processes -> Phases] /\ phase'[p] = "published"
        /\ \A q \in Processes : q # p => phase'[q] = phase[q]
    BY <1>1, <2>1, <2>2
  <2>4. /\ dir' \in [Processes -> DirType]
        /\ dir'[p].files = dir[p].files /\ dir'[p].manifest = dir[p].manifest
        /\ \A q \in Processes : q # p => dir'[q] = dir[q]
    BY <1>1, <2>1 DEF DirType
  <2> QED  BY <2>3, <2>4
<1>6. TypeInv'
  BY <1>1, <1>4, <1>5 DEF BInv, TypeInv
<1>7. PhaseInv'
  BY <1>1, <1>2, <1>5 DEF BInv, PhaseInv, Idle, Publishing
<1>8. ReplayInv'
  BY <1>1, <1>4, <1>5 DEF BInv, ReplayInv
<1>9. DirInv'
  BY <1>1, <1>5 DEF BInv, DirInv
<1> QED  BY <1>4, <1>6, <1>7, <1>8, <1>9 DEF BInv

LEMMA FailureKeeps ==
  ASSUME BInv, NEW p \in Processes, Drained(p) \/ WriteFails(p) \/ Crash(p)
  PROVE  BInv'
<1>1. /\ UNCHANGED <<provider, sharedVars, replays>> /\ Forget(p) /\ Exit(p)
      /\ phase[p] \in {"predicting", "draining"} \cup Publishing
  BY DEF Drained, WriteFails, Crash, Fail
<1>2. PICK to \in {"failed", "crashed"} : phase' = [phase EXCEPT ![p] = to]
  BY DEF Drained, WriteFails, Crash, Fail, Enter
<1>3. \A r \in Requests : call'[p][r] = Queued
  BY <1>1 DEF Forget, BInv, TypeInv
<1>4. \A r \in Requests : call'[p][r].step \notin {"send", "store"}
  BY <1>3, QueuedType
<1>5. /\ UNCHANGED <<cacheFile, lockFile, exposed>> /\ LockInv' /\ SpendInv'
      /\ committed' \in [Processes -> Int] /\ reserved' \in [Processes -> Int]
      /\ failures' \in [Processes -> Int] /\ billed' \in [Processes -> Int]
      /\ call' \in [Processes -> [Requests -> CallType]]
      /\ \A q \in Processes : q # p => call'[q] = call[q]
  BY <1>1, <1>4, EndKeeps
<1>6. /\ dir' \in [Processes -> DirType]
      /\ dir'[p].files = dir[p].files /\ dir'[p].name = dir[p].name
      /\ dir'[p].manifest \in {dir[p].manifest, "FAILED"}
      /\ \A q \in Processes : q # p => dir'[q] = dir[q]
  <2>1. dir' = dir \/ dir' = [dir EXCEPT ![p].manifest = "FAILED"]
    BY DEF Drained, WriteFails, Crash, Fail
  <2>2. dir \in [Processes -> DirType]
    BY DEF BInv, TypeInv
  <2>3. CASE dir' = dir
    BY <2>2, <2>3
  <2>4. CASE dir' = [dir EXCEPT ![p].manifest = "FAILED"]
    BY <2>2, <2>4 DEF DirType
  <2> QED  BY <2>1, <2>3, <2>4
<1>7. /\ phase' \in [Processes -> Phases] /\ phase'[p] \in {"failed", "crashed"}
      /\ \A q \in Processes : q # p => phase'[q] = phase[q]
  BY <1>2 DEF BInv, TypeInv, Phases
<1>8. TypeInv'
  BY <1>5, <1>6, <1>7 DEF BInv, TypeInv
<1>9. PhaseInv'
  BY <1>3, <1>5, <1>7 DEF BInv, PhaseInv, Publishing
<1>10. ReplayInv'
  <2> SUFFICES ASSUME NEW q \in Processes \cap replays
               PROVE  /\ phase'[q] \notin {"start", "refused"} =>
                           \A r \in Requests \ exposed : cacheFile[r] \in Labels
                      /\ \A r \in Requests \ exposed :
                           /\ call'[q][r].step \in {"queued", "lookup", "done"}
                           /\ call'[q][r].step = "done" => call'[q][r].result \in Labels
    BY <1>1, <1>5 DEF ReplayInv
  <2>1. CASE q = p
    BY <1>1, <1>3, <2>1, QueuedType DEF BInv, ReplayInv, Publishing
  <2>2. CASE q # p
    BY <1>5, <1>7, <2>2 DEF BInv, ReplayInv
  <2> QED  BY <2>1, <2>2
<1>11. DirInv'
  BY <1>1, <1>6, <1>7 DEF BInv, DirInv, Publishing
<1> QED  BY <1>5, <1>8, <1>9, <1>10, <1>11 DEF BInv

LEMMA AgeKeeps ==
  ASSUME BInv, NEW r \in Requests, Age(r), UNCHANGED runVars
  PROVE  BInv'
<1>1. /\ UNCHANGED <<provider, cacheFile, call, replays, phase, dir>>
      /\ UNCHANGED <<committed, reserved, failures, billed>>
      /\ lockFile' = [lockFile EXCEPT ![r] = "stale"] /\ exposed' = exposed \cup {r}
  BY DEF Age, SetLock, budgetVars, runVars
<1>2. TypeInv'
  BY <1>1 DEF BInv, TypeInv
<1>3. \A s \in Requests \ exposed' : s \in Requests \ exposed /\ lockFile'[s] = lockFile[s]
  BY <1>1 DEF BInv, TypeInv
<1>4. LockInv'
  BY <1>1, <1>3 DEF BInv, LockInv, Unexposed
<1>5. SpendInv'
  <2>1. \A q \in Processes : Sending(q)' = Sending(q)
    BY <1>1 DEF Sending
  <2> QED  BY <1>1, <2>1 DEF BInv, SpendInv
<1>6. PhaseInv' /\ DirInv'
  BY <1>1 DEF BInv, PhaseInv, DirInv
<1>7. ReplayInv'
  BY <1>1, <1>3 DEF BInv, ReplayInv
<1> QED  BY <1>2, <1>4, <1>5, <1>6, <1>7 DEF BInv

LEMMA StutterKeeps ==
  ASSUME BInv, UNCHANGED vars
  PROVE  BInv'
<1>1. UNCHANGED callVars /\ UNCHANGED <<replays, phase, dir>>
  BY DEF vars, runVars
<1>2. /\ UNCHANGED <<provider, cacheFile, lockFile, exposed, call>>
      /\ UNCHANGED <<committed, reserved, failures, billed>>
      /\ LockInv' /\ SpendInv'
  BY <1>1, SameCalls
<1> QED  BY <1>1, <1>2 DEF BInv, TypeInv, PhaseInv, ReplayInv, DirInv

LEMMA NextBaseline == BInv /\ [Next]_vars => BInv'
<1> SUFFICES ASSUME BInv, [Next]_vars  PROVE BInv'
  OBVIOUS
<1>1. ASSUME NEW p \in Processes, RunStep(p)  PROVE BInv'
  <2>1. CASE Plan(p)
    BY <2>1, PlanKeeps
  <2>2. CASE Take(p)
    BY <2>2, TakeKeeps
  <2>3. CASE Predict(p)
    BY <2>3, PredictKeeps
  <2>4. CASE Begin(p) \/ Abort(p) \/ Collect(p) \/ Write(p)
    BY <2>4, PassagesKeep
  <2>5. CASE Publish(p)
    BY <2>5, PublishKeeps
  <2>6. CASE Drained(p)
    BY <2>6, FailureKeeps
  <2> QED  BY <1>1, <2>1, <2>2, <2>3, <2>4, <2>5, <2>6 DEF RunStep
<1>2. ASSUME NEW p \in Processes, WriteFails(p) \/ Crash(p)  PROVE BInv'
  BY <1>2, FailureKeeps
<1>3. ASSUME NEW r \in Requests, Age(r), UNCHANGED runVars  PROVE BInv'
  BY <1>3, AgeKeeps
<1>4. CASE UNCHANGED vars
  BY <1>4, StutterKeeps
<1> QED  BY <1>1, <1>2, <1>3, <1>4 DEF Next, Over

LEMMA BaselineInvariant == Spec => []BInv
BY InitBaseline, NextBaseline, PTL DEF Spec

-----------------------------------------------------------------------------
(***************************************************************************)
(* The properties.                                                         *)
(***************************************************************************)

(* One process at a time sends a request whose lock was never held past    *)
(* its age, and only while its answer is not in the cache (cache.py, lock, *)
(* and CachedProvider.complete).                                           *)
THEOREM OneCaller == Spec => []OneCallerPerRequest
<1>1. BInv => OneCallerPerRequest
  <2> SUFFICES ASSUME BInv, NEW r \in Requests \ exposed
               PROVE  /\ Cardinality(Callers(r)) <= 1
                      /\ Callers(r) # {} => cacheFile[r] = "none"
    BY DEF OneCallerPerRequest
  <2>1. \A p \in Callers(r) :
          /\ p \in Processes
          /\ call[p][r].step \in Holding /\ call[p][r].step \in Asking
    BY DEF Callers, At, Holding, Asking
  <2>2. \A p, q \in Callers(r) : p = q
    BY <2>1 DEF BInv, LockInv
  <2>3. \A p \in Callers(r) : cacheFile[r] = "none"
    BY <2>1 DEF BInv, LockInv, Unexposed
  <2>4. CASE Callers(r) = {}
    <3>1. Cardinality(Callers(r)) = 0
      BY <2>4, FS_EmptySet
    <3> QED  BY <2>4, <3>1
  <2>5. CASE Callers(r) # {}
    <3>1. PICK p : p \in Callers(r)
      BY <2>5
    <3>2. Callers(r) = {p}
      BY <2>2, <3>1
    <3>3. Cardinality(Callers(r)) = 1
      BY <3>2, FS_Singleton
    <3> QED  BY <2>3, <3>1, <3>3
  <2> QED  BY <2>4, <2>5
<1> QED  BY <1>1, BaselineInvariant, PTL

(* What a run predicted is in the cache, and a replay that was accepted    *)
(* misses nothing (cache.py, and plan_baseline in planning.py).            *)
THEOREM Replayable == Spec => []PredictionsAreReplayable
<1>1. BInv => PredictionsAreReplayable
  BY DEF BInv, LockInv, Unexposed, ReplayInv, PredictionsAreReplayable, Done, At, Result
<1> QED  BY <1>1, BaselineInvariant, PTL

(* A directory under its final name is whole, and so are its predictions   *)
(* (EvaluationRunner.run).                                                 *)
THEOREM Published == Spec => []PublishedIsWhole
<1>1. BInv => PublishedIsWhole
  BY DEF BInv, DirInv, PhaseInv, PublishedIsWhole, Done, At, Result, Publishing
<1> QED  BY <1>1, BaselineInvariant, PTL

(* A call is sent by Reserve, and by nothing else. *)
LEMMA NotSent ==
  ASSUME TypeInv, NEW p \in Processes, NEW r \in Requests,
         NEW q \in Processes, NEW s \in Requests,
         \/ \E step \in Steps \ {"send"} : Go(q, s, step)
         \/ \E step \in Steps \ {"send"}, result \in Results : Finish(q, s, step, result)
         \/ /\ call[q][s].step = "send"
            /\ call' = [call EXCEPT ![q][s].tries = @ + 1],
         call'[p][r].step = "send"
  PROVE  call[p][r].step = "send"
<1>1. CASE \E step \in Steps \ {"send"} : Go(q, s, step)
  BY <1>1 DEF TypeInv, Go, CallType
<1>2. CASE \E step \in Steps \ {"send"}, result \in Results : Finish(q, s, step, result)
  BY <1>2 DEF TypeInv, Finish
<1>3. CASE call[q][s].step = "send" /\ call' = [call EXCEPT ![q][s].tries = @ + 1]
  BY <1>3 DEF TypeInv, CallType
<1> QED  BY <1>1, <1>2, <1>3

LEMMA SentWithinCap ==
  ASSUME BInv, NEW p \in Processes, NEW r \in Requests, [Next]_vars,
         call[p][r].step # "send", call'[p][r].step = "send"
  PROVE  WithinCap(p)
<1>1. TypeInv
  BY DEF BInv
<1>2. ASSUME NEW q \in Processes, NEW s \in Requests, Complete(q, s, q \in replays)
      PROVE  WithinCap(p)
  <2>1. {"lookup", "quarantine", "lock", "unlink", "recheck", "requarantine",
         "reserve", "store", "release", "done"} \subseteq Steps \ {"send"}
    BY DEF Steps
  <2>2. "ERROR" \in Results /\ "FATAL" \in Results /\ Labels \subseteq Results
    BY DEF Results
  <2>3. CASE Reserve(q, s) /\ WithinCap(q) /\ Go(q, s, "send")
    <3>1. \A o \in Processes, t \in Requests : o # q \/ t # s => call'[o][t] = call[o][t]
      BY <1>1, <2>3 DEF TypeInv, Go
    <3> QED  BY <2>3, <3>1
  <2>4. CASE Reserve(q, s) /\ Finish(q, s, "release", "FATAL")
    BY <1>1, <2>1, <2>2, <2>4, NotSent
  <2>5. CASE FirstRead(q, s, q \in replays) \/ SecondRead(q, s) \/ LockTimesOut(q, s)
    <3>1. \/ \E step \in Steps \ {"send"} : Go(q, s, step)
          \/ \E step \in Steps \ {"send"}, result \in Results : Finish(q, s, step, result)
      BY <2>1, <2>2, <2>5 DEF FirstRead, SecondRead, Read, Missed, LockTimesOut
    <3> QED  BY <1>1, <3>1, NotSent
  <2>6. CASE \/ FirstQuarantine(q, s, q \in replays) \/ SecondQuarantine(q, s)
             \/ Lock(q, s) \/ UnlinkStale(q, s) \/ Release(q, s)
    <3>1. \/ \E step \in Steps \ {"send"} : Go(q, s, step)
          \/ \E step \in Steps \ {"send"}, result \in Results : Finish(q, s, step, result)
      BY <2>1, <2>2, <2>6
         DEF FirstQuarantine, SecondQuarantine, Quarantine, Missed, Lock, UnlinkStale, Release
    <3> QED  BY <1>1, <3>1, NotSent
  <2>7. CASE Attempt(q, s)
    <3>1. \/ \E result \in {"ERROR", "FATAL"} : Finish(q, s, "release", result)
          \/ \E a \in Labels : Finish(q, s, "store", a)
          \/ /\ call[q][s].step = "send"
             /\ call' = [call EXCEPT ![q][s].tries = @ + 1]
      BY <2>7 DEF Attempt, Fails, Answers, At
    <3> QED  BY <1>1, <2>1, <2>2, <3>1, NotSent
  <2>8. CASE Store(q, s)
    <3>1. \/ Go(q, s, "release")
          \/ \E result \in {"ERROR", "FATAL"} : Finish(q, s, "release", result)
      BY <2>8 DEF Store
    <3> QED  BY <1>1, <2>1, <2>2, <3>1, NotSent
  <2>9. CASE Reserve(q, s)
    BY <2>3, <2>4, <2>9 DEF Reserve
  <2> QED  BY <1>2, <2>5, <2>6, <2>7, <2>8, <2>9 DEF Complete
<1>3. ASSUME NEW q \in Processes, Take(q)  PROVE FALSE
  <2>1. "lookup" \in Steps \ {"send"}
    BY DEF Steps
  <2> QED  BY <1>1, <1>3, <2>1, NotSent DEF Take, Waiting
<1>4. ASSUME NEW q \in Processes, Drained(q) \/ WriteFails(q) \/ Crash(q)  PROVE FALSE
  <2>1. Forget(q)
    BY <1>4 DEF Drained, WriteFails, Crash, Fail
  <2> QED  BY <1>1, <2>1, QueuedType DEF Forget, TypeInv
<1>5. ASSUME NEW q \in Processes,
             Plan(q) \/ Begin(q) \/ Abort(q) \/ Collect(q) \/ Write(q) \/ Publish(q)
      PROVE  FALSE
  BY <1>5 DEF Plan, Begin, Abort, Collect, Write, Publish, callVars
<1>6. ASSUME NEW s \in Requests, Age(s)  PROVE FALSE
  BY <1>6 DEF Age
<1>7. CASE UNCHANGED vars
  BY <1>7 DEF vars, callVars
<1>8. ASSUME NEW q \in Processes, RunStep(q)  PROVE WithinCap(p)
  BY <1>2, <1>3, <1>4, <1>5, <1>8 DEF RunStep, Predict
<1> QED  BY <1>4, <1>6, <1>7, <1>8 DEF Next, Over

(* A paid call is sent only within the cap, whatever else is on its way,   *)
(* failed before or cost more than its estimate (BudgetGuard.reserve and   *)
(* settle in provider.py).                                                 *)
THEOREM SpendWithinCap == Spec => SpendStaysWithinCap
<1>1. BInv /\ [Next]_vars =>
        [provider = "openai" =>
           \A p \in Processes, r \in Requests :
             At(p, r, "send")' /\ ~At(p, r, "send") =>
               billed[p] + Cardinality({s \in Requests : p \in Callers(s)}) + 1 <= MaxCost]_vars
  <2> SUFFICES ASSUME BInv, [Next]_vars, NEW p \in Processes, NEW r \in Requests,
                      provider = "openai", ~At(p, r, "send"), At(p, r, "send")'
               PROVE  billed[p] + Cardinality({s \in Requests : p \in Callers(s)}) + 1
                        <= MaxCost
    OBVIOUS
  <2>1. committed[p] + reserved[p] + 1 <= MaxCost
    BY SentWithinCap DEF At, WithinCap
  <2>2. {s \in Requests : p \in Callers(s)} = Sending(p)
    BY DEF Callers, Sending, At
  <2>3. billed[p] + Cardinality(Sending(p)) <= committed[p] + reserved[p]
    BY DEF BInv, SpendInv
  <2>4. /\ billed[p] \in Int /\ committed[p] \in Int /\ reserved[p] \in Int
        /\ Cardinality(Sending(p)) \in Nat
    <3>1. Sending(p) \in SUBSET Requests /\ IsFiniteSet(Requests)
      BY ProviderAssumption DEF Sending
    <3>2. IsFiniteSet(Sending(p))
      BY <3>1, FS_Subset
    <3>3. Cardinality(Sending(p)) \in Nat
      BY <3>2, FS_CardinalityType
    <3> QED  BY <3>3 DEF BInv, TypeInv
  <2>5. MaxCost \in Nat
    BY ProviderAssumption
  <2>6. billed[p] + Cardinality(Sending(p)) + 1 <= MaxCost
    BY <2>1, <2>3, <2>4, <2>5
  <2> QED  BY <2>2, <2>6
<1> QED  BY <1>1, BaselineInvariant, PTL DEF Spec, SpendStaysWithinCap

-----------------------------------------------------------------------------
(***************************************************************************)
(* Every step leaves less to do.                                           *)
(***************************************************************************)

(* Only a call that is being sent was tried, and it may be tried again. *)
TriesInv ==
  \A p \in Processes, r \in Requests :
    IF call[p][r].step = "send" THEN call[p][r].tries < MaxAttempts
                                ELSE call[p][r].tries = 0

(* A step of a call that is at c afterwards. *)
Becomes(p, r, c) ==
  /\ call' = [call EXCEPT ![p][r] = c]
  /\ IF c.step = "send" THEN c.tries < MaxAttempts ELSE c.tries = 0

LEMMA BecomesTries ==
  ASSUME TypeInv, TriesInv, NEW p \in Processes, NEW r \in Requests,
         NEW c \in CallType, Becomes(p, r, c)
  PROVE  TriesInv'
<1>1. /\ call'[p][r] = c
      /\ \A q \in Processes, s \in Requests : q # p \/ s # r => call'[q][s] = call[q][s]
  BY DEF Becomes, TypeInv
<1> QED  BY <1>1 DEF Becomes, TriesInv

(* A call that gets the lock, or ends without it. *)
LEMMA Served ==
  ASSUME TypeInv, NEW p \in Processes, NEW r \in Requests,
         NEW c \in CallType, Becomes(p, r, c),
         phase' = phase, phase[p] \notin Ended,
         call[p][r].step \in BeforeTheLock, c.step \notin BeforeTheLock
  PROVE  LessIsLeft
<1>1. /\ call'[p][r] = c
      /\ \A q \in Processes, s \in Requests : q # p \/ s # r => call'[q][s] = call[q][s]
  BY DEF Becomes, TypeInv
<1>2. <<p, r>> \in Unserved /\ <<p, r>> \notin Unserved'
  BY <1>1 DEF Unserved
<1>3. Unserved' \subseteq Unserved
  BY <1>1 DEF Unserved
<1> QED  BY <1>2, <1>3 DEF LessIsLeft

LEMMA StillUnserved ==
  ASSUME TypeInv, NEW p \in Processes, NEW r \in Requests,
         NEW c \in CallType, Becomes(p, r, c),
         phase' = phase, call[p][r].step \in BeforeTheLock <=> c.step \in BeforeTheLock
  PROVE  Unserved' = Unserved
<1>1. /\ call'[p][r] = c
      /\ \A q \in Processes, s \in Requests : q # p \/ s # r => call'[q][s] = call[q][s]
  BY DEF Becomes, TypeInv
<1>2. \A u \in Processes \X Requests :
        call'[u[1]][u[2]].step \in BeforeTheLock <=> call[u[1]][u[2]].step \in BeforeTheLock
  BY <1>1
<1> QED  BY <1>2 DEF Unserved

LEMMA StepsFromType ==
  ASSUME NEW c \in CallType, NEW lock
  PROVE  StepsFrom(c, lock) \in Int
<1>1. c.step \in Steps /\ c.tries \in Nat /\ MaxAttempts \in Nat
  BY ProviderAssumption DEF CallType
<1> QED  BY <1>1 DEF StepsFrom, Steps

LEMMA OneStepLess ==
  ASSUME TypeInv, NEW p \in Processes, NEW r \in Requests,
         NEW c \in CallType, Becomes(p, r, c),
         phase' = phase, call[p][r].step \in BeforeTheLock <=> c.step \in BeforeTheLock,
         lockFile' = lockFile,
         StepsFrom(c, lockFile[r]) < StepsFrom(call[p][r], lockFile[r])
  PROVE  LessIsLeft
<1>1. Unserved' = Unserved
  BY StillUnserved
<1>2. /\ call'[p][r] = c
      /\ \A q \in Processes, s \in Requests : q # p \/ s # r => call'[q][s] = call[q][s]
  BY DEF Becomes, TypeInv
<1>3. StepsLeft(p, r)' < StepsLeft(p, r)
  BY <1>2 DEF StepsLeft
<1>4. ASSUME NEW q \in Processes, NEW s \in Requests
      PROVE  StepsLeft(q, s)' <= StepsLeft(q, s)
  <2>1. call[q][s] \in CallType /\ call[p][r] \in CallType
    BY DEF TypeInv
  <2>2. /\ StepsFrom(call[q][s], lockFile[s]) \in Int
        /\ StepsFrom(call[p][r], lockFile[r]) \in Int
        /\ StepsFrom(c, lockFile[r]) \in Int
    BY <2>1, StepsFromType
  <2>3. CASE q = p /\ s = r
    BY <1>2, <2>2, <2>3 DEF StepsLeft
  <2>4. CASE q # p \/ s # r
    BY <1>2, <2>2, <2>4 DEF StepsLeft
  <2> QED  BY <2>3, <2>4
<1>5. AStepLess
  BY <1>3, <1>4 DEF AStepLess
<1> QED  BY <1>1, <1>5 DEF LessIsLeft

(* A call that unlinks the lock file, if there is one. *)
LEMMA Freed ==
  ASSUME TypeInv, NEW p \in Processes, NEW r \in Requests,
         NEW c \in CallType, Becomes(p, r, c),
         phase' = phase, call[p][r].step \in BeforeTheLock <=> c.step \in BeforeTheLock,
         lockFile' = [lockFile EXCEPT ![r] = "free"],
         StepsFrom(c, "free") < StepsFrom(call[p][r], "free")
  PROVE  LessIsLeft
<1>1. Unserved' = Unserved
  BY StillUnserved
<1>2. \A s \in Requests : lockFile'[s] = IF s = r THEN "free" ELSE lockFile[s]
  BY DEF TypeInv
<1>3. CASE lockFile[r] = "fresh"
  <2>1. Fewer(Locked("fresh")', Locked("fresh"))
    BY <1>2, <1>3 DEF Fewer, Locked
  <2>2. lockFile' # lockFile
    BY <1>2, <1>3
  <2> QED  BY <1>1, <2>1, <2>2 DEF LessIsLeft, LocksLess
<1>4. CASE lockFile[r] = "stale"
  <2>1. Locked("fresh")' = Locked("fresh")
    BY <1>2, <1>4 DEF Locked
  <2>2. Fewer(Locked("stale")', Locked("stale"))
    BY <1>2, <1>4 DEF Fewer, Locked
  <2>3. lockFile' # lockFile
    BY <1>2, <1>4
  <2> QED  BY <1>1, <2>1, <2>2, <2>3 DEF LessIsLeft, LocksLess
<1>5. CASE lockFile[r] = "free"
  <2>1. lockFile' = lockFile
    BY <1>5 DEF TypeInv
  <2> QED  BY <1>5, <2>1, OneStepLess
<1> QED  BY <1>3, <1>4, <1>5 DEF TypeInv

LEMMA PhaseLess ==
  ASSUME TypeInv, NEW p \in Processes, NEW to \in Phases,
         phase' = [phase EXCEPT ![p] = to], PhasesLeft(p)' < PhasesLeft(p),
         to \in Ended \/ call' = call,
         \A q \in Processes : q # p => call'[q] = call[q],
         lockFile' = lockFile
  PROVE  LessIsLeft
<1>1. phase'[p] = to /\ \A q \in Processes : q # p => phase'[q] = phase[q]
  BY DEF TypeInv
<1>2. phase[p] \notin Ended
  <2>1. phase[p] \in Phases /\ to \in Phases
    BY DEF TypeInv
  <2> QED  BY <1>1, <2>1 DEF PhasesLeft, Ended, Phases, Publishing
<1>3. \A q \in Processes, s \in Requests :
        phase'[q] \notin Ended /\ call'[q][s].step \in BeforeTheLock
          => phase[q] \notin Ended /\ call[q][s].step \in BeforeTheLock
  BY <1>1, <1>2
<1>4. Unserved' \subseteq Unserved
  BY <1>3 DEF Unserved
<1>5. \A q \in Processes : q # p => PhasesLeft(q)' = PhasesLeft(q) /\ PhasesLeft(q) \in Nat
  <2>1. \A q \in Processes : phase[q] \in Phases
    BY DEF TypeInv
  <2> QED  BY <1>1, <2>1 DEF PhasesLeft, Phases, Publishing, Ended
<1>6. PhasesLeft(p) \in Nat /\ PhasesLeft(p)' \in Nat
  <2>1. phase[p] \in Phases /\ to \in Phases
    BY DEF TypeInv
  <2> QED  BY <1>1, <2>1 DEF PhasesLeft, Phases, Publishing, Ended
<1>7. APhaseLess
  <2>1. \A q \in Processes : PhasesLeft(q)' <= PhasesLeft(q)
    BY <1>5, <1>6
  <2> QED  BY <2>1 DEF APhaseLess
<1>8. phase' # phase
  <2>1. phase' = phase => PhasesLeft(p)' = PhasesLeft(p)
    BY DEF PhasesLeft
  <2> QED  BY <2>1, <1>6
<1> QED  BY <1>4, <1>7, <1>8 DEF LessIsLeft

-----------------------------------------------------------------------------

LEMMA InitTries == Init => TriesInv
BY DEF Init, CallsInit, TriesInv, Queued

(* What complete() does, step by step. *)
LEMMA GoBecomes ==
  ASSUME TypeInv, TriesInv, NEW p \in Processes, NEW r \in Requests,
         NEW step \in Steps, Go(p, r, step),
         call[p][r].step # "send", step # "send"
  PROVE  /\ Gone(p, r, step) \in CallType
         /\ Gone(p, r, step).step = step
         /\ Becomes(p, r, Gone(p, r, step))
<1>1. /\ Gone(p, r, step) \in CallType
      /\ call' = [call EXCEPT ![p][r] = Gone(p, r, step)]
  BY GoIs
<1> QED  BY <1>1 DEF Becomes, Gone, TriesInv

LEMMA FinishBecomes ==
  ASSUME NEW p \in Processes, NEW r \in Requests, NEW step \in Steps \ {"send"},
         NEW result \in Results, Finish(p, r, step, result)
  PROVE  /\ Finished(step, result) \in CallType
         /\ Finished(step, result).step = step
         /\ Becomes(p, r, Finished(step, result))
<1>1. /\ Finished(step, result) \in CallType
      /\ call' = [call EXCEPT ![p][r] = Finished(step, result)]
  BY FinishIs
<1> QED  BY <1>1 DEF Becomes, Finished

(* The step that comes after another. *)
Ahead(old, new) ==
  \/ old = "queued" /\ new = "lookup"
  \/ old = "lookup" /\ new \in {"quarantine", "lock", "done"}
  \/ old = "quarantine" /\ new \in {"lock", "done"}
  \/ old = "lock" /\ new \in {"recheck", "unlink", "done"}
  \/ old = "unlink" /\ new = "lock"
  \/ old = "recheck" /\ new \in {"requarantine", "reserve", "release"}
  \/ old = "requarantine" /\ new = "reserve"
  \/ old = "reserve" /\ new \in {"send", "release"}
  \/ old = "send" /\ new \in {"store", "release"}
  \/ old = "store" /\ new = "release"
  \/ old = "release" /\ new = "done"

LEMMA MovesOn ==
  ASSUME TypeInv, TriesInv, NEW p \in Processes, NEW r \in Requests,
         phase[p] \notin Ended, phase' = phase,
         NEW c \in CallType, Becomes(p, r, c), Ahead(call[p][r].step, c.step),
         \/ /\ lockFile' = lockFile
            /\ call[p][r].step # "unlink"
            /\ c.step = "unlink" => lockFile[r] = "stale"
         \/ c.step = "recheck"
         \/ /\ lockFile' = [lockFile EXCEPT ![r] = "free"]
            /\ call[p][r].step \in {"unlink", "release"}
  PROVE  LessIsLeft /\ TriesInv'
<1> DEFINE old == call[p][r]
<1>1. TriesInv'
  BY BecomesTries
<1>2. CASE old.step \in BeforeTheLock /\ c.step \notin BeforeTheLock
  BY <1>1, <1>2, Served
<1>3. CASE old.step \in BeforeTheLock <=> c.step \in BeforeTheLock
  <2>1. /\ old.step \in Steps /\ c.step \in Steps /\ MaxAttempts \in Nat
        /\ old.tries \in Nat /\ c.tries \in Nat
        /\ old.step = "send" => old.tries < MaxAttempts
        /\ c.step = "send" => c.tries < MaxAttempts
    BY ProviderAssumption DEF TypeInv, CallType, TriesInv, Becomes
  <2>2. CASE /\ lockFile' = lockFile
             /\ old.step # "unlink"
             /\ c.step = "unlink" => lockFile[r] = "stale"
    <3>1. StepsFrom(c, lockFile[r]) < StepsFrom(old, lockFile[r])
      BY <2>1, <2>2 DEF StepsFrom, Ahead, Steps
    <3> QED  BY <1>1, <1>3, <2>2, <3>1, OneStepLess
  <2>3. CASE /\ lockFile' = [lockFile EXCEPT ![r] = "free"]
             /\ old.step \in {"unlink", "release"}
    <3>1. StepsFrom(c, "free") < StepsFrom(old, "free")
      BY <2>1, <2>3 DEF StepsFrom, Ahead, Steps
    <3> QED  BY <1>1, <1>3, <2>3, <3>1, Freed
  <2>4. c.step # "recheck"
    BY <1>3 DEF Ahead, BeforeTheLock
  <2> QED  BY <2>2, <2>3, <2>4
<1>4. old.step \notin BeforeTheLock => c.step \notin BeforeTheLock
  BY DEF Ahead, BeforeTheLock
<1> QED  BY <1>2, <1>3, <1>4

(* A transient failure that is tried again. *)
LEMMA TriesAgain ==
  ASSUME TypeInv, TriesInv, NEW p \in Processes, NEW r \in Requests,
         phase' = phase, lockFile' = lockFile, call[p][r].step = "send",
         call[p][r].tries + 1 < MaxAttempts, call' = [call EXCEPT ![p][r].tries = @ + 1]
  PROVE  LessIsLeft /\ TriesInv'
<1> DEFINE c == [call[p][r] EXCEPT !.tries = @ + 1]
<1>1. /\ call[p][r] \in CallType /\ MaxAttempts \in Nat
  BY ProviderAssumption DEF TypeInv
<1>2. /\ c \in CallType /\ c.step = "send" /\ c.tries = call[p][r].tries + 1
      /\ call[p][r].tries \in Nat
  BY <1>1 DEF CallType
<1>3. call' = [call EXCEPT ![p][r] = c]
  OBVIOUS
<1> HIDE DEF c
<1>4. Becomes(p, r, c)
  BY <1>2, <1>3 DEF Becomes
<1>5. StepsFrom(c, lockFile[r]) < StepsFrom(call[p][r], lockFile[r])
  BY <1>1, <1>2 DEF StepsFrom
<1>6. LessIsLeft
  BY <1>2, <1>4, <1>5, OneStepLess
<1> QED  BY <1>2, <1>4, <1>6, BecomesTries

LEMMA GoesOn ==
  ASSUME TypeInv, TriesInv, NEW p \in Processes, NEW r \in Requests,
         phase[p] \notin Ended, phase' = phase, lockFile' = lockFile,
         NEW step \in Steps \ {"send"}, Go(p, r, step), Ahead(call[p][r].step, step),
         call[p][r].step \notin {"send", "unlink"},
         step = "unlink" => lockFile[r] = "stale"
  PROVE  LessIsLeft /\ TriesInv'
<1>1. /\ Gone(p, r, step) \in CallType
      /\ Gone(p, r, step).step = step
      /\ Becomes(p, r, Gone(p, r, step))
  BY GoBecomes
<1> QED  BY <1>1, MovesOn

LEMMA FinishesOn ==
  ASSUME TypeInv, TriesInv, NEW p \in Processes, NEW r \in Requests,
         phase[p] \notin Ended, phase' = phase, lockFile' = lockFile,
         NEW step \in Steps \ {"send", "unlink"}, NEW result \in Results,
         Finish(p, r, step, result), Ahead(call[p][r].step, step),
         call[p][r].step # "unlink"
  PROVE  LessIsLeft /\ TriesInv'
<1>1. /\ Finished(step, result) \in CallType
      /\ Finished(step, result).step = step
      /\ Becomes(p, r, Finished(step, result))
  BY FinishBecomes
<1> QED  BY <1>1, MovesOn

LEMMA CompleteLess ==
  ASSUME TypeInv, TriesInv, NEW p \in Processes, NEW r \in Requests,
         phase[p] \notin Ended, UNCHANGED runVars, Complete(p, r, p \in replays)
  PROVE  LessIsLeft /\ TriesInv'
<1>1. phase' = phase
  BY DEF runVars
<1>2. /\ Steps \ {"send"} = {"queued", "lookup", "quarantine", "lock", "unlink", "recheck",
                             "requarantine", "reserve", "store", "release", "done"}
      /\ "ERROR" \in Results /\ "FATAL" \in Results /\ Labels \subseteq Results
  BY DEF Steps, Results
<1>3. CASE \/ FirstRead(p, r, p \in replays) \/ FirstQuarantine(p, r, p \in replays)
           \/ SecondRead(p, r) \/ SecondQuarantine(p, r) \/ LockTimesOut(p, r)
  <2>1. lockFile' = lockFile /\ call[p][r].step \notin {"send", "unlink"}
    BY <1>3 DEF FirstRead, FirstQuarantine, SecondRead, SecondQuarantine, LockTimesOut,
                Read, Quarantine, At, sharedVars
  <2>2. \/ \E step \in Steps \ {"send", "unlink"} :
             Ahead(call[p][r].step, step) /\ Go(p, r, step)
        \/ \E step \in Steps \ {"send", "unlink"}, result \in Results :
             Ahead(call[p][r].step, step) /\ Finish(p, r, step, result)
    BY <1>2, <1>3 DEF FirstRead, FirstQuarantine, SecondRead, SecondQuarantine,
                      LockTimesOut, Read, Quarantine, Missed, At, Ahead
  <2>3. CASE \E step \in Steps \ {"send", "unlink"} :
               Ahead(call[p][r].step, step) /\ Go(p, r, step)
    BY <1>1, <2>1, <2>3, GoesOn
  <2>4. CASE \E step \in Steps \ {"send", "unlink"}, result \in Results :
               Ahead(call[p][r].step, step) /\ Finish(p, r, step, result)
    BY <1>1, <2>1, <2>4, FinishesOn
  <2> QED  BY <2>2, <2>3, <2>4
<1>4. CASE Lock(p, r)
  <2>1. CASE SetLock(r, "fresh") /\ Go(p, r, "recheck")
    <3>1. /\ Gone(p, r, "recheck") \in CallType
          /\ Gone(p, r, "recheck").step = "recheck"
          /\ Becomes(p, r, Gone(p, r, "recheck"))
      BY <1>2, <1>4, <2>1, GoBecomes DEF Lock, At
    <3> QED  BY <1>1, <1>4, <3>1, MovesOn DEF Lock, At, Ahead
  <2>2. CASE lockFile[r] = "stale" /\ Go(p, r, "unlink") /\ lockFile' = lockFile
    BY <1>1, <1>2, <1>4, <2>2, GoesOn DEF Lock, At, Ahead
  <2> QED  BY <1>4, <2>1, <2>2 DEF Lock
<1>5. CASE UnlinkStale(p, r) \/ Release(p, r)
  <2>1. PICK step \in {"lock", "done"} :
          /\ Go(p, r, step) /\ Ahead(call[p][r].step, step)
          /\ lockFile' = [lockFile EXCEPT ![r] = "free"]
          /\ call[p][r].step \in {"unlink", "release"}
    BY <1>5 DEF UnlinkStale, Release, SetLock, At, Ahead
  <2>2. /\ Gone(p, r, step) \in CallType
        /\ Gone(p, r, step).step = step
        /\ Becomes(p, r, Gone(p, r, step))
    BY <1>2, <2>1, GoBecomes
  <2> QED  BY <1>1, <2>1, <2>2, MovesOn
<1>6. CASE Reserve(p, r)
  <2>1. lockFile' = lockFile /\ call[p][r].step = "reserve"
    BY <1>6 DEF Reserve, sharedVars, At
  <2>2. CASE Finish(p, r, "release", "FATAL")
    BY <1>1, <1>2, <2>1, <2>2, FinishesOn DEF Ahead
  <2>3. CASE Go(p, r, "send")
    <3>1. "send" \in Steps /\ call[p][r].tries = 0
          /\ MaxAttempts \in Nat /\ 0 < MaxAttempts
      BY <2>1, ProviderAssumption DEF Steps, TriesInv
    <3>2. /\ Gone(p, r, "send") \in CallType
          /\ call' = [call EXCEPT ![p][r] = Gone(p, r, "send")]
      BY <2>3, <3>1, GoIs
    <3>3. Gone(p, r, "send").step = "send" /\ Becomes(p, r, Gone(p, r, "send"))
      BY <3>1, <3>2 DEF Gone, Becomes
    <3> QED  BY <1>1, <2>1, <3>2, <3>3, MovesOn DEF Ahead
  <2> QED  BY <1>6, <2>2, <2>3 DEF Reserve
<1>7. CASE Attempt(p, r)
  <2>1. lockFile' = lockFile /\ call[p][r].step = "send"
    BY <1>7 DEF Attempt, sharedVars, At
  <2>2. \/ \E result \in {"ERROR", "FATAL"} : Finish(p, r, "release", result)
        \/ \E a \in Labels : Finish(p, r, "store", a)
        \/ /\ call[p][r].tries + 1 < MaxAttempts
           /\ call' = [call EXCEPT ![p][r].tries = @ + 1]
    BY <1>7 DEF Attempt, Fails, Answers
  <2>3. CASE \/ \E result \in {"ERROR", "FATAL"} : Finish(p, r, "release", result)
             \/ \E a \in Labels : Finish(p, r, "store", a)
    BY <1>1, <1>2, <2>1, <2>3, FinishesOn DEF Ahead
  <2> QED  BY <1>1, <2>1, <2>2, <2>3, TriesAgain
<1>8. CASE Store(p, r)
  <2>1. lockFile' = lockFile /\ call[p][r].step = "store"
    BY <1>8 DEF Store, At
  <2>2. \/ Go(p, r, "release")
        \/ \E result \in {"ERROR", "FATAL"} : Finish(p, r, "release", result)
    BY <1>8 DEF Store
  <2>3. CASE Go(p, r, "release")
    BY <1>1, <1>2, <2>1, <2>3, GoesOn DEF Ahead
  <2>4. CASE \E result \in {"ERROR", "FATAL"} : Finish(p, r, "release", result)
    BY <1>1, <1>2, <2>1, <2>4, FinishesOn DEF Ahead
  <2> QED  BY <2>2, <2>3, <2>4
<1> QED  BY <1>3, <1>4, <1>5, <1>6, <1>7, <1>8 DEF Complete

LEMMA TakeLess ==
  ASSUME TypeInv, TriesInv, NEW p \in Processes, Take(p)
  PROVE  LessIsLeft /\ TriesInv'
<1>1. PICK r \in Waiting(p) : Go(p, r, "lookup")
  BY DEF Take
<1>2. /\ r \in Requests /\ call[p][r].step = "queued" /\ "lookup" \in Steps \ {"send"}
      /\ phase[p] \notin Ended /\ phase' = phase /\ lockFile' = lockFile
  BY DEF Take, Waiting, At, Steps, Ended, runVars, sharedVars
<1> QED  BY <1>1, <1>2, GoesOn DEF Ahead

(* A phase that is over: the run goes on, ends, or is killed. *)
LEMMA PassageLess ==
  ASSUME TypeInv, TriesInv, NEW p \in Processes,
         \/ Plan(p) \/ Begin(p) \/ Abort(p) \/ Collect(p) \/ Write(p) \/ Publish(p)
         \/ Drained(p) \/ WriteFails(p) \/ Crash(p)
  PROVE  LessIsLeft /\ TriesInv'
<1>1. CASE Plan(p) \/ Begin(p) \/ Abort(p) \/ Collect(p) \/ Write(p) \/ Publish(p)
  <2>1. call' = call /\ lockFile' = lockFile
    BY <1>1 DEF Plan, Begin, Abort, Collect, Write, Publish, callVars, sharedVars
  <2>2. PICK to \in Phases :
          /\ phase' = [phase EXCEPT ![p] = to]
          /\ \/ phase[p] = "start" /\ to \in {"refused", "planned"}
             \/ phase[p] = "planned" /\ to = "predicting"
             \/ phase[p] = "predicting" /\ to \in {"draining", "predictions"}
             \/ phase[p] = "predictions" /\ to = "metrics"
             \/ phase[p] = "metrics" /\ to = "manifest"
             \/ phase[p] = "manifest" /\ to = "rename"
             \/ phase[p] = "rename" /\ to = "published"
    BY <1>1 DEF Plan, Begin, Abort, Collect, Write, Publish, Enter, Phases, Publishing
  <2>3. phase'[p] = to
    BY <2>2 DEF TypeInv
  <2>4. PhasesLeft(p)' < PhasesLeft(p)
    BY <2>2, <2>3 DEF PhasesLeft, Ended
  <2>5. LessIsLeft
    BY <2>1, <2>2, <2>4, PhaseLess
  <2> QED  BY <2>1, <2>5 DEF TriesInv
<1>2. CASE Drained(p) \/ WriteFails(p) \/ Crash(p)
  <2>1. /\ lockFile' = lockFile /\ Forget(p)
        /\ phase[p] \in {"predicting", "draining"} \cup Publishing
    BY <1>2 DEF Drained, WriteFails, Crash, Fail, sharedVars
  <2>2. PICK to \in {"failed", "crashed"} : phase' = [phase EXCEPT ![p] = to]
    BY <1>2 DEF Drained, WriteFails, Crash, Fail, Enter
  <2>3. /\ \A q \in Processes : q # p => call'[q] = call[q]
        /\ \A r \in Requests : call'[p][r] = Queued
    BY <2>1 DEF Forget, TypeInv
  <2>4. phase'[p] = to /\ to \in Phases /\ to \in Ended
    BY <2>2 DEF TypeInv, Phases, Ended
  <2>5. PhasesLeft(p)' < PhasesLeft(p)
    BY <2>1, <2>4 DEF PhasesLeft, Ended, Publishing
  <2>6. LessIsLeft
    BY <2>1, <2>2, <2>3, <2>4, <2>5, PhaseLess
  <2>7. TriesInv'
    BY <2>3 DEF TriesInv, Queued
  <2> QED  BY <2>6, <2>7
<1> QED  BY <1>1, <1>2

LEMMA AgeLess ==
  ASSUME TypeInv, TriesInv, NEW r \in Requests, Age(r), UNCHANGED runVars
  PROVE  LessIsLeft /\ TriesInv'
<1>1. /\ phase' = phase /\ call' = call /\ lockFile[r] = "fresh"
      /\ lockFile' = [lockFile EXCEPT ![r] = "stale"]
  BY DEF Age, SetLock, runVars
<1>2. Fewer(Locked("fresh")', Locked("fresh"))
  BY <1>1 DEF TypeInv, Fewer, Locked
<1>3. Unserved' = Unserved
  BY <1>1 DEF Unserved
<1>4. lockFile' # lockFile
  BY <1>1 DEF TypeInv
<1> QED  BY <1>1, <1>2, <1>3, <1>4 DEF LessIsLeft, LocksLess, TriesInv

LEMMA NextLess ==
  TypeInv /\ TriesInv /\ [Next]_vars => TriesInv' /\ [LessIsLeft]_vars
<1> SUFFICES ASSUME TypeInv, TriesInv, [Next]_vars
             PROVE  TriesInv' /\ (LessIsLeft \/ UNCHANGED vars)
  OBVIOUS
<1>1. ASSUME NEW p \in Processes, Predict(p)
      PROVE  LessIsLeft /\ TriesInv'
  <2>1. phase[p] \notin Ended /\ UNCHANGED runVars
    BY <1>1 DEF Predict, Ended
  <2> QED  BY <1>1, <2>1, CompleteLess DEF Predict
<1>2. ASSUME NEW p \in Processes, RunStep(p) \/ WriteFails(p) \/ Crash(p)
      PROVE  LessIsLeft /\ TriesInv'
  BY <1>1, <1>2, TakeLess, PassageLess DEF RunStep
<1>3. CASE UNCHANGED vars
  <2>1. call' = call
    BY <1>3 DEF vars, callVars
  <2> QED  BY <1>3, <2>1 DEF TriesInv
<1> QED  BY <1>2, <1>3, AgeLess DEF Next, Over

LEMMA TriesInvariant == Spec => []TriesInv
<1>1. BInv => TypeInv
  BY DEF BInv
<1> QED  BY <1>1, InitTries, NextLess, BaselineInvariant, PTL DEF Spec

(* Whatever the processes do to each other's locks, and however their      *)
(* calls fail and are retried, every step leaves less to do, so there are  *)
(* only finitely many (ResponseCache.lock in cache.py, the attempts of     *)
(* CachedProvider.complete, EvaluationRunner.run).                         *)
THEOREM NothingLastsForEver == Spec => EveryStepLeavesLess
<1>1. BInv => TypeInv
  BY DEF BInv
<1> QED  BY <1>1, NextLess, TriesInvariant, BaselineInvariant, PTL
         DEF Spec, EveryStepLeavesLess
=============================================================================
