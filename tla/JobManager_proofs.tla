--------------------------- MODULE JobManager_proofs ---------------------------
(***************************************************************************)
(* Proofs about the job manager, for any number of submissions, any size   *)
(* of the queue and any retention that __init__ accepts.                   *)
(***************************************************************************)
EXTENDS JobManager, FiniteSetTheorems, SequenceTheorems, WellFoundedInduction, TLAPS

Workers == {"none", "look", "asleep", "run", "close", "ending", "dead"}

JobType == [status : Statuses, stage : {"none", "reached", "FINAL_DECISION"},
            cancel : BOOLEAN, end : Nat, result : BOOLEAN]

TypeInv ==
  /\ submitted \in Nat /\ submitted <= MaxRuns
  /\ ended \in Nat
  /\ worker \in Workers
  /\ jobs \in [DOMAIN jobs -> JobType]
  /\ DOMAIN jobs \subseteq 1..submitted
  /\ queue \in Seq(1..submitted)

(* What a status says about the flags of a job. *)
FlagsAgree ==
  \A r \in DOMAIN jobs :
    /\ jobs[r].result => jobs[r].status = "COMPLETED"
    /\ jobs[r].status \in {"QUEUED", "RUNNING"} => ~jobs[r].cancel
    /\ jobs[r].status = "CANCEL_REQUESTED" => jobs[r].cancel

QueueInOrder ==
  /\ \A r \in IsIn(jobs, {"QUEUED"}) : \E k \in 1..Len(queue) : queue[k] = r
  /\ \A k, n \in 1..Len(queue) : k < n => queue[k] < queue[n]
  /\ \A k \in 1..Len(queue) :
       /\ queue[k] \in DOMAIN jobs => jobs[queue[k]].status \in {"QUEUED", "CANCELLED"}
       /\ worker = "run" => current < queue[k]

JInv == TypeInv /\ FlagsAgree /\ ActiveIsCurrent /\ QueueInOrder

Counts ==
  /\ Cardinality(IsIn(jobs, {"QUEUED"})) <= MaxQueued
  /\ Cardinality(DOMAIN jobs) <= MaxRetained + 1

(* What a step may do to the jobs. *)
OnlyDocumentedMoves ==
  /\ \A r \in DOMAIN jobs \ DOMAIN jobs' : jobs[r].status \in Terminal
  /\ \A r \in DOMAIN jobs \cap DOMAIN jobs' :
       jobs'[r].status # jobs[r].status
         => <<jobs[r].status, jobs'[r].status>> \in Resource!Moves

NoneIsNew == submitted' = submitted /\ DOMAIN jobs' \subseteq DOMAIN jobs

OneIsNew ==
  /\ submitted' = submitted + 1
  /\ submitted' \in DOMAIN jobs'
  /\ DOMAIN jobs' \subseteq DOMAIN jobs \cup {submitted'}
  /\ jobs'[submitted'].status = "QUEUED"

CancelKept ==
  \A r \in DOMAIN jobs \cap DOMAIN jobs' :
    jobs[r].cancel /\ ~jobs[r].result => ~jobs'[r].result

StepOK == JInv' /\ OnlyDocumentedMoves /\ (NoneIsNew \/ OneIsNew) /\ CancelKept

-----------------------------------------------------------------------------

(* Pruning keeps what has not ended, as it is. *)
LEMMA PruningKeepsJobs ==
  /\ Kept \subseteq DOMAIN jobs
  /\ \A r \in DOMAIN jobs : jobs[r].status \notin Terminal => r \in Kept
  /\ Pruned = [r \in Kept |-> jobs[r]]
BY DEF Kept, Unexpired, Excess, IsIn, Pruned, Only

LEMMA InitJobs == Init => JInv
BY SettingsAssumption DEF Init, JInv, TypeInv, FlagsAgree, ActiveIsCurrent, QueueInOrder, IsIn,
                          Workers

(* A step that only prunes. *)
LEMMA PruneIsOK ==
  ASSUME JInv, jobs' = Pruned, UNCHANGED <<submitted, queue, current>>,
         ended' = ended, worker' = worker
  PROVE  StepOK
<1>1. /\ DOMAIN jobs' \subseteq DOMAIN jobs
      /\ \A r \in DOMAIN jobs' : jobs'[r] = jobs[r]
      /\ jobs' = [r \in DOMAIN jobs' |-> jobs[r]]
      /\ \A r \in DOMAIN jobs \ DOMAIN jobs' : jobs[r].status \in Terminal
  BY PruningKeepsJobs
<1>2. IsIn(jobs, {"QUEUED"})' = IsIn(jobs, {"QUEUED"})
  BY <1>1 DEF IsIn, Terminal
<1>3. IsIn(jobs, {"RUNNING", "CANCEL_REQUESTED"})' = IsIn(jobs, {"RUNNING", "CANCEL_REQUESTED"})
  BY <1>1 DEF IsIn, Terminal
<1>4. TypeInv'
  BY <1>1 DEF JInv, TypeInv
<1>5. FlagsAgree'
  BY <1>1 DEF JInv, FlagsAgree
<1>6. ActiveIsCurrent'
  BY <1>3 DEF JInv, ActiveIsCurrent
<1>7. QueueInOrder'
  BY <1>1, <1>2 DEF JInv, QueueInOrder
<1> QED  BY <1>1, <1>4, <1>5, <1>6, <1>7
         DEF JInv, StepOK, OnlyDocumentedMoves, NoneIsNew, CancelKept

(* One job changes, and perhaps some that have ended are forgotten. *)
OneJobChanges(r) ==
  /\ r \in DOMAIN jobs'
  /\ DOMAIN jobs' \subseteq DOMAIN jobs
  /\ \A u \in DOMAIN jobs : jobs[u].status \notin Terminal => u \in DOMAIN jobs'
  /\ jobs' = [u \in DOMAIN jobs' |-> IF u = r THEN jobs'[r] ELSE jobs[u]]
  /\ jobs'[r] \in JobType
  /\ jobs'[r].result => jobs'[r].status = "COMPLETED"
  /\ jobs'[r].status \in {"QUEUED", "RUNNING"} => ~jobs'[r].cancel
  /\ jobs'[r].status = "CANCEL_REQUESTED" => jobs'[r].cancel
  /\ jobs'[r].status # jobs[r].status
       => <<jobs[r].status, jobs'[r].status>> \in Resource!Moves
  /\ jobs[r].cancel /\ ~jobs[r].result => ~jobs'[r].result

LEMMA OneJob ==
  ASSUME JInv, NEW r \in DOMAIN jobs, OneJobChanges(r),
         submitted' = submitted, ended' \in Nat, worker' \in Workers,
         queue' \in Seq(1..submitted), ActiveIsCurrent', QueueInOrder'
  PROVE  StepOK
<1> USE DEF OneJobChanges
<1>1. TypeInv'
  BY DEF JInv, TypeInv
<1>2. FlagsAgree'
  BY DEF JInv, FlagsAgree
<1>3. OnlyDocumentedMoves /\ CancelKept
  BY DEF OnlyDocumentedMoves, CancelKept
<1> QED  BY <1>1, <1>2, <1>3 DEF JInv, StepOK, NoneIsNew

LEMMA GetIsOK == JInv /\ Get => StepOK
BY PruneIsOK DEF Get

LEMMA CancelIsOK ==
  ASSUME JInv, NEW r \in Kept, Cancel(r)
  PROVE  StepOK
<1>1. /\ r \in DOMAIN jobs /\ Kept \subseteq DOMAIN jobs
      /\ Pruned = [u \in Kept |-> jobs[u]]
      /\ \A u \in DOMAIN jobs : jobs[u].status \notin Terminal => u \in Kept
      /\ jobs[r] \in JobType /\ ended \in Nat
  BY PruningKeepsJobs DEF JInv, TypeInv
<1>2. CASE jobs[r].status = "QUEUED"
  <2>1. /\ ended' = ended + 1
        /\ jobs' = [Pruned EXCEPT
             ![r] = [EndOf(jobs[r], "CANCELLED", ended') EXCEPT !.cancel = TRUE]]
        /\ UNCHANGED <<queue, submitted, worker, current>>
    BY <1>2 DEF Cancel
  <2>2. jobs'[r] = [EndOf(jobs[r], "CANCELLED", ended') EXCEPT !.cancel = TRUE]
    BY <1>1, <2>1
  <2>3. /\ jobs'[r] \in JobType /\ jobs'[r].status = "CANCELLED"
        /\ ~jobs'[r].result /\ jobs'[r].cancel
    <3> DEFINE e == EndOf(jobs[r], "CANCELLED", ended')
    <3>1. ended' \in Nat
      BY <1>1, <2>1
    <3>2. /\ e \in JobType /\ e.status = "CANCELLED" /\ e.result = FALSE
      <4>1. ("CANCELLED" = "COMPLETED") = FALSE
        OBVIOUS
      <4>2. e = [jobs[r] EXCEPT !.status = "CANCELLED", !.end = ended',
                                !.result = ("CANCELLED" = "COMPLETED")]
        BY DEF EndOf
      <4> HIDE DEF e
      <4> QED  BY <1>1, <3>1, <4>1, <4>2 DEF JobType, Statuses, Terminal
    <3>3. jobs'[r] = [e EXCEPT !.cancel = TRUE]
      BY <2>2
    <3> HIDE DEF e
    <3> QED  BY <3>2, <3>3 DEF JobType
  <2>4. /\ DOMAIN jobs' = Kept
        /\ jobs' = [u \in Kept |-> IF u = r THEN jobs'[r] ELSE jobs[u]]
    BY <1>1, <2>1
  <2>5. OneJobChanges(r)
    BY <1>1, <1>2, <2>3, <2>4 DEF OneJobChanges, Resource!Moves
  <2>6. ActiveIsCurrent'
    <3>1. IsIn(jobs, {"RUNNING", "CANCEL_REQUESTED"})'
            = IsIn(jobs, {"RUNNING", "CANCEL_REQUESTED"})
      BY <1>1, <1>2, <2>3, <2>4 DEF IsIn, Terminal
    <3> QED  BY <3>1, <2>1 DEF JInv, ActiveIsCurrent
  <2>7. QueueInOrder'
    <3>1. IsIn(jobs, {"QUEUED"})' \subseteq IsIn(jobs, {"QUEUED"})
      BY <1>1, <2>3, <2>4 DEF IsIn
    <3> QED  BY <3>1, <2>1, <2>3, <2>4, <1>1 DEF JInv, QueueInOrder
  <2> QED  BY <1>1, <2>1, <2>5, <2>6, <2>7, OneJob DEF JInv, TypeInv
<1>3. CASE jobs[r].status = "RUNNING"
  <2>1. /\ ended' = ended
        /\ jobs' = [Pruned EXCEPT ![r].status = "CANCEL_REQUESTED", ![r].cancel = TRUE]
        /\ UNCHANGED <<queue, submitted, worker, current>>
    BY <1>3 DEF Cancel
  <2>2. jobs'[r] = [jobs[r] EXCEPT !.status = "CANCEL_REQUESTED", !.cancel = TRUE]
    BY <1>1, <2>1
  <2>3. /\ jobs'[r] \in JobType /\ jobs'[r].status = "CANCEL_REQUESTED"
        /\ jobs'[r].result = jobs[r].result /\ jobs'[r].cancel
    BY <1>1, <2>2 DEF JobType, Statuses, Terminal
  <2>4. /\ DOMAIN jobs' = Kept
        /\ jobs' = [u \in Kept |-> IF u = r THEN jobs'[r] ELSE jobs[u]]
    BY <1>1, <2>1
  <2>5. ~jobs[r].result
    BY <1>1, <1>3 DEF JInv, FlagsAgree
  <2>6. OneJobChanges(r)
    BY <1>1, <1>3, <2>3, <2>4, <2>5 DEF OneJobChanges, Resource!Moves
  <2>7. ActiveIsCurrent'
    <3>1. IsIn(jobs, {"RUNNING", "CANCEL_REQUESTED"})'
            = IsIn(jobs, {"RUNNING", "CANCEL_REQUESTED"})
      BY <1>1, <1>3, <2>3, <2>4 DEF IsIn, Terminal
    <3> QED  BY <3>1, <2>1 DEF JInv, ActiveIsCurrent
  <2>8. QueueInOrder'
    <3>1. IsIn(jobs, {"QUEUED"})' \subseteq IsIn(jobs, {"QUEUED"})
      BY <1>1, <2>3, <2>4 DEF IsIn
    <3>2. \A k \in 1..Len(queue) : queue[k] # r
      BY <1>1, <1>3 DEF JInv, QueueInOrder
    <3> QED  BY <3>1, <3>2, <2>1, <2>4, <1>1 DEF JInv, QueueInOrder
  <2> QED  BY <1>1, <2>1, <2>6, <2>7, <2>8, OneJob DEF JInv, TypeInv
<1>4. CASE jobs[r].status \notin {"QUEUED", "RUNNING"}
  BY <1>4, PruneIsOK DEF Cancel
<1> QED  BY <1>2, <1>3, <1>4

(* The worker. *)
LEMMA StageIsOK == JInv /\ Stage => StepOK
<1> SUFFICES ASSUME JInv, Stage  PROVE StepOK
  OBVIOUS
<1>1. /\ current \in DOMAIN jobs /\ jobs[current].status \in {"RUNNING", "CANCEL_REQUESTED"}
      /\ jobs[current] \in JobType
      /\ jobs' = [jobs EXCEPT ![current].stage = "reached"]
      /\ UNCHANGED <<submitted, ended, worker, queue, current>>
  BY DEF Stage, JInv, ActiveIsCurrent, IsIn, TypeInv
<1>2. /\ DOMAIN jobs' = DOMAIN jobs
      /\ jobs'[current] = [jobs[current] EXCEPT !.stage = "reached"]
      /\ jobs' = [u \in DOMAIN jobs |-> IF u = current THEN jobs'[current] ELSE jobs[u]]
  BY <1>1 DEF JInv, TypeInv
<1>3. /\ jobs'[current] \in JobType
      /\ jobs'[current].status = jobs[current].status
      /\ jobs'[current].result = jobs[current].result
      /\ jobs'[current].cancel = jobs[current].cancel
  BY <1>1, <1>2 DEF JobType
<1>4. OneJobChanges(current)
  BY <1>1, <1>2, <1>3 DEF OneJobChanges, JInv, FlagsAgree
<1>5. \A S : IsIn(jobs, S)' = IsIn(jobs, S)
  BY <1>2, <1>3 DEF IsIn
<1>6. ActiveIsCurrent'
  BY <1>1, <1>5 DEF JInv, ActiveIsCurrent
<1>7. QueueInOrder'
  <2>1. QueueInOrder
    BY DEF JInv
  <2>2. /\ queue' = queue /\ worker' = worker /\ current' = current
        /\ IsIn(jobs, {"QUEUED"})' = IsIn(jobs, {"QUEUED"})
    BY <1>1, <1>5
  <2>3. \A u \in DOMAIN jobs : u \in DOMAIN jobs' /\ jobs'[u].status = jobs[u].status
    BY <1>2, <1>3
  <2> QED  BY <1>2, <2>1, <2>2, <2>3 DEF QueueInOrder
<1> QED  BY <1>1, <1>4, <1>6, <1>7, OneJob DEF JInv, TypeInv

LEMMA RunEnds ==
  ASSUME JInv, worker = "run", worker' = "close", ended' = ended + 1,
         NEW status \in Terminal,
         NEW stage \in {"none", "reached", "FINAL_DECISION"},
         jobs' = [jobs EXCEPT ![current] =
                    [EndOf(@, status, ended') EXCEPT !.stage = stage]],
         jobs[current].cancel => status # "COMPLETED",
         status = "CANCELLED" => jobs[current].cancel,
         UNCHANGED <<submitted, queue, current>>
  PROVE  StepOK
<1>1. /\ current \in DOMAIN jobs /\ jobs[current].status \in {"RUNNING", "CANCEL_REQUESTED"}
      /\ jobs[current] \in JobType /\ ended' \in Nat
      /\ IsIn(jobs, {"RUNNING", "CANCEL_REQUESTED"}) = {current}
  BY DEF JInv, ActiveIsCurrent, IsIn, TypeInv
<1>2. /\ DOMAIN jobs' = DOMAIN jobs
      /\ jobs'[current] = [EndOf(jobs[current], status, ended') EXCEPT !.stage = stage]
      /\ jobs' = [u \in DOMAIN jobs |-> IF u = current THEN jobs'[current] ELSE jobs[u]]
  BY <1>1 DEF JInv, TypeInv
<1>3. /\ jobs'[current] \in JobType
      /\ jobs'[current].status = status
      /\ jobs'[current].result = (status = "COMPLETED")
      /\ jobs'[current].cancel = jobs[current].cancel
  BY <1>1, <1>2 DEF JobType, EndOf, Statuses
<1>4. OneJobChanges(current)
  BY <1>1, <1>2, <1>3 DEF OneJobChanges, JInv, FlagsAgree, Terminal, Resource!Moves
<1>5. ActiveIsCurrent'
  <2>1. IsIn(jobs, {"RUNNING", "CANCEL_REQUESTED"})' = {}
    BY <1>1, <1>2, <1>3 DEF IsIn, Terminal
  <2> QED  BY <2>1 DEF ActiveIsCurrent
<1>6. QueueInOrder'
  <2>1. IsIn(jobs, {"QUEUED"})' \subseteq IsIn(jobs, {"QUEUED"})
    BY <1>2, <1>3 DEF IsIn, Terminal
  <2>2. \A k \in 1..Len(queue) : queue[k] # current
    BY <1>1 DEF JInv, QueueInOrder
  <2> QED  BY <2>1, <2>2, <1>2 DEF JInv, QueueInOrder
<1> QED  BY <1>1, <1>4, <1>5, <1>6, OneJob DEF JInv, TypeInv, Workers

LEMMA RunEndsIsOK == JInv /\ (PipelineReturns \/ PipelineStops \/ PipelineRaises) => StepOK
<1> SUFFICES ASSUME JInv, PipelineReturns \/ PipelineStops \/ PipelineRaises
             PROVE  StepOK
  OBVIOUS
<1>1. /\ worker = "run" /\ current \in DOMAIN jobs
      /\ jobs[current] \in JobType
      /\ jobs \in [DOMAIN jobs -> JobType]
  BY DEF PipelineReturns, PipelineStops, PipelineRaises, JInv, ActiveIsCurrent, IsIn, TypeInv
<1>2. CASE PipelineReturns
  <2>1. StatusOnReturn \in Terminal
    BY DEF StatusOnReturn, Terminal
  <2>2. /\ jobs[current].cancel => StatusOnReturn # "COMPLETED"
        /\ StatusOnReturn = "CANCELLED" => jobs[current].cancel
    BY DEF StatusOnReturn
  <2>3. /\ jobs' = [jobs EXCEPT ![current] =
                      [EndOf(@, StatusOnReturn, ended') EXCEPT !.stage = "FINAL_DECISION"]]
        /\ worker' = "close" /\ ended' = ended + 1
        /\ UNCHANGED <<submitted, queue, current>>
    BY <1>2 DEF PipelineReturns
  <2> QED  BY <1>1, <2>1, <2>2, <2>3, RunEnds
<1>3. ASSUME NEW status \in {"CANCELLED", "FAILED"}, End(status),
             status = "CANCELLED" => jobs[current].cancel
      PROVE  StepOK
  <2> DEFINE stage == jobs[current].stage
  <2>1. stage \in {"none", "reached", "FINAL_DECISION"}
    BY <1>1 DEF JobType
  <2>2. /\ jobs' = [jobs EXCEPT ![current] = EndOf(@, status, ended')]
        /\ worker' = "close" /\ ended' = ended + 1
        /\ UNCHANGED <<submitted, queue, current>>
    BY <1>3 DEF End
  <2>3. EndOf(jobs[current], status, ended')
          = [EndOf(jobs[current], status, ended') EXCEPT !.stage = stage]
    BY <1>1 DEF EndOf, JobType
  <2>4. jobs' = [jobs EXCEPT ![current] =
                   [EndOf(@, status, ended') EXCEPT !.stage = stage]]
    BY <1>1, <2>2, <2>3
  <2>5. status \in Terminal /\ status # "COMPLETED"
    BY DEF Terminal
  <2> HIDE DEF stage
  <2> QED  BY <1>1, <1>3, <2>1, <2>2, <2>4, <2>5, RunEnds
<1>4. CASE PipelineStops
  BY <1>3, <1>4 DEF PipelineStops
<1>5. CASE PipelineRaises
  BY <1>3, <1>5 DEF PipelineRaises
<1> QED  BY <1>2, <1>4, <1>5

LEMMA CloseIsOK == JInv /\ CloseRuntime => StepOK
<1> SUFFICES ASSUME JInv, CloseRuntime  PROVE StepOK
  OBVIOUS
<1>1. /\ worker = "close" /\ current' = 0 /\ worker' \in {"look", "ending"}
      /\ jobs' = Pruned \/ jobs' = jobs
      /\ UNCHANGED <<queue, submitted, ended>>
  BY DEF CloseRuntime
<1>2. /\ DOMAIN jobs' \subseteq DOMAIN jobs
      /\ \A r \in DOMAIN jobs' : jobs'[r] = jobs[r]
      /\ jobs' = [r \in DOMAIN jobs' |-> jobs[r]]
      /\ \A r \in DOMAIN jobs \ DOMAIN jobs' : jobs[r].status \in Terminal
  BY <1>1, PruningKeepsJobs DEF JInv, TypeInv
<1>3. /\ IsIn(jobs, {"QUEUED"})' = IsIn(jobs, {"QUEUED"})
      /\ IsIn(jobs, {"RUNNING", "CANCEL_REQUESTED"})'
           = IsIn(jobs, {"RUNNING", "CANCEL_REQUESTED"})
  BY <1>2 DEF IsIn, Terminal
<1>4. TypeInv'
  BY <1>1, <1>2 DEF JInv, TypeInv, Workers
<1>5. FlagsAgree'
  BY <1>2 DEF JInv, FlagsAgree
<1>6. ActiveIsCurrent'
  BY <1>1, <1>3 DEF JInv, ActiveIsCurrent
<1>7. QueueInOrder'
  BY <1>1, <1>2, <1>3 DEF JInv, QueueInOrder
<1> QED  BY <1>1, <1>2, <1>4, <1>5, <1>6, <1>7
         DEF JInv, StepOK, OnlyDocumentedMoves, NoneIsNew, CancelKept

LEMMA ElementOf ==
  ASSUME NEW S, NEW s \in Seq(S), NEW k \in 1..Len(s)
  PROVE  s[k] \in S
OBVIOUS

LEMMA WiderSeq ==
  ASSUME NEW S, NEW T, S \subseteq T, NEW s \in Seq(S)
  PROVE  s \in Seq(T)
OBVIOUS

(* The head leaves the queue. *)
LEMMA HeadLeaves ==
  ASSUME JInv, queue # <<>>
  PROVE  /\ Len(queue) \in Nat \ {0} /\ Head(queue) = queue[1]
         /\ Rest \in Seq(1..submitted) /\ Len(Rest) = Len(queue) - 1
         /\ \A k \in 1..Len(Rest) : Rest[k] = queue[k + 1]
BY DEF Rest, JInv, TypeInv

LEMMA LookIsOK == JInv /\ Look => StepOK
<1> SUFFICES ASSUME JInv, Look  PROVE StepOK
  OBVIOUS
<1>1. /\ worker = "look" /\ UNCHANGED <<submitted, ended>>
      /\ IsIn(jobs, {"RUNNING", "CANCEL_REQUESTED"}) = {}
  BY DEF Look, JInv, ActiveIsCurrent
<1>2. CASE queue = <<>>
  <2>1. worker' \in {"ending", "asleep"} /\ UNCHANGED <<jobs, queue, current>>
    BY <1>2 DEF Look
  <2>2. TypeInv' /\ FlagsAgree' /\ ActiveIsCurrent' /\ QueueInOrder'
    BY <1>1, <2>1 DEF JInv, TypeInv, FlagsAgree, ActiveIsCurrent, QueueInOrder, IsIn, Workers
  <2> QED  BY <1>1, <2>1, <2>2 DEF JInv, StepOK, OnlyDocumentedMoves, NoneIsNew, CancelKept
<1>3. CASE queue # <<>>
  <2> DEFINE r == Head(queue)
  <2>1. /\ Len(queue) \in Nat \ {0} /\ r = queue[1]
        /\ queue' \in Seq(1..submitted) /\ Len(queue') = Len(queue) - 1
        /\ \A k \in 1..Len(queue') : queue'[k] = queue[k + 1]
    BY <1>3, HeadLeaves DEF Look
  <2>2. \A k, n \in 1..Len(queue') : k < n => queue'[k] < queue'[n]
    <3>1. \A k \in 1..Len(queue') : k + 1 \in 1..Len(queue)
      BY <2>1
    <3>2. \A k, n \in 1..Len(queue) : k < n => queue[k] < queue[n]
      BY DEF JInv, QueueInOrder
    <3> QED  BY <2>1, <3>1, <3>2
  <2>3. \A k \in 1..Len(queue') : r < queue'[k]
    <3>1. \A k \in 1..Len(queue') : k + 1 \in 1..Len(queue) /\ 1 \in 1..Len(queue) /\ 1 < k + 1
      BY <2>1
    <3> QED  BY <2>1, <3>1 DEF JInv, QueueInOrder
  <2>4. \A u \in IsIn(jobs, {"QUEUED"}) : u # r => \E k \in 1..Len(queue') : queue'[k] = u
    <3> SUFFICES ASSUME NEW u \in IsIn(jobs, {"QUEUED"}), u # r
                 PROVE  \E k \in 1..Len(queue') : queue'[k] = u
      OBVIOUS
    <3>1. PICK k \in 1..Len(queue) : queue[k] = u
      BY DEF JInv, QueueInOrder
    <3>2. k # 1 /\ k - 1 \in 1..Len(queue') /\ (k - 1) + 1 = k
      BY <2>1, <3>1
    <3>3. queue'[k - 1] = queue[(k - 1) + 1]
      BY <2>1, <3>2
    <3> QED  BY <3>1, <3>2, <3>3
  <2>5. \A k \in 1..Len(queue') : queue'[k] \in DOMAIN jobs
            => jobs[queue'[k]].status \in {"QUEUED", "CANCELLED"}
    <3>1. \A k \in 1..Len(queue') : k + 1 \in 1..Len(queue)
      BY <2>1
    <3> QED  BY <2>1, <3>1 DEF JInv, QueueInOrder
  <2>6. CASE r \notin IsIn(jobs, Statuses \ {"CANCELLED"})
    <3>1. UNCHANGED <<jobs, worker, current>>
      BY <1>3, <2>6 DEF Look
    <3>2. r \notin IsIn(jobs, {"QUEUED"})
      BY <2>6 DEF IsIn, Statuses
    <3>3. QueueInOrder'
      BY <1>1, <2>2, <2>4, <2>5, <3>1, <3>2 DEF QueueInOrder, IsIn
    <3>4. TypeInv' /\ FlagsAgree' /\ ActiveIsCurrent'
      BY <1>1, <2>1, <3>1 DEF JInv, TypeInv, FlagsAgree, ActiveIsCurrent, IsIn
    <3> QED  BY <1>1, <3>1, <3>3, <3>4
             DEF JInv, StepOK, OnlyDocumentedMoves, NoneIsNew, CancelKept
  <2>7. CASE r \in IsIn(jobs, Statuses \ {"CANCELLED"})
    <3>1. /\ jobs' = [jobs EXCEPT ![r].status = "RUNNING"]
          /\ worker' = "run" /\ current' = r
      BY <1>3, <2>7 DEF Look
    <3>2. /\ r \in DOMAIN jobs /\ jobs[r] \in JobType
          /\ jobs[r].status # "CANCELLED" /\ jobs \in [DOMAIN jobs -> JobType]
      BY <2>7 DEF IsIn, JInv, TypeInv
    <3>3. jobs[r].status = "QUEUED"
      <4>1. 1 \in 1..Len(queue) /\ queue[1] = r
        BY <2>1
      <4> QED  BY <3>2, <4>1 DEF JInv, QueueInOrder
    <3> HIDE DEF r
    <3>4. /\ DOMAIN jobs' = DOMAIN jobs
          /\ jobs'[r] = [jobs[r] EXCEPT !.status = "RUNNING"]
          /\ jobs' = [u \in DOMAIN jobs |-> IF u = r THEN jobs'[r] ELSE jobs[u]]
      BY <3>1, <3>2
    <3>5. /\ jobs'[r] \in JobType
          /\ jobs'[r].status = "RUNNING"
          /\ jobs'[r].result = jobs[r].result
          /\ jobs'[r].cancel = jobs[r].cancel
      BY <3>2, <3>4 DEF JobType, Statuses
    <3>6. ~jobs[r].result /\ ~jobs[r].cancel
      BY <3>2, <3>3 DEF JInv, FlagsAgree
    <3>7. OneJobChanges(r)
      BY <3>2, <3>3, <3>4, <3>5, <3>6 DEF OneJobChanges, Resource!Moves
    <3>8. ActiveIsCurrent'
      <4>1. IsIn(jobs, {"RUNNING", "CANCEL_REQUESTED"})' = {r}
        BY <1>1, <3>2, <3>4, <3>5 DEF IsIn
      <4> QED  BY <3>1, <4>1 DEF ActiveIsCurrent
    <3>9. QueueInOrder'
      <4>1. IsIn(jobs, {"QUEUED"})' = IsIn(jobs, {"QUEUED"}) \ {r}
        BY <3>2, <3>3, <3>4, <3>5 DEF IsIn
      <4>2. \A k \in 1..Len(queue') : queue'[k] # r
        <5>1. \A k \in 1..Len(queue') : queue'[k] \in Nat
          <6>1. \A k \in 1..Len(queue') : queue'[k] \in 1..submitted
            BY <2>1, ElementOf
          <6>2. submitted \in Nat
            BY DEF JInv, TypeInv
          <6> QED  BY <6>1, <6>2
        <5>2. r \in Nat
          BY <2>1, <3>2 DEF JInv, TypeInv
        <5> QED  BY <2>3, <5>1, <5>2
      <4>3. \A k \in 1..Len(queue') : queue'[k] \in DOMAIN jobs'
              => jobs'[queue'[k]].status \in {"QUEUED", "CANCELLED"}
        BY <2>5, <3>4, <4>2
      <4> QED  BY <2>2, <2>3, <2>4, <3>1, <4>1, <4>3 DEF QueueInOrder
    <3> QED  BY <1>1, <2>1, <3>1, <3>2, <3>7, <3>8, <3>9, OneJob DEF JInv, TypeInv, Workers
  <2> QED  BY <2>6, <2>7
<1> QED  BY <1>2, <1>3

LEMMA FiniteJobs ==
  ASSUME TypeInv, NEW S \in SUBSET DOMAIN jobs
  PROVE  IsFiniteSet(S) /\ Cardinality(S) \in Nat
<1>1. IsFiniteSet(1..submitted)
  <2>1. 1 \in Int /\ submitted \in Int
    BY DEF TypeInv
  <2> QED  BY <2>1, FS_Interval
<1>2. S \in SUBSET (1..submitted)
  BY DEF TypeInv
<1> QED  BY <1>1, <1>2, FS_Subset, FS_CardinalityType

LEMMA ShutdownIsOK == JInv /\ Shutdown => StepOK
<1> SUFFICES ASSUME JInv, Shutdown  PROVE StepOK
  OBVIOUS
<1> DEFINE waiting == IsIn(jobs, {"QUEUED"})
           number(r) == ended + Cardinality({u \in waiting : u <= r})
<1>1. /\ jobs \in [DOMAIN jobs -> JobType] /\ ended \in Nat
      /\ \A r : number(r) \in Nat
      /\ ended + Cardinality(waiting) \in Nat
  <2>1. ASSUME NEW r  PROVE number(r) \in Nat
    <3>1. {u \in waiting : u <= r} \in SUBSET DOMAIN jobs
      BY DEF IsIn
    <3> QED  BY <3>1, FiniteJobs DEF JInv, TypeInv
  <2>2. waiting \in SUBSET DOMAIN jobs
    BY DEF IsIn
  <2>3. Cardinality(waiting) \in Nat
    BY <2>2, FiniteJobs DEF JInv
  <2>4. jobs \in [DOMAIN jobs -> JobType] /\ ended \in Nat
    BY DEF JInv, TypeInv
  <2> HIDE DEF number, waiting
  <2> QED  BY <2>1, <2>3, <2>4
<1>2. /\ jobs' = [r \in DOMAIN jobs |->
           [(CASE jobs[r].status = "QUEUED" ->
                    EndOf(jobs[r], "CANCELLED", number(r))
               [] jobs[r].status \in {"RUNNING", "CANCEL_REQUESTED"} ->
                    [jobs[r] EXCEPT !.status = "CANCEL_REQUESTED"]
               [] OTHER -> jobs[r]) EXCEPT !.cancel = TRUE]]
      /\ ended' = ended + Cardinality(waiting)
      /\ worker' \in Workers /\ (worker' = "run" <=> worker = "run")
      /\ UNCHANGED <<queue, submitted, current>>
  BY DEF Shutdown, JInv, TypeInv, Workers
<1> HIDE DEF number, waiting
<1>3. ASSUME NEW r \in DOMAIN jobs
      PROVE  /\ jobs'[r] \in JobType /\ jobs'[r].cancel
             /\ jobs[r].status = "QUEUED" =>
                  jobs'[r].status = "CANCELLED" /\ ~jobs'[r].result
             /\ jobs[r].status \in {"RUNNING", "CANCEL_REQUESTED"} =>
                  jobs'[r].status = "CANCEL_REQUESTED" /\ jobs'[r].result = jobs[r].result
             /\ jobs[r].status \in Terminal =>
                  jobs'[r].status = jobs[r].status /\ jobs'[r].result = jobs[r].result
  <2>1. jobs[r] \in JobType /\ number(r) \in Nat
    BY <1>1
  <2>2. CASE jobs[r].status = "QUEUED"
    <3> DEFINE e == EndOf(jobs[r], "CANCELLED", number(r))
    <3>1. e \in JobType /\ e.status = "CANCELLED" /\ e.result = FALSE
      <4>1. ("CANCELLED" = "COMPLETED") = FALSE
        OBVIOUS
      <4>2. e = [jobs[r] EXCEPT !.status = "CANCELLED", !.end = number(r),
                                !.result = ("CANCELLED" = "COMPLETED")]
        BY DEF EndOf
      <4> HIDE DEF e
      <4> QED  BY <2>1, <4>1, <4>2 DEF JobType, Statuses, Terminal
    <3>2. jobs'[r] = [e EXCEPT !.cancel = TRUE]
      BY <1>2, <2>2
    <3> HIDE DEF e
    <3> QED  BY <2>2, <3>1, <3>2 DEF JobType, Terminal
  <2>3. CASE jobs[r].status \in {"RUNNING", "CANCEL_REQUESTED"}
    <3>1. jobs'[r] = [jobs[r] EXCEPT !.status = "CANCEL_REQUESTED", !.cancel = TRUE]
      BY <1>2, <2>1, <2>3 DEF JobType
    <3> QED  BY <2>1, <2>3, <3>1 DEF JobType, Statuses, Terminal
  <2>4. CASE jobs[r].status \in Terminal
    <3>1. jobs'[r] = [jobs[r] EXCEPT !.cancel = TRUE]
      BY <1>2, <2>4 DEF Terminal
    <3> QED  BY <2>1, <2>4, <3>1 DEF JobType, Terminal
  <2> QED  BY <2>1, <2>2, <2>3, <2>4 DEF JobType, Statuses
<1>4. DOMAIN jobs' = DOMAIN jobs /\ jobs' = [r \in DOMAIN jobs |-> jobs'[r]]
  BY <1>2
<1>5. \A r \in DOMAIN jobs : jobs[r].status \in Statuses
  BY <1>1 DEF JobType
<1>6. TypeInv'
  BY <1>1, <1>2, <1>3, <1>4 DEF JInv, TypeInv
<1>7. FlagsAgree'
  BY <1>3, <1>4, <1>5 DEF JInv, FlagsAgree, Statuses, Terminal
<1>8. ActiveIsCurrent'
  <2>1. IsIn(jobs, {"RUNNING", "CANCEL_REQUESTED"})'
          = IsIn(jobs, {"RUNNING", "CANCEL_REQUESTED"})
    BY <1>3, <1>4, <1>5 DEF IsIn, Statuses, Terminal
  <2> QED  BY <1>2, <2>1 DEF JInv, ActiveIsCurrent
<1>9. QueueInOrder'
  <2>1. IsIn(jobs, {"QUEUED"})' = {}
    BY <1>3, <1>4, <1>5 DEF IsIn, Statuses, Terminal
  <2>2. \A r \in DOMAIN jobs : jobs[r].status \in {"QUEUED", "CANCELLED"}
          => jobs'[r].status = "CANCELLED"
    BY <1>3 DEF Terminal
  <2> QED  BY <1>2, <1>4, <2>1, <2>2 DEF JInv, QueueInOrder
<1>10. OnlyDocumentedMoves /\ CancelKept
  BY <1>3, <1>4, <1>5
     DEF OnlyDocumentedMoves, CancelKept, Statuses, Terminal, Resource!Moves
<1> QED  BY <1>2, <1>4, <1>6, <1>7, <1>8, <1>9, <1>10 DEF StepOK, JInv, NoneIsNew

LEMMA SubmitIsOK == JInv /\ Submit => StepOK
<1> SUFFICES ASSUME JInv, Submit  PROVE StepOK
  OBVIOUS
<1>1. submitted \in Nat /\ submitted < MaxRuns /\ UNCHANGED <<ended, current>>
  BY DEF Submit, JInv, TypeInv
<1>2. CASE submitted' = submitted /\ jobs' = Pruned /\ UNCHANGED <<queue, worker>>
  BY <1>1, <1>2, PruneIsOK
<1>3. CASE /\ submitted' = submitted + 1
           /\ jobs' = [r \in Kept \cup {submitted'} |->
                         IF r = submitted' THEN NewJob ELSE jobs[r]]
           /\ queue' = Enqueued(submitted')
           /\ WakeWorker
  <2> DEFINE new == submitted'
  <2>1. /\ new = submitted + 1 /\ new \in Nat /\ new <= MaxRuns /\ new \notin DOMAIN jobs
        /\ \A r \in DOMAIN jobs : r \in 1..new
    BY <1>1, <1>3, SettingsAssumption DEF JInv, TypeInv
  <2>2. /\ Kept \subseteq DOMAIN jobs
        /\ \A r \in DOMAIN jobs : jobs[r].status \notin Terminal => r \in Kept
    BY PruningKeepsJobs
  <2>3. NewJob \in JobType /\ NewJob.status = "QUEUED" /\ ~NewJob.cancel /\ ~NewJob.result
    BY DEF NewJob, JobType, Statuses
  <2>4. /\ DOMAIN jobs' = Kept \cup {new} /\ jobs'[new] = NewJob
        /\ \A r \in Kept : jobs'[r] = jobs[r]
        /\ jobs' = [r \in DOMAIN jobs' |-> jobs'[r]]
    BY <1>3, <2>1, <2>2
  <2>5. worker' \in Workers /\ (worker' = "run" <=> worker = "run")
    BY <1>3 DEF WakeWorker, Workers, JInv, TypeInv
  <2>6. /\ queue \in Seq(1..submitted) /\ Len(queue) \in Nat
        /\ queue' = Append(queue, new)
    BY <1>3 DEF Enqueued, JInv, TypeInv
  <2>7. /\ Len(queue') = Len(queue) + 1 /\ queue'[Len(queue')] = new
        /\ \A k \in 1..Len(queue) : queue'[k] = queue[k]
        /\ queue' \in Seq(1..new)
    <3>1. queue \in Seq(1..new)
      <4>1. 1..submitted \subseteq 1..new
        BY <1>1, <2>1
      <4> QED  BY <2>6, <4>1, WiderSeq
    <3>2. new \in 1..new
      BY <1>1, <2>1
    <3> HIDE DEF new
    <3> QED  BY <2>6, <3>1, <3>2, AppendProperties
  <2>8. \A k \in 1..Len(queue') : k \in 1..Len(queue) \/ k = Len(queue')
    BY <2>6, <2>7
  <2>9. \A k \in 1..Len(queue) : queue[k] \in 1..submitted /\ queue[k] < new
    <3>1. \A k \in 1..Len(queue) : queue[k] \in 1..submitted
      BY <2>6, ElementOf
    <3> QED  BY <1>1, <2>1, <3>1
  <2> HIDE DEF new
  <2>10. TypeInv'
    <3>1. jobs' \in [DOMAIN jobs' -> JobType]
      BY <2>2, <2>3, <2>4 DEF JInv, TypeInv
    <3>2. DOMAIN jobs' \subseteq 1..new
      <4>1. new \in 1..new
        BY <1>1, <2>1
      <4> QED  BY <2>1, <2>2, <2>4, <4>1
    <3> QED  BY <1>1, <2>1, <2>5, <2>7, <3>1, <3>2 DEF JInv, TypeInv, new
  <2>11. FlagsAgree'
    BY <2>2, <2>3, <2>4 DEF JInv, FlagsAgree
  <2>12. IsIn(jobs, {"RUNNING", "CANCEL_REQUESTED"})'
           = IsIn(jobs, {"RUNNING", "CANCEL_REQUESTED"})
    BY <2>2, <2>3, <2>4 DEF IsIn, Terminal
  <2>13. ActiveIsCurrent'
    BY <1>1, <2>5, <2>12 DEF JInv, ActiveIsCurrent
  <2>14. IsIn(jobs, {"QUEUED"})' \subseteq IsIn(jobs, {"QUEUED"}) \cup {new}
    BY <2>2, <2>3, <2>4 DEF IsIn
  <2>15. QueueInOrder'
    <3>1. ASSUME NEW r \in IsIn(jobs, {"QUEUED"})'
          PROVE  \E k \in 1..Len(queue') : queue'[k] = r
      <4>1. CASE r = new
        BY <2>6, <2>7, <4>1
      <4>2. CASE r \in IsIn(jobs, {"QUEUED"})
        <5>1. PICK k \in 1..Len(queue) : queue[k] = r
          BY <4>2 DEF JInv, QueueInOrder
        <5> QED  BY <2>6, <2>7, <5>1
      <4> QED  BY <2>14, <4>1, <4>2
    <3>2. ASSUME NEW k \in 1..Len(queue'), NEW n \in 1..Len(queue'), k < n
          PROVE  queue'[k] < queue'[n]
      <4>1. k \in 1..Len(queue)
        BY <2>6, <2>7, <3>2
      <4>2. CASE n \in 1..Len(queue)
        BY <2>7, <3>2, <4>1, <4>2 DEF JInv, QueueInOrder
      <4>3. CASE n = Len(queue')
        BY <2>7, <2>9, <4>1, <4>3
      <4> QED  BY <2>8, <4>2, <4>3
    <3>3. ASSUME NEW k \in 1..Len(queue'), queue'[k] \in DOMAIN jobs'
          PROVE  jobs'[queue'[k]].status \in {"QUEUED", "CANCELLED"}
      <4>1. CASE k = Len(queue')
        BY <2>3, <2>4, <2>7, <4>1
      <4>2. CASE k \in 1..Len(queue)
        <5>1. queue'[k] = queue[k] /\ queue[k] # new
          BY <2>1, <2>7, <2>9, <4>2
        <5>2. queue[k] \in Kept /\ queue[k] \in DOMAIN jobs
          BY <2>2, <2>4, <3>3, <5>1
        <5> QED  BY <2>4, <4>2, <5>1, <5>2 DEF JInv, QueueInOrder
      <4> QED  BY <2>8, <4>1, <4>2
    <3>4. ASSUME NEW k \in 1..Len(queue'), worker' = "run"
          PROVE  current' < queue'[k]
      <4>1. worker = "run" /\ current' = current
        BY <1>1, <2>5, <3>4
      <4>2. current \in DOMAIN jobs
        BY <4>1 DEF JInv, ActiveIsCurrent, IsIn
      <4>3. CASE k \in 1..Len(queue)
        BY <2>7, <4>1, <4>3 DEF JInv, QueueInOrder
      <4>4. CASE k = Len(queue')
        <5>1. current \in 1..submitted
          BY <4>2 DEF JInv, TypeInv
        <5> QED  BY <1>1, <2>1, <2>7, <4>1, <4>4, <5>1
      <4> QED  BY <2>8, <4>3, <4>4
    <3> QED  BY <3>1, <3>2, <3>3, <3>4 DEF QueueInOrder
  <2>16. OnlyDocumentedMoves /\ CancelKept
    BY <2>1, <2>2, <2>4 DEF OnlyDocumentedMoves, CancelKept
  <2>17. OneIsNew
    BY <2>1, <2>2, <2>3, <2>4 DEF OneIsNew, new
  <2> QED  BY <2>10, <2>11, <2>13, <2>15, <2>16, <2>17 DEF StepOK, JInv
<1> QED  BY <1>2, <1>3 DEF Submit

LEMMA OthersAreOK ==
  JInv /\ (ThreadEnds \/ (\E r \in DOMAIN jobs : Expire(r)) \/ Stopped \/ UNCHANGED vars)
    => StepOK
<1> SUFFICES ASSUME JInv,
                    \/ ThreadEnds \/ (\E r \in DOMAIN jobs : Expire(r))
                    \/ Stopped \/ UNCHANGED vars
             PROVE  StepOK
  OBVIOUS
<1>1. UNCHANGED <<jobs, queue, submitted, ended, current>>
  BY DEF ThreadEnds, Expire, Stopped, vars
<1>2. worker' = worker \/ (worker = "ending" /\ worker' = "dead")
  BY DEF ThreadEnds, Expire, Stopped, vars
<1>3. TypeInv' /\ FlagsAgree' /\ ActiveIsCurrent' /\ QueueInOrder'
  BY <1>1, <1>2 DEF JInv, TypeInv, FlagsAgree, ActiveIsCurrent, QueueInOrder, IsIn, Workers
<1> QED  BY <1>1, <1>3 DEF JInv, StepOK, OnlyDocumentedMoves, NoneIsNew, CancelKept

LEMMA NextIsOK == JInv /\ [Next]_vars => StepOK
BY GetIsOK, CancelIsOK, SubmitIsOK, ShutdownIsOK, LookIsOK, StageIsOK, RunEndsIsOK, CloseIsOK,
   OthersAreOK DEF Next, Request, Work

-----------------------------------------------------------------------------

(* The worker holds the one job that shows as active (jobs.py, _work).     *)
THEOREM OneIsActive == Spec => []ActiveIsCurrent
<1>1. JInv /\ [Next]_vars => JInv'
  BY NextIsOK DEF StepOK
<1>2. JInv => ActiveIsCurrent
  BY DEF JInv
<1> QED  BY <1>1, <1>2, InitJobs, PTL DEF Spec

(* After a cancellation that came in time a job never shows a result       *)
(* (jobs.py, cancel and _work).                                            *)
THEOREM CancellationHolds == Spec => CancelIsKept
<1>1. JInv /\ [Next]_vars => JInv'
  BY NextIsOK DEF StepOK
<1>2. JInv /\ [Next]_vars =>
        [\A r \in DOMAIN jobs \cap DOMAIN jobs' :
           jobs[r].cancel /\ ~jobs[r].result => ~jobs'[r].result]_vars
  BY NextIsOK DEF StepOK, CancelKept
<1> QED  BY <1>1, <1>2, InitJobs, PTL DEF Spec, CancelIsKept

-----------------------------------------------------------------------------
(***************************************************************************)
(* The manager implements the run resource.                                *)
(***************************************************************************)

LEMMA InitResource == Init => Resource!Init
BY SettingsAssumption DEF Init, Resource!Init, Runs, StatusOf

LEMMA StepResource ==
  ASSUME JInv, StepOK
  PROVE  [Resource!Next]_([r \in Runs |-> StatusOf(r)])
<1> DEFINE shown == [r \in Runs |-> StatusOf(r)]
<1>1. ASSUME NEW r \in Runs, shown'[r] # shown[r]
      PROVE  <<shown[r], shown'[r]>> \in Resource!Moves
  <2>1. /\ r \in Nat /\ submitted \in Nat /\ DOMAIN jobs \subseteq 1..submitted
        /\ DOMAIN jobs' \subseteq 1..submitted' /\ submitted' \in Nat
    BY SettingsAssumption DEF Runs, JInv, TypeInv, StepOK
  <2>2. shown[r] = StatusOf(r) /\ shown'[r] = StatusOf(r)'
    OBVIOUS
  <2>3. CASE r \in DOMAIN jobs /\ r \in DOMAIN jobs'
    BY <1>1, <2>2, <2>3 DEF StatusOf, StepOK, OnlyDocumentedMoves
  <2>4. CASE r \in DOMAIN jobs /\ r \notin DOMAIN jobs'
    <3>1. jobs[r].status \in Terminal
      BY <2>4 DEF StepOK, OnlyDocumentedMoves
    <3>2. r <= submitted'
      BY <2>1, <2>4 DEF StepOK, NoneIsNew, OneIsNew
    <3> QED  BY <2>2, <2>4, <3>1, <3>2 DEF StatusOf, Terminal, Resource!Moves
  <2>5. CASE r \notin DOMAIN jobs /\ r \in DOMAIN jobs'
    <3>1. OneIsNew /\ r = submitted'
      BY <2>5 DEF StepOK, NoneIsNew, OneIsNew
    <3>2. ~(r <= submitted) /\ jobs'[r].status = "QUEUED"
      BY <2>1, <3>1 DEF OneIsNew
    <3> QED  BY <2>2, <2>5, <3>2 DEF StatusOf, Resource!Moves
  <2>6. CASE r \notin DOMAIN jobs /\ r \notin DOMAIN jobs'
    <3>1. r <= submitted <=> r <= submitted'
      BY <2>1, <2>6 DEF StepOK, NoneIsNew, OneIsNew
    <3> QED  BY <1>1, <2>2, <2>6, <3>1 DEF StatusOf
  <2> QED  BY <2>3, <2>4, <2>5, <2>6
<1>2. Resource!OneActive(shown')
  <2> SUFFICES ASSUME NEW r \in Runs, NEW u \in Runs,
                      shown'[r] \in Resource!Active, shown'[u] \in Resource!Active
               PROVE  r = u
    BY DEF Resource!OneActive
  <2>1. \A x \in Runs : StatusOf(x)' \in {"RUNNING", "CANCEL_REQUESTED"}
            => x \in IsIn(jobs, {"RUNNING", "CANCEL_REQUESTED"})'
    BY DEF StatusOf, IsIn
  <2>2. ActiveIsCurrent'
    BY DEF StepOK, JInv
  <2> QED  BY <2>1, <2>2 DEF ActiveIsCurrent, Resource!Active
<1>3. shown' = [r \in Runs |-> shown'[r]]
  OBVIOUS
<1> QED  BY <1>1, <1>2, <1>3 DEF Resource!Next

(* The manager implements the documented run resource: the states move     *)
(* only as documented, one run is active, and only what has ended is       *)
(* forgotten (jobs.py, API_CONTRACT.md).                                   *)
THEOREM RefinesResource == Spec => ImplementsResource
<1>1. JInv /\ [Next]_vars => JInv'
  BY NextIsOK DEF StepOK
<1>2. JInv /\ [Next]_vars => [Resource!Next]_([r \in Runs |-> StatusOf(r)])
  BY NextIsOK, StepResource
<1> QED  BY <1>1, <1>2, InitJobs, InitResource, PTL
         DEF Spec, ImplementsResource, Resource!Safety

-----------------------------------------------------------------------------
(***************************************************************************)
(* The bounds on waiting and on retained runs.                             *)
(***************************************************************************)

LEMMA SmallestOf ==
  ASSUME NEW T \in SUBSET Nat, T # {}
  PROVE  \E m \in T : \A n \in T : m <= n
<1>1. \E m \in T : \A n \in T : ~(<<n, m>> \in OpToRel(<, Nat))
  BY NatLessThanWellFounded, WFMin
<1>2. PICK m \in T : \A n \in T : ~(<<n, m>> \in OpToRel(<, Nat))
  BY <1>1
<1>3. ASSUME NEW n \in T  PROVE m <= n
  <2>1. m \in Nat /\ n \in Nat
    OBVIOUS
  <2>2. ~(n < m)
    BY <1>2, <2>1 DEF OpToRel
  <2> QED  BY <2>1, <2>2
<1> QED  BY <1>3

LEMMA NotEnded ==
  ASSUME JInv, Counts, NEW S \in SUBSET DOMAIN jobs,
         \A r \in S : jobs[r].status \notin Terminal
  PROVE  Cardinality(S) <= MaxQueued + 1
<1> DEFINE queued == IsIn(jobs, {"QUEUED"})
           active == IsIn(jobs, {"RUNNING", "CANCEL_REQUESTED"})
<1>1. /\ IsFiniteSet(queued) /\ Cardinality(queued) \in Nat
      /\ IsFiniteSet(S) /\ Cardinality(S) \in Nat
      /\ MaxQueued \in Nat /\ Cardinality(queued) <= MaxQueued
  <2>1. queued \in SUBSET DOMAIN jobs
    BY DEF IsIn
  <2> QED  BY <2>1, FiniteJobs, SettingsAssumption DEF JInv, Counts
<1>2. S \subseteq queued \cup {current}
  <2>1. \A r \in DOMAIN jobs : jobs[r].status \in Statuses
    BY DEF JInv, TypeInv, JobType
  <2>2. S \subseteq queued \cup active
    BY <2>1 DEF IsIn, Statuses
  <2>3. active \subseteq {current}
    BY DEF JInv, ActiveIsCurrent
  <2> QED  BY <2>2, <2>3
<1> HIDE DEF queued
<1>3. /\ IsFiniteSet(queued \cup {current})
      /\ Cardinality(queued \cup {current}) \in Nat
      /\ Cardinality(queued \cup {current}) <= MaxQueued + 1
  <2>1. /\ IsFiniteSet(queued \cup {current})
        /\ Cardinality(queued \cup {current})
             = IF current \in queued THEN Cardinality(queued) ELSE Cardinality(queued) + 1
    BY <1>1, FS_AddElement
  <2>2. Cardinality(queued \cup {current}) \in Nat
    BY <2>1, FS_CardinalityType
  <2> QED  BY <1>1, <2>1, <2>2
<1>4. Cardinality(S) <= Cardinality(queued \cup {current})
  BY <1>2, <1>3, FS_Subset
<1> QED  BY <1>1, <1>3, <1>4

(* What pruning keeps is within the retention: the oldest ends go first,   *)
(* and what has not ended fits.                                            *)
LEMMA PruningMakesRoom ==
  ASSUME JInv, Counts
  PROVE  IsFiniteSet(Kept) /\ Cardinality(Kept) <= MaxRetained
<1> DEFINE over == Cardinality(Unexpired) - MaxRetained
           ends == Unexpired \cap IsIn(jobs, Terminal)
           lower(r) == {u \in ends : jobs[u].end < jobs[r].end}
<1>1. /\ Unexpired \in SUBSET DOMAIN jobs /\ Kept \in SUBSET DOMAIN jobs
      /\ Kept = Unexpired \ Excess /\ Excess \in SUBSET ends
      /\ Excess = {r \in ends : Cardinality(lower(r)) < over}
      /\ \A r : lower(r) \in SUBSET DOMAIN jobs
  BY DEF Unexpired, Kept, Excess
<1>2. /\ IsFiniteSet(Unexpired) /\ Cardinality(Unexpired) \in Nat
      /\ IsFiniteSet(Kept) /\ Cardinality(Kept) \in Nat
      /\ IsFiniteSet(Excess) /\ Cardinality(Excess) \in Nat
      /\ \A r : IsFiniteSet(lower(r)) /\ Cardinality(lower(r)) \in Nat
      /\ MaxRetained \in Nat /\ MaxQueued \in Nat /\ MaxQueued + 1 <= MaxRetained
  <2>1. TypeInv /\ Excess \in SUBSET DOMAIN jobs
    BY <1>1 DEF JInv
  <2>2. ASSUME NEW r  PROVE IsFiniteSet(lower(r)) /\ Cardinality(lower(r)) \in Nat
    BY <1>1, <2>1, FiniteJobs
  <2>3. MaxRetained \in Nat /\ MaxQueued \in Nat /\ MaxQueued + 1 <= MaxRetained
    BY SettingsAssumption
  <2> HIDE DEF lower
  <2> QED  BY <1>1, <2>1, <2>2, <2>3, FiniteJobs
<1> HIDE DEF lower
<1>3. Cardinality(Kept) = Cardinality(Unexpired) - Cardinality(Excess)
  <2>1. Unexpired \cap Excess = Excess
    BY <1>1
  <2>2. Cardinality(Unexpired \ Excess)
          = Cardinality(Unexpired) - Cardinality(Unexpired \cap Excess)
    BY <1>2, FS_Difference
  <2> QED  BY <1>1, <2>1, <2>2
<1>4. CASE over <= 0
  BY <1>2, <1>3, <1>4
<1>5. CASE Excess = ends
  <2>1. \A r \in Kept : jobs[r].status \notin Terminal
    BY <1>1, <1>5 DEF IsIn
  <2>2. Cardinality(Kept) <= MaxQueued + 1
    BY <1>1, <2>1, NotEnded
  <2> QED  BY <1>2, <2>2
<1>6. CASE Excess # ends
  <2> DEFINE stays == ends \ Excess
             T == {jobs[r].end : r \in stays}
  <2>1. \A r \in DOMAIN jobs : jobs[r].end \in Nat
    BY DEF JInv, TypeInv, JobType
  <2>2. T \in SUBSET Nat /\ T # {}
    BY <1>1, <1>6, <2>1
  <2>3. PICK r \in stays : \A u \in stays : jobs[r].end <= jobs[u].end
    <3>1. \E least \in T : \A n \in T : least <= n
      <4> HIDE DEF T
      <4> QED  BY <2>2, SmallestOf
    <3> QED  BY <3>1
  <2>4. lower(r) \subseteq Excess
    <3> SUFFICES ASSUME NEW u \in lower(r), u \notin Excess  PROVE FALSE
      OBVIOUS
    <3>1. u \in stays /\ jobs[u].end < jobs[r].end /\ r \in DOMAIN jobs /\ u \in DOMAIN jobs
      BY <1>1 DEF lower
    <3> QED  BY <2>1, <2>3, <3>1
  <2>5. ~(Cardinality(lower(r)) < over)
    BY <1>1, <2>3
  <2>6. Cardinality(lower(r)) <= Cardinality(Excess)
    BY <1>2, <2>4, FS_Subset
  <2> QED  BY <1>2, <1>3, <2>5, <2>6
<1> QED  BY <1>2, <1>5, <1>6

(* A submission that is accepted found fewer jobs waiting than may wait.   *)
LEMMA WaitingCounted ==
  ASSUME JInv
  PROVE  /\ Cardinality(Waiting) \in Nat
         /\ Cardinality(IsIn(jobs, {"QUEUED"})) <= Cardinality(Waiting)
<1> DEFINE queued == IsIn(jobs, {"QUEUED"})
           place == [r \in queued |-> CHOOSE k \in 1..Len(queue) : queue[k] = r]
<1>1. IsFiniteSet(Waiting) /\ Cardinality(Waiting) \in Nat
  <2>1. Len(queue) \in Int /\ 1 \in Int
    BY DEF JInv, TypeInv
  <2>2. IsFiniteSet(1..Len(queue))
    BY <2>1, FS_Interval
  <2>3. Waiting \in SUBSET (1..Len(queue))
    BY DEF Waiting
  <2> QED  BY <2>2, <2>3, FS_Subset, FS_CardinalityType
<1>2. ASSUME NEW r \in queued
      PROVE  place[r] \in Waiting /\ queue[place[r]] = r
  <2>1. \E k \in 1..Len(queue) : queue[k] = r
    BY DEF JInv, QueueInOrder
  <2>2. place[r] \in 1..Len(queue) /\ queue[place[r]] = r
    BY <2>1
  <2>3. r \in IsIn(Pruned, {"QUEUED"})
    BY PruningKeepsJobs DEF IsIn, Terminal
  <2> QED  BY <2>2, <2>3 DEF Waiting
<1>3. place \in [queued -> Waiting]
  <2>1. \A r \in queued : place[r] \in Waiting
    BY <1>2
  <2> QED  BY <2>1
<1> HIDE DEF place, queued
<1>4. place \in Injection(queued, Waiting)
  BY <1>2, <1>3 DEF Injection, IsInjective
<1> QED  BY <1>1, <1>4, FS_Injection DEF queued

LEMMA NextCounts == JInv /\ Counts /\ [Next]_vars => Counts'
<1> SUFFICES ASSUME JInv, Counts, [Next]_vars  PROVE Counts'
  OBVIOUS
<1>1. StepOK /\ TypeInv /\ TypeInv' /\ MaxRetained \in Nat /\ MaxQueued \in Nat
  BY NextIsOK, SettingsAssumption DEF StepOK, JInv
<1>2. CASE NoneIsNew
  <2>1. DOMAIN jobs' \in SUBSET DOMAIN jobs
    BY <1>2 DEF NoneIsNew
  <2>2. IsIn(jobs, {"QUEUED"})' \in SUBSET IsIn(jobs, {"QUEUED"})
    <3>1. \A r \in DOMAIN jobs : jobs[r].status # "unknown"
      BY <1>1 DEF TypeInv, JobType, Statuses, Terminal
    <3> QED  BY <1>1, <2>1, <3>1 DEF StepOK, OnlyDocumentedMoves, Resource!Moves, IsIn
  <2>3. IsIn(jobs, {"QUEUED"}) \in SUBSET DOMAIN jobs /\ DOMAIN jobs \in SUBSET DOMAIN jobs
    BY DEF IsIn
  <2>4. /\ IsFiniteSet(IsIn(jobs, {"QUEUED"})) /\ Cardinality(IsIn(jobs, {"QUEUED"})) \in Nat
        /\ IsFiniteSet(DOMAIN jobs) /\ Cardinality(DOMAIN jobs) \in Nat
    BY <1>1, <2>3, FiniteJobs
  <2>5. /\ Cardinality(IsIn(jobs, {"QUEUED"})') <= Cardinality(IsIn(jobs, {"QUEUED"}))
        /\ Cardinality(DOMAIN jobs') <= Cardinality(DOMAIN jobs)
        /\ IsFiniteSet(IsIn(jobs, {"QUEUED"})') /\ IsFiniteSet(DOMAIN jobs')
    BY <2>1, <2>2, <2>4, FS_Subset
  <2>6. /\ Cardinality(IsIn(jobs, {"QUEUED"})') \in Nat
        /\ Cardinality(DOMAIN jobs') \in Nat
    BY <2>5, FS_CardinalityType
  <2> QED  BY <1>1, <2>4, <2>5, <2>6 DEF Counts
<1>3. CASE OneIsNew
  <2>1. /\ submitted' = submitted + 1
        /\ jobs' = [r \in Kept \cup {submitted'} |->
                      IF r = submitted' THEN NewJob ELSE jobs[r]]
        /\ Cardinality(Waiting) < MaxQueued
    <3>1. submitted' # submitted
      BY <1>1, <1>3 DEF OneIsNew, TypeInv
    <3> QED  BY <3>1 DEF Next, Request, Submit, Get, Cancel, Shutdown, Work, Look, Stage,
                         PipelineReturns, PipelineStops, PipelineRaises, End, CloseRuntime,
                         ThreadEnds, Expire, Stopped, vars
  <2>2. /\ DOMAIN jobs' = Kept \cup {submitted'}
        /\ IsIn(jobs, {"QUEUED"})' \in SUBSET (IsIn(jobs, {"QUEUED"}) \cup {submitted'})
    BY <2>1, PruningKeepsJobs DEF IsIn
  <2>3. Cardinality(DOMAIN jobs') <= MaxRetained + 1
    <3>1. IsFiniteSet(Kept) /\ Cardinality(Kept) <= MaxRetained
      BY PruningMakesRoom
    <3>2. Cardinality(Kept) \in Nat
      BY <3>1, FS_CardinalityType
    <3>3. Cardinality(Kept \cup {submitted'}) <= Cardinality(Kept) + 1
      BY <3>1, <3>2, FS_AddElement
    <3>4. Cardinality(Kept \cup {submitted'}) \in Nat
      BY <3>1, FS_AddElement, FS_CardinalityType
    <3> QED  BY <1>1, <2>2, <3>1, <3>2, <3>3, <3>4
  <2>4. Cardinality(IsIn(jobs, {"QUEUED"})') <= MaxQueued
    <3> DEFINE queued == IsIn(jobs, {"QUEUED"})
    <3>1. IsFiniteSet(queued) /\ Cardinality(queued) \in Nat
      <4>1. queued \in SUBSET DOMAIN jobs
        BY DEF IsIn
      <4> QED  BY <1>1, <4>1, FiniteJobs
    <3>2. /\ Cardinality(Waiting) \in Nat /\ Cardinality(queued) <= Cardinality(Waiting)
      BY WaitingCounted
    <3> HIDE DEF queued
    <3>3. /\ IsFiniteSet(queued \cup {submitted'})
          /\ Cardinality(queued \cup {submitted'}) <= Cardinality(queued) + 1
          /\ Cardinality(queued \cup {submitted'}) \in Nat
      BY <3>1, FS_AddElement, FS_CardinalityType
    <3>4. /\ IsFiniteSet(IsIn(jobs, {"QUEUED"})')
          /\ Cardinality(IsIn(jobs, {"QUEUED"})') <= Cardinality(queued \cup {submitted'})
      BY <2>2, <3>3, FS_Subset DEF queued
    <3>5. Cardinality(IsIn(jobs, {"QUEUED"})') \in Nat
      BY <3>4, FS_CardinalityType
    <3> QED  BY <1>1, <2>1, <3>1, <3>2, <3>3, <3>4, <3>5
  <2> QED  BY <2>3, <2>4 DEF Counts
<1> QED  BY <1>1, <1>2, <1>3 DEF StepOK

LEMMA InitCounts == Init => Counts
BY SettingsAssumption, FS_EmptySet DEF Init, Counts, IsIn

(* Every waiting run has one place in the queue, in the order of           *)
(* submission, and neither more wait nor more are retained than the        *)
(* settings allow (jobs.py, submit and _prune_locked).                     *)
THEOREM WaitingIsBoundedAndInOrder == Spec => []WaitingInOrder
<1>1. JInv /\ [Next]_vars => JInv'
  BY NextIsOK DEF StepOK
<1>2. JInv /\ Counts => WaitingInOrder
  <2> SUFFICES ASSUME JInv, Counts  PROVE WaitingInOrder
    OBVIOUS
  <2>1. \A r \in IsIn(jobs, {"QUEUED"}) :
          /\ \E k \in 1..Len(queue) : queue[k] = r
          /\ worker = "run" => current < r
    BY DEF JInv, QueueInOrder
  <2> QED  BY <2>1 DEF JInv, Counts, QueueInOrder, WaitingInOrder
<1> QED  BY <1>1, <1>2, InitJobs, InitCounts, NextCounts, PTL DEF Spec

-----------------------------------------------------------------------------
(* The thread sleeps, or has not been started, only while the queue is     *)
(* empty and the manager open; after a shutdown nothing can start.         *)
WakeInv ==
  /\ worker \in {"none", "asleep"} => queue = <<>>
  /\ worker = "asleep" => ~shutdown
  /\ worker \in {"ending", "dead"} => CloseMayFail \/ shutdown
  /\ shutdown /\ ~ServesAfterShutdown => IsIn(jobs, {"QUEUED", "RUNNING"}) = {}

(* A step that starts no job keeps what the shutdown did. *)
LEMMA NothingStarts ==
  ASSUME IsIn(jobs, {"QUEUED", "RUNNING"}) = {},
         \A r \in DOMAIN jobs' : /\ r \in DOMAIN jobs
                                 /\ \/ jobs'[r].status = jobs[r].status
                                    \/ jobs'[r].status \notin {"QUEUED", "RUNNING"}
  PROVE  IsIn(jobs', {"QUEUED", "RUNNING"}) = {}
BY DEF IsIn

LEMMA PrunedStartsNothing ==
  \A r \in DOMAIN Pruned : r \in DOMAIN jobs /\ Pruned[r] = jobs[r]
BY PruningKeepsJobs

LEMMA NextWake == JInv /\ WakeInv /\ [Next]_vars => WakeInv'
<1> SUFFICES ASSUME JInv, WakeInv, [Next]_vars  PROVE WakeInv'
  OBVIOUS
<1>1. CASE Request
  <2>1. shutdown' = shutdown /\ (~shutdown \/ ServesAfterShutdown)
    BY <1>1 DEF Request, Submit, Get, Cancel
  <2>2. \/ queue' = queue /\ worker' = worker
        \/ worker' \notin {"none", "asleep"} /\ (worker' \in {"ending", "dead"} => worker' = worker)
    BY <1>1 DEF Request, Submit, Get, Cancel, WakeWorker
  <2> QED  BY <2>1, <2>2 DEF WakeInv
<1>2. CASE Shutdown
  <2>1. queue' = queue /\ shutdown' /\ worker' = IF worker = "asleep" THEN "look" ELSE worker
    BY <1>2 DEF Shutdown
  <2>2. \A r \in DOMAIN jobs' : jobs'[r].status \notin {"QUEUED", "RUNNING"}
    BY <1>2 DEF Shutdown, EndOf, JInv, TypeInv, JobType, Statuses, Terminal
  <2> QED  BY <2>1, <2>2 DEF WakeInv, IsIn
<1>3. CASE Look
  <2>1. CASE queue = <<>>
    BY <1>3, <2>1 DEF Look, WakeInv
  <2>2. CASE queue # <<>>
    <3>1. shutdown' = shutdown /\ worker' \in {"look", "run"}
      BY <1>3, <2>2 DEF Look
    <3>2. shutdown /\ ~ServesAfterShutdown => UNCHANGED jobs
      <4>1. Head(queue) = queue[1] /\ 1 \in 1..Len(queue)
        BY <2>2, HeadLeaves
      <4>2. Head(queue) \in DOMAIN jobs => jobs[Head(queue)].status \in {"QUEUED", "CANCELLED"}
        BY <4>1 DEF JInv, QueueInOrder
      <4> QED  BY <1>3, <2>2, <4>2 DEF Look, IsIn, WakeInv
    <3> QED  BY <3>1, <3>2 DEF WakeInv, IsIn
  <2> QED  BY <2>1, <2>2
<1>4. CASE Stage \/ PipelineReturns \/ PipelineStops \/ PipelineRaises
  <2>1. shutdown' = shutdown /\ queue' = queue /\ worker = "run" /\ worker' \in {"run", "close"}
    BY <1>4 DEF Stage, PipelineReturns, PipelineStops, PipelineRaises, End
  <2>2. DOMAIN jobs' = DOMAIN jobs
        /\ \A r \in DOMAIN jobs : \/ jobs'[r].status = jobs[r].status
                                  \/ jobs'[r].status \notin {"QUEUED", "RUNNING"}
    <3>1. current \in DOMAIN jobs /\ jobs[current] \in JobType
      BY <2>1 DEF JInv, TypeInv, ActiveIsCurrent, IsIn
    <3>2. \E job : /\ jobs' = [jobs EXCEPT ![current] = job]
                  /\ \/ job.status = jobs[current].status
                     \/ job.status \in Terminal
      <4>1. CASE Stage
        <5> DEFINE job == [jobs[current] EXCEPT !.stage = "reached"]
        <5>1. jobs' = [jobs EXCEPT ![current] = job]
          BY <4>1 DEF Stage
        <5>2. job.status = jobs[current].status
          BY <3>1 DEF JobType
        <5> QED  BY <5>1, <5>2
      <4>2. ASSUME NEW status \in Terminal, End(status)
            PROVE  \E job : /\ jobs' = [jobs EXCEPT ![current] = job]
                            /\ job.status \in Terminal
        <5> DEFINE job == EndOf(jobs[current], status, ended')
        <5>1. jobs' = [jobs EXCEPT ![current] = job]
          BY <4>2 DEF End
        <5>2. job.status = status
          BY <3>1 DEF JobType, EndOf
        <5> QED  BY <5>1, <5>2
      <4>3. CASE PipelineReturns
        <5> DEFINE job == [EndOf(jobs[current], StatusOnReturn, ended')
                             EXCEPT !.stage = "FINAL_DECISION"]
        <5>1. jobs' = [jobs EXCEPT ![current] = job]
          BY <4>3 DEF PipelineReturns
        <5>2. job.status = StatusOnReturn
          BY <3>1 DEF JobType, EndOf
        <5> QED  BY <5>1, <5>2 DEF StatusOnReturn, Terminal
      <4>4. "CANCELLED" \in Terminal /\ "FAILED" \in Terminal
        BY DEF Terminal
      <4> QED  BY <1>4, <4>1, <4>2, <4>3, <4>4 DEF PipelineStops, PipelineRaises
    <3>3. Terminal \cap {"QUEUED", "RUNNING"} = {}
      BY DEF Terminal
    <3> QED  BY <3>1, <3>2, <3>3
  <2> QED  BY <2>1, <2>2, NothingStarts DEF WakeInv
<1>5. CASE CloseRuntime
  <2>1. shutdown' = shutdown /\ (worker' = "look" \/ (worker' = "ending" /\ CloseMayFail))
        /\ (jobs' = Pruned \/ jobs' = jobs)
    BY <1>5 DEF CloseRuntime
  <2> QED  BY <2>1, PrunedStartsNothing, NothingStarts DEF WakeInv
<1>6. CASE ThreadEnds \/ (\E r \in DOMAIN jobs : Expire(r)) \/ Stopped \/ UNCHANGED vars
  BY <1>6 DEF ThreadEnds, Expire, Stopped, vars, WakeInv, IsIn
<1> QED
  BY <1>1, <1>2, <1>3, <1>4, <1>5, <1>6 DEF Next, Work

(* No notification is lost, and a shutdown reaches every run and the       *)
(* worker, for any queue, retention and number of runs.                    *)
THEOREM NothingSleepsThrough == Spec => []NoLostWakeup
<1>1. Init => WakeInv
  BY DEF Init, WakeInv
<1>2. JInv /\ [Next]_vars => JInv'
  BY NextIsOK DEF StepOK
<1>3. JInv /\ WakeInv => NoLostWakeup
  <2> SUFFICES ASSUME JInv, WakeInv  PROVE NoLostWakeup
    OBVIOUS
  <2>1. queue = <<>> => IsIn(jobs, {"QUEUED"}) = {}
    BY DEF JInv, QueueInOrder
  <2>2. IsIn(jobs, {"QUEUED"}) \subseteq IsIn(jobs, {"QUEUED", "RUNNING"})
    BY DEF IsIn
  <2>3. worker \in Workers
    BY DEF JInv, TypeInv
  <2> QED  BY <2>1, <2>2, <2>3 DEF WakeInv, NoLostWakeup, Workers
<1> QED  BY <1>1, <1>2, <1>3, InitJobs, NextWake, PTL DEF Spec

(* One worker thread, which is there when a run waits.                     *)
THEOREM WorkerIsThere == Spec => []WorkerServes
BY OneIsActive, NothingSleepsThrough, PTL DEF WorkerServes
=============================================================================
