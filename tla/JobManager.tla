------------------------------- MODULE JobManager -------------------------------
(***************************************************************************)
(* InMemoryJobManager: the requests of the API's threads and the one       *)
(* worker thread, under one condition variable.  Every action is a         *)
(* critical section, or a step the worker takes without the lock.          *)
(*                                                                         *)
(* Run identifiers are natural numbers, in the order of submission, which  *)
(* is also the order of the manager's dictionary.  The clock appears only  *)
(* through what pruning reads of it: the order in which jobs ended, and    *)
(* which of the ended ones are past their retention.                       *)
(***************************************************************************)
EXTENDS Naturals, Sequences, FiniteSets

CONSTANTS
  MaxQueued,            \* maximum_queued_jobs
  MaxRetained,          \* maximum_retained_jobs
  MaxRuns,              \* bound: submissions that are accepted
  CloseMayFail,         \* whether closing a provider can raise
  ServesAfterShutdown   \* whether requests still arrive after shutdown()

(* __init__ rejects other values. *)
ASSUME SettingsAssumption ==
  /\ MaxQueued \in Nat \ {0}
  /\ MaxRetained \in Nat
  /\ MaxRetained >= MaxQueued + 1
  /\ MaxRuns \in Nat
  /\ CloseMayFail \in BOOLEAN
  /\ ServesAfterShutdown \in BOOLEAN

VARIABLES
  jobs,       \* retained run |-> its job
  queue,      \* the runs waiting for the worker, cancelled ones included
  submitted,  \* runs accepted so far
  ended,      \* jobs that have ended so far, which numbers their ends
  expired,    \* ended runs that are past their retention
  shutdown,   \* shutdown() was called
  worker,     \* where the worker thread is
  current,    \* the run it holds
  raised      \* the error the last submission raised, or "none"

vars == <<jobs, queue, submitted, ended, expired, shutdown,
          worker, current, raised>>

-----------------------------------------------------------------------------

Terminal == {"COMPLETED", "FAILED", "CANCELLED"}

Statuses == {"QUEUED", "RUNNING", "CANCEL_REQUESTED"} \cup Terminal

NewJob == [status |-> "QUEUED", stage |-> "none", cancel |-> FALSE,
           end |-> 0, result |-> FALSE]

IsIn(js, S) == {r \in DOMAIN js : js[r].status \in S}

Only(js, S) == [r \in S |-> js[r]]

(* _prune_locked: forget the expired runs, then as many of the others that *)
(* have ended, oldest end first, as exceed the retention.                  *)
Unexpired == DOMAIN jobs \ (expired \cap IsIn(jobs, Terminal))

(* A slip: any job may be forgotten. *)
ExcessOfAny ==
  LET over == Cardinality(Unexpired) - MaxRetained
  IN  {r \in Unexpired : Cardinality({u \in Unexpired : u < r}) < over}

Excess ==
  LET over   == Cardinality(Unexpired) - MaxRetained
      ends   == Unexpired \cap IsIn(jobs, Terminal)
  IN  {r \in ends :
         Cardinality({u \in ends : jobs[u].end < jobs[r].end}) < over}

Kept == Unexpired \ Excess

Pruned == Only(jobs, Kept)

(* A slip: an end is not recorded for a job that was asked to stop. *)
EndOfUncancelled(job, status, number) ==
  IF job.cancel THEN job
  ELSE [job EXCEPT !.status = status, !.end = number,
                   !.result = (status = "COMPLETED")]

(* A job ends with this status; only a completed one keeps a result.       *)
EndOf(job, status, number) ==
  [job EXCEPT !.status = status, !.end = number,
              !.result = (status = "COMPLETED")]

Init ==
  /\ jobs = [r \in {} |-> NewJob]
  /\ queue = <<>>
  /\ submitted = 0
  /\ ended = 0
  /\ expired = {}
  /\ shutdown = FALSE
  /\ worker = "none"
  /\ current = 0
  /\ raised = "none"

-----------------------------------------------------------------------------
(***************************************************************************)
(* Requests.                                                               *)
(***************************************************************************)

Waiting == {k \in 1..Len(queue) : queue[k] \in IsIn(Pruned, {"QUEUED"})}

(* A slip: a sleeping worker is not notified. *)
StartWorker ==
  worker' = IF worker \in {"none", "dead"} THEN "look" ELSE worker

(* _ensure_worker_locked, and notify: a new thread starts if there is none *)
(* that is alive, and a thread that sleeps in wait_for looks again.  A     *)
(* thread that is about to end still counts as alive.                      *)
WakeWorker ==
  worker' = IF worker \in {"none", "dead", "asleep"} THEN "look" ELSE worker

(* A slip: the newest run goes first. *)
EnqueuedFirst(r) == <<r>> \o queue

Enqueued(r) == Append(queue, r)

(* submit: the jobs of all queued runs are looked up to count the waiting  *)
(* ones, which raises KeyError for a run that is no longer retained.       *)
Submit ==
  /\ submitted < MaxRuns
  /\ \/ /\ \E k \in 1..Len(queue) : queue[k] \notin Kept
        /\ jobs' = Pruned
        /\ raised' = "KeyError"
        /\ UNCHANGED <<queue, submitted, worker>>
     \/ /\ \A k \in 1..Len(queue) : queue[k] \in Kept
        /\ Cardinality(Waiting) >= MaxQueued
        /\ jobs' = Pruned
        /\ raised' = "QueueFullError"
        /\ UNCHANGED <<queue, submitted, worker>>
     \/ /\ \A k \in 1..Len(queue) : queue[k] \in Kept
        /\ Cardinality(Waiting) < MaxQueued
        /\ submitted' = submitted + 1
        /\ jobs' = [r \in Kept \cup {submitted'} |->
                      IF r = submitted' THEN NewJob ELSE jobs[r]]
        /\ queue' = Enqueued(submitted')
        /\ WakeWorker
        /\ raised' = "none"
  /\ UNCHANGED <<ended, expired, shutdown, current>>

(* get: prunes, and shows the job. *)
Get ==
  /\ jobs' = Pruned
  /\ UNCHANGED <<queue, submitted, ended, expired, shutdown,
                 worker, current, raised>>

(* cancel: ends a waiting job, asks the worker to stop a running one.      *)
Cancel(r) ==
  /\ r \in Kept
  /\ \/ /\ jobs[r].status = "QUEUED"
        /\ ended' = ended + 1
        /\ jobs' = [Pruned EXCEPT
             ![r] = [EndOf(jobs[r], "CANCELLED", ended') EXCEPT !.cancel = TRUE]]
     \/ /\ jobs[r].status = "RUNNING"
        /\ jobs' = [Pruned EXCEPT ![r].status = "CANCEL_REQUESTED",
                                  ![r].cancel = TRUE]
        /\ UNCHANGED ended
     \/ /\ jobs[r].status \notin {"QUEUED", "RUNNING"}
        /\ jobs' = Pruned
        /\ UNCHANGED ended
  /\ UNCHANGED <<queue, submitted, expired, shutdown, worker, current, raised>>

(* shutdown: sets every cancel event, those of ended jobs included, and    *)
(* ends the waiting jobs in the dictionary's order.                        *)
Shutdown ==
  LET waiting == IsIn(jobs, {"QUEUED"})
      number(r) == ended + Cardinality({u \in waiting : u <= r})
  IN  /\ ~shutdown
      /\ shutdown' = TRUE
      /\ jobs' = [r \in DOMAIN jobs |->
           [(CASE jobs[r].status = "QUEUED" ->
                    EndOf(jobs[r], "CANCELLED", number(r))
               [] jobs[r].status \in {"RUNNING", "CANCEL_REQUESTED"} ->
                    [jobs[r] EXCEPT !.status = "CANCEL_REQUESTED"]
               [] OTHER -> jobs[r]) EXCEPT !.cancel = TRUE]]
      /\ ended' = ended + Cardinality(waiting)
      /\ worker' = IF worker = "asleep" THEN "look" ELSE worker
      /\ UNCHANGED <<queue, submitted, expired, current, raised>>

-----------------------------------------------------------------------------
(***************************************************************************)
(* The worker thread: _work.                                               *)
(***************************************************************************)

Rest == Tail(queue)

(* wait_for, and taking the head of the queue: a run that is cancelled or  *)
(* forgotten is skipped.                                                   *)
Look ==
  /\ worker = "look"
  /\ \/ /\ queue = <<>>
        /\ worker' = IF shutdown THEN "ending" ELSE "asleep"
        /\ UNCHANGED <<jobs, queue, current>>
     \/ /\ queue # <<>>
        /\ queue' = Rest
        /\ LET r == Head(queue)
           IN  \/ /\ r \notin IsIn(jobs, Statuses \ {"CANCELLED"})
                  /\ UNCHANGED <<jobs, worker, current>>
               \/ /\ r \in IsIn(jobs, Statuses \ {"CANCELLED"})
                  /\ jobs' = [jobs EXCEPT ![r].status = "RUNNING"]
                  /\ worker' = "run"
                  /\ current' = r
  /\ UNCHANGED <<submitted, ended, expired, shutdown, raised>>

(* _stage: the pipeline reports progress. *)
Stage ==
  /\ worker = "run"
  /\ jobs' = [jobs EXCEPT ![current].stage = "reached"]
  /\ UNCHANGED <<queue, submitted, ended, expired, shutdown,
                 worker, current, raised>>

(* The pipeline returns, raises PipelineCancelled, which it does only      *)
(* after it saw the cancel event, or it or the runtime factory raises      *)
(* another error.                                                          *)
End(status) ==
  /\ ended' = ended + 1
  /\ jobs' = [jobs EXCEPT ![current] = EndOf(@, status, ended')]
  /\ worker' = "close"
  /\ UNCHANGED <<queue, submitted, expired, shutdown, current, raised>>

(* A slip: a result that arrives after the request to stop counts. *)
LateResult == "COMPLETED"

StatusOnReturn == IF jobs[current].cancel THEN "CANCELLED" ELSE "COMPLETED"

PipelineReturns ==
  /\ worker = "run"
  /\ ended' = ended + 1
  /\ jobs' = [jobs EXCEPT ![current] =
       [EndOf(@, StatusOnReturn, ended') EXCEPT !.stage = "FINAL_DECISION"]]
  /\ worker' = "close"
  /\ UNCHANGED <<queue, submitted, expired, shutdown, current, raised>>

PipelineStops ==
  /\ worker = "run"
  /\ jobs[current].cancel
  /\ End("CANCELLED")

PipelineRaises ==
  /\ worker = "run"
  /\ End("FAILED")

(* finally: close the runtime and prune.  If closing raises, the error     *)
(* leaves _work and the thread ends.                                       *)
CloseRuntime ==
  /\ worker = "close"
  /\ current' = 0
  /\ \/ /\ jobs' = Pruned
        /\ worker' = "look"
     \/ /\ CloseMayFail
        /\ worker' = "ending"
        /\ UNCHANGED jobs
  /\ UNCHANGED <<queue, submitted, ended, expired, shutdown, raised>>

(* The thread has left _work, and is_alive() becomes false. *)
ThreadEnds ==
  /\ worker = "ending"
  /\ worker' = "dead"
  /\ UNCHANGED <<jobs, queue, submitted, ended, expired, shutdown,
                 current, raised>>

-----------------------------------------------------------------------------

(* Time passes: of the ended jobs, the oldest end passes its retention.    *)
Expire(r) ==
  /\ r \in IsIn(jobs, Terminal) \ expired
  /\ \A u \in IsIn(jobs, Terminal) \ expired : jobs[r].end <= jobs[u].end
  /\ expired' = expired \cup {r}
  /\ UNCHANGED <<jobs, queue, submitted, ended, shutdown,
                 worker, current, raised>>

(* The server stops taking requests before lifespan calls shutdown; the    *)
(* manager itself does not refuse them.                                    *)
Request ==
  /\ ~shutdown \/ ServesAfterShutdown
  /\ Submit \/ Get \/ (\E r \in Kept : Cancel(r))

Work ==
  Look \/ Stage \/ PipelineReturns \/ PipelineStops \/ PipelineRaises
  \/ CloseRuntime \/ ThreadEnds

(* Nothing is left to do. *)
Stopped ==
  /\ shutdown
  /\ ~ServesAfterShutdown
  /\ worker \in {"none", "dead"}
  /\ UNCHANGED vars

Next ==
  \/ Request
  \/ Shutdown
  \/ Work
  \/ \E r \in DOMAIN jobs : Expire(r)
  \/ Stopped

(* The scheduler runs the worker thread, a run that is asked for progress  *)
(* ends (the providers time out), and a worker that ends is seen as dead.  *)
Fairness ==
  /\ WF_vars(Look)
  /\ WF_vars(PipelineReturns \/ PipelineStops \/ PipelineRaises)
  /\ WF_vars(CloseRuntime)
  /\ WF_vars(ThreadEnds)

Spec == Init /\ [][Next]_vars /\ Fairness

-----------------------------------------------------------------------------
(***************************************************************************)
(* Properties.                                                             *)
(***************************************************************************)

Runs == 1..MaxRuns

(* One worker: a job shows as active exactly while the worker holds it,    *)
(* so never are two of them active, and a job is never left RUNNING by a   *)
(* worker that moved on or ended.                                          *)
ActiveIsCurrent ==
  IsIn(jobs, {"RUNNING", "CANCEL_REQUESTED"}) =
    IF worker = "run" THEN {current} ELSE {}

(* Every job that shows as QUEUED has exactly one place in the queue, in   *)
(* the order of submission, and a run the worker took has none and was     *)
(* submitted before all that wait: nothing is lost, nothing runs twice,    *)
(* and nothing overtakes.  No more runs wait than the manager advertises,  *)
(* nor are more retained than that and the one a submission adds.          *)
WaitingInOrder ==
  /\ Cardinality(IsIn(jobs, {"QUEUED"})) <= MaxQueued
  /\ Cardinality(DOMAIN jobs) <= MaxRetained + 1
  /\ \A r \in IsIn(jobs, {"QUEUED"}) :
       /\ \E k \in 1..Len(queue) : queue[k] = r
       /\ worker = "run" => current < r
  /\ \A k \in 1..Len(queue) :
       /\ \A n \in 1..Len(queue) : k < n => queue[k] < queue[n]
       /\ queue[k] \in DOMAIN jobs =>
            jobs[queue[k]].status \in {"QUEUED", "CANCELLED"}

(* No notification is lost: while a run waits, the worker thread is at     *)
(* work, and it ends before its time only if closing a runtime raised or a *)
(* request came after the shutdown.  A shutdown reaches all: the sleeping  *)
(* worker, every run that waits and the one that runs.                     *)
NoLostWakeup ==
  /\ IsIn(jobs, {"QUEUED"}) # {} =>
       \/ worker \in {"look", "run", "close"}
       \/ worker \in {"ending", "dead"} /\ (CloseMayFail \/ ServesAfterShutdown)
  /\ shutdown => worker # "asleep"
  /\ shutdown /\ ~ServesAfterShutdown => IsIn(jobs, {"QUEUED", "RUNNING"}) = {}

(* There is one worker thread, and it is there when it is needed.          *)
WorkerServes == ActiveIsCurrent /\ NoLostWakeup

(* The queue holds no run that the manager forgot, which is what a         *)
(* submission takes for granted when it counts the waiting jobs.           *)
NoKeyError == raised # "KeyError"

(* A cancellation that was accepted while the job had not ended is kept:   *)
(* from then on the job never shows a result.                              *)
CancelIsKept ==
  [][\A r \in DOMAIN jobs \cap DOMAIN jobs' :
       jobs[r].cancel /\ ~jobs[r].result => ~jobs'[r].result]_vars

StatusOf(r) ==
  IF r \in DOMAIN jobs THEN jobs[r].status
  ELSE IF r <= submitted THEN "expired" ELSE "unknown"

Resource == INSTANCE RunResource WITH status <- [r \in Runs |-> StatusOf(r)]

(* The manager implements the run resource of the API: the states move     *)
(* only as documented, one run is active at a time, and only an ended run  *)
(* is forgotten.                                                           *)
ImplementsResource == Resource!Safety

(* Every accepted run ends, or waits for a worker thread that has ended:   *)
(* no notification is lost and no run is forgotten.  As the server uses    *)
(* the manager, a thread ends early only if closing a runtime raised.      *)
WaitsOnlyForADeadWorker ==
  \A r \in Runs :
    StatusOf(r) = "QUEUED" ~> \/ StatusOf(r) \in Terminal \cup {"expired"}
                              \/ worker = "dead"
=============================================================================
