------------------------------- MODULE BaselineRun -------------------------------
(***************************************************************************)
(* The command "run" of the baselines and the EvaluationRunner under it:   *)
(* live processes and replays plan, predict every example through          *)
(* CachedProvider, and publish a run directory with one rename, or leave   *)
(* an incomplete one behind when they fail or are killed.                  *)
(***************************************************************************)
EXTENDS CachedProvider

CONSTANTS
  Replayers,   \* the processes that may be started with --mode replay
  MaxCrashes   \* how many processes may be killed

VARIABLES
  replays, \* the processes started with --mode replay
  phase,   \* process |-> where _run_baseline is
  dir,     \* process |-> its run directory
  crashes

runVars == <<replays, phase, dir, crashes>>
vars == <<callVars, runVars>>

-----------------------------------------------------------------------------

NoDirectory == [name |-> "none", manifest |-> "none", files |-> {}]

Init ==
  /\ CallsInit
  /\ replays \in SUBSET Replayers
  /\ phase = [p \in Processes |-> "start"]
  /\ dir = [p \in Processes |-> NoDirectory]
  /\ crashes = 0

Enter(p, to) == phase' = [phase EXCEPT ![p] = to]

Uncached == {r \in Requests : cacheFile[r] \in {"none", "corrupt"}}

(* A slip: a replay starts with an incomplete cache. *)
PlanIsAlwaysAccepted(p) == TRUE

(* A replay needs every answer; the cap of a paid run covers every request *)
(* that is not answered.                                                   *)
PlanIsAccepted(p) ==
  /\ p \in replays => Uncached = {}
  /\ p \notin replays /\ provider = "openai" => Cardinality(Uncached) <= MaxCost

(* A live provider may refuse to start: no key, prices that are too old,   *)
(* an Ollama whose version, model or digest is not the configured one.     *)
ProviderRefuses(p) == p \notin replays

(* plan_baseline reads every entry, and moves corrupt ones away; a foreign *)
(* entry raises.                                                           *)
Plan(p) ==
  /\ phase[p] = "start"
  /\ \/ /\ \E r \in Requests : cacheFile[r] = "foreign"
        /\ Enter(p, "refused")
        /\ UNCHANGED cacheFile
     \/ /\ \A r \in Requests : cacheFile[r] # "foreign"
        /\ cacheFile' = [r \in Requests |->
                           IF cacheFile[r] = "corrupt" THEN "none" ELSE cacheFile[r]]
        /\ \/ PlanIsAccepted(p) /\ Enter(p, "planned")
           \/ (~PlanIsAccepted(p) \/ ProviderRefuses(p)) /\ Enter(p, "refused")
  /\ UNCHANGED <<provider, lockFile, exposed, budgetVars, call, replays, dir, crashes>>

(* run(): the incomplete directory with the first manifest. *)
Begin(p) ==
  /\ phase[p] = "planned"
  /\ Enter(p, "predicting")
  /\ dir' = [dir EXCEPT ![p] = [name     |-> "incomplete",
                                manifest |-> "INCOMPLETE",
                                files    |-> {}]]
  /\ UNCHANGED <<callVars, replays, crashes>>

-----------------------------------------------------------------------------

MaxWorkers(p) == IF provider = "openai" /\ p \notin replays THEN Workers[p] ELSE 1

Done(p) == {r \in Requests : At(p, r, "done")}

Waiting(p) == {r \in Requests : At(p, r, "queued")}

Running(p) == Requests \ (Done(p) \cup Waiting(p))

Result(p, r) == call[p][r].result

(* The results come in order: the first fatal one that is reached raises.  *)
Fatal(p) ==
  \E r \in Done(p) : /\ Result(p, r) = "FATAL"
                     /\ \A e \in Requests : e < r => e \in Done(p)

(* The executor hands out the examples in order; a loop without one stops  *)
(* at a fatal result before it takes the next.                             *)
Take(p) ==
  /\ phase[p] = "predicting"
  /\ Cardinality(Running(p)) < MaxWorkers(p)
  /\ MaxWorkers(p) = 1 => ~Fatal(p)
  /\ \E r \in Waiting(p) :
       /\ \A e \in Waiting(p) : r <= e
       /\ Go(p, r, "lookup")
  /\ UNCHANGED <<provider, sharedVars, budgetVars, runVars>>

Predict(p) ==
  /\ phase[p] \in {"predicting", "draining"}
  /\ \E r \in Requests : Complete(p, r, p \in replays)
  /\ UNCHANGED runVars

(* A fatal result: what waits is cancelled, what runs is waited for. *)
Abort(p) ==
  /\ phase[p] = "predicting"
  /\ Fatal(p)
  /\ Enter(p, "draining")
  /\ UNCHANGED <<callVars, replays, dir, crashes>>

(* Slips: the run is published with what it has; a run that failed is too. *)
CollectEarly(p) ==
  /\ phase[p] = "predicting"
  /\ \A r \in Requests : ~At(p, r, "queued")
  /\ Enter(p, "predictions")
  /\ UNCHANGED <<callVars, replays, dir, crashes>>

Collect(p) ==
  /\ phase[p] = "predicting"
  /\ Done(p) = Requests
  /\ ~Fatal(p)
  /\ Enter(p, "predictions")
  /\ UNCHANGED <<callVars, replays, dir, crashes>>

(* The steps that publish, in their order.                                 *)
Write(p) ==
  /\ \/ /\ phase[p] = "predictions"
        /\ dir' = [dir EXCEPT ![p].files = @ \cup {"predictions"}]
        /\ Enter(p, "metrics")
     \/ /\ phase[p] = "metrics"
        /\ dir' = [dir EXCEPT ![p].files = @ \cup {"metrics"}]
        /\ Enter(p, "manifest")
     \/ /\ phase[p] = "manifest"
        /\ dir' = [dir EXCEPT ![p].manifest = "COMPLETE"]
        /\ Enter(p, "rename")
  /\ UNCHANGED <<callVars, replays, crashes>>

Publish(p) ==
  /\ phase[p] = "rename"
  /\ dir' = [dir EXCEPT ![p].name = "final"]
  /\ Enter(p, "published")
  /\ Exit(p)
  /\ UNCHANGED <<provider, sharedVars, call, replays, crashes>>

Publishing == {"predictions", "metrics", "manifest", "rename"}

(* The exception that ends a run: the manifest says FAILED. *)
Fail(p) ==
  /\ dir' = [dir EXCEPT ![p].manifest = "FAILED"]
  /\ Enter(p, "failed")
  /\ Exit(p)
  /\ Forget(p)
  /\ UNCHANGED <<provider, sharedVars, replays, crashes>>

Drained(p) ==
  /\ phase[p] = "draining"
  /\ Running(p) = {}
  /\ Fail(p)

(* A file cannot be written. *)
WriteFails(p) == phase[p] \in Publishing /\ Fail(p)

(* The process is killed.  Its lock files and its directory stay. *)
Crash(p) ==
  /\ crashes < MaxCrashes
  /\ phase[p] \in {"predicting", "draining"} \cup Publishing
  /\ Enter(p, "crashed")
  /\ crashes' = crashes + 1
  /\ Exit(p)
  /\ Forget(p)
  /\ UNCHANGED <<provider, sharedVars, replays, dir>>

Ended == {"refused", "published", "failed", "crashed"}

RunStep(p) ==
  Plan(p) \/ Begin(p) \/ Take(p) \/ Predict(p) \/ Abort(p) \/ Collect(p)
  \/ Drained(p) \/ Write(p) \/ Publish(p)

Over ==
  /\ \A p \in Processes : phase[p] \in Ended
  /\ UNCHANGED vars

Next ==
  \/ \E p \in Processes : RunStep(p) \/ WriteFails(p) \/ Crash(p)
  \/ \E r \in Requests : Age(r) /\ UNCHANGED runVars
  \/ Over

Spec == Init /\ [][Next]_vars
-----------------------------------------------------------------------------
(***************************************************************************)
(* Properties.                                                             *)
(***************************************************************************)

Callers(r) == {p \in Processes : At(p, r, "send") \/ At(p, r, "store")}

(* A request is sent by one process at a time, and not when its answer is  *)
(* in the cache, whoever else runs or was killed: unless its lock was held *)
(* past the stale age, or its entry was corrupt and moved away.            *)
OneCallerPerRequest ==
  \A r \in Requests \ exposed :
    /\ Cardinality(Callers(r)) <= 1
    /\ Callers(r) # {} => cacheFile[r] = "none"

(* "Concurrent identical requests dispatch once": for every request.       *)
DispatchOnce == \A r \in Requests : Cardinality(Callers(r)) <= 1

(* A paid call is sent only if the cap covers it together with everything  *)
(* billed before, failed calls and answers above their estimate included,  *)
(* and everything that is on its way.                                      *)
SpendStaysWithinCap ==
  [][provider = "openai" =>
       \A p \in Processes, r \in Requests :
         At(p, r, "send")' /\ ~At(p, r, "send") =>
           billed[p] + Cardinality({s \in Requests : p \in Callers(s)}) + 1 <= MaxCost]_vars

(* What a run has as its prediction is in the cache for good, so that runs *)
(* agree and a replay that is published misses nothing.                    *)
PredictionsAreReplayable ==
  \A p \in Processes, r \in Requests \ exposed :
    r \in Done(p) =>
      /\ Result(p, r) \in Labels => cacheFile[r] = Result(p, r)
      /\ p \in replays => Result(p, r) \in Labels

(* A directory that has its final name, or a manifest that says COMPLETE,  *)
(* has all of its files and a prediction for every example, none fatal.    *)
PublishedIsWhole ==
  \A p \in Processes :
    /\ dir[p].name = "final" \/ dir[p].manifest = "COMPLETE" =>
         /\ dir[p].manifest = "COMPLETE"
         /\ dir[p].files = {"predictions", "metrics"}
    /\ dir[p].name = "final" =>
         \A r \in Requests : r \in Done(p) /\ Result(p, r) # "FATAL"

(* A process that has not ended can go on by itself: no lock that another  *)
(* one holds, or left behind when it was killed, keeps it waiting.         *)
NoRunIsStuck ==
  \A p \in Processes : phase[p] \notin Ended => ENABLED RunStep(p)

-----------------------------------------------------------------------------

(* What is still to come, from the most to the least decisive: calls that  *)
(* have not had their turn at the lock, locks that may get stale, locks    *)
(* that may be unlinked, phases of the processes, and steps of the calls.  *)
BeforeTheLock == {"queued", "lookup", "quarantine", "lock", "unlink"}

Unserved ==
  {c \in Processes \X Requests :
     phase[c[1]] \notin Ended /\ call[c[1]][c[2]].step \in BeforeTheLock}

Locked(age) == {r \in Requests : lockFile[r] = age}

PhasesLeft(p) ==
  CASE phase[p] \in Ended   -> 0    [] phase[p] = "rename"      -> 1
    [] phase[p] = "manifest" -> 2    [] phase[p] = "metrics"     -> 3
    [] phase[p] = "draining" -> 4    [] phase[p] = "predictions" -> 4
    [] phase[p] = "planned"  -> 6    [] phase[p] = "predicting"  -> 5
    [] phase[p] = "start"    -> 7

(* Without waiting: a waiter that meets a stale lock has two steps more.   *)
StepsFrom(c, lock) ==
  CASE c.step = "done"         -> 0
    [] c.step = "release"      -> 1
    [] c.step = "store"        -> 2
    [] c.step = "send"         -> 2 + (MaxAttempts - c.tries)
    [] c.step = "reserve"      -> MaxAttempts + 3
    [] c.step = "requarantine" -> MaxAttempts + 4
    [] c.step = "recheck"      -> MaxAttempts + 5
    [] c.step = "lock"         -> MaxAttempts + (IF lock = "stale" THEN 8 ELSE 6)
    [] c.step = "unlink"       -> MaxAttempts + 7
    [] c.step = "quarantine"   -> MaxAttempts + 9
    [] c.step = "lookup"       -> MaxAttempts + 10
    [] c.step = "queued"       -> MaxAttempts + 11

StepsLeft(p, r) == StepsFrom(call[p][r], lockFile[r])

Fewer(new, old) == new \subseteq old /\ new # old

APhaseLess ==
  /\ \A p \in Processes : PhasesLeft(p)' <= PhasesLeft(p)
  /\ \E p \in Processes : PhasesLeft(p)' < PhasesLeft(p)

AStepLess ==
  /\ \A p \in Processes, r \in Requests : StepsLeft(p, r)' <= StepsLeft(p, r)
  /\ \E p \in Processes, r \in Requests : StepsLeft(p, r)' < StepsLeft(p, r)

LocksLess ==
  \/ Fewer(Locked("fresh")', Locked("fresh"))
  \/ /\ Locked("fresh")' = Locked("fresh")
     /\ Fewer(Locked("stale")', Locked("stale"))

(* The most decisive part that a step changes has less in it. *)
LessIsLeft ==
  IF Unserved' # Unserved THEN Unserved' \subseteq Unserved
  ELSE IF lockFile' # lockFile THEN LocksLess
  ELSE IF phase' # phase THEN APhaseLess
  ELSE AStepLess

(* Nothing goes on for ever: every step, of whichever process, leaves less *)
(* to do.  So processes that wait for each other's locks, take stale ones  *)
(* away from each other, fail, retry and are killed all come to an end,    *)
(* however they are scheduled.                                             *)
EveryStepLeavesLess == [][LessIsLeft]_vars
=============================================================================
