----------------------------- MODULE CachedProvider -----------------------------
(***************************************************************************)
(* The path of a baseline request: predictor, response cache, lock file,   *)
(* budget, circuit breaker, retries, provider.  Several processes share    *)
(* the cache directory; each has its own budget and circuit breaker.       *)
(*                                                                         *)
(* A request is its cache key.  Costs are counted in worst cases: a call   *)
(* is reserved as 1 and billed 1, or 2 when the estimate was too low.      *)
(***************************************************************************)
EXTENDS Naturals, FiniteSets

CONSTANTS
  Requests,     \* the requests of a pilot, 1..N in its order
  Processes,    \* processes that share the cache directory
  Labels,       \* what an answer can say, "REFUSAL" among it
  Workers,      \* process |-> provider.concurrency, for an OpenAI configuration
  MaxAttempts,  \* retry.max_attempts
  Threshold,    \* retry.circuit_breaker_threshold
  MaxCost       \* the cost cap

(* Answers are told from errors and from what a cache file may be instead. *)
ASSUME ProviderAssumption ==
  /\ IsFiniteSet(Requests)
  /\ Labels \cap {"none", "corrupt", "foreign", "ERROR", "FATAL"} = {}
  /\ MaxAttempts \in Nat \ {0} /\ Threshold \in Nat /\ MaxCost \in Nat

VARIABLES
  provider,   \* "openai" or "ollama"
  cacheFile,  \* request |-> what its cache file holds
  lockFile,   \* request |-> its lock file
  call,       \* process |-> request |-> the call of complete()
  committed,  \* process |-> its BudgetGuard._committed
  reserved,   \* process |-> its BudgetGuard._reserved
  failures,   \* process |-> its breaker's _consecutive_failures
  billed,     \* process |-> what its calls may be billed, retries left out
  exposed     \* requests whose lock got stale, or whose entry was corrupt

sharedVars == <<cacheFile, lockFile, exposed>>
budgetVars == <<committed, reserved, failures, billed>>
callVars == <<provider, sharedVars, budgetVars, call>>

-----------------------------------------------------------------------------

Results == Labels \cup {"ERROR", "FATAL"}

Queued == [step |-> "queued", tries |-> 0, result |-> "none"]

CallsInit ==
  /\ provider \in {"openai", "ollama"}
  /\ cacheFile \in [Requests -> Labels \cup {"none", "corrupt", "foreign"}]
  /\ lockFile = [r \in Requests |-> "free"]
  /\ call = [p \in Processes |-> [r \in Requests |-> Queued]]
  /\ committed = [p \in Processes |-> 0]
  /\ reserved = [p \in Processes |-> 0]
  /\ failures = [p \in Processes |-> 0]
  /\ billed = [p \in Processes |-> 0]
  /\ exposed = {r \in Requests : cacheFile[r] = "corrupt"}

At(p, r, step) == call[p][r].step = step

Go(p, r, step) == call' = [call EXCEPT ![p][r].step = step]

(* complete() has its result: at once, or once the lock is released.       *)
Finish(p, r, step, result) ==
  call' = [call EXCEPT ![p][r] = [step |-> step, tries |-> 0, result |-> result]]

-----------------------------------------------------------------------------
(***************************************************************************)
(* ResponseCache.read: without the lock, then again when it is held.       *)
(***************************************************************************)

Read(p, r, corrupt, missing, end) ==
  /\ \/ /\ cacheFile[r] = "none"
        /\ missing
     \/ /\ cacheFile[r] = "corrupt"
        /\ Go(p, r, corrupt)
     \/ /\ cacheFile[r] = "foreign"       \* CacheMetadataMismatch
        /\ Finish(p, r, end, "ERROR")
     \/ /\ cacheFile[r] \in Labels
        /\ Finish(p, r, end, cacheFile[r])
  /\ UNCHANGED <<provider, sharedVars, budgetVars>>

(* os.replace moves away whatever is at the path by now. *)
Quarantine(p, r, missing) ==
  /\ cacheFile' = [cacheFile EXCEPT ![r] = "none"]
  /\ missing
  /\ UNCHANGED <<provider, lockFile, exposed, budgetVars>>

(* Only a replay has no live provider behind it; it raises ReplayCacheMiss. *)
Missed(p, r, replay) ==
  IF replay THEN Finish(p, r, "done", "ERROR") ELSE Go(p, r, "lock")

FirstRead(p, r, replay) ==
  /\ At(p, r, "lookup")
  /\ Read(p, r, "quarantine", Missed(p, r, replay), "done")

FirstQuarantine(p, r, replay) ==
  /\ At(p, r, "quarantine")
  /\ Quarantine(p, r, Missed(p, r, replay))

(* A slip: the cache is not read again under the lock. *)
NoSecondRead(p, r) ==
  /\ At(p, r, "recheck")
  /\ Go(p, r, "reserve")
  /\ UNCHANGED <<provider, sharedVars, budgetVars>>

SecondRead(p, r) ==
  /\ At(p, r, "recheck")
  /\ Read(p, r, "requarantine", Go(p, r, "reserve"), "release")

SecondQuarantine(p, r) ==
  /\ At(p, r, "requarantine")
  /\ Quarantine(p, r, Go(p, r, "reserve"))

-----------------------------------------------------------------------------
(***************************************************************************)
(* ResponseCache.lock: a file that is created exclusively.  A waiter gives *)
(* up after timeout_seconds, and removes a lock older than                 *)
(* stale_after_seconds, which it looks at and then unlinks.                *)
(***************************************************************************)

SetLock(r, to) == lockFile' = [lockFile EXCEPT ![r] = to]

Lock(p, r) ==
  /\ At(p, r, "lock")
  /\ \/ /\ lockFile[r] = "free"
        /\ SetLock(r, "fresh")
        /\ Go(p, r, "recheck")
     \/ /\ lockFile[r] = "stale"
        /\ Go(p, r, "unlink")
        /\ UNCHANGED lockFile
  /\ UNCHANGED <<provider, cacheFile, exposed, budgetVars>>

(* A slip: a waiter waits as long as it takes. *)
NeverTimesOut(p, r) == FALSE /\ callVars' = callVars

LockTimesOut(p, r) ==
  /\ At(p, r, "lock")
  /\ lockFile[r] = "fresh"
  /\ Finish(p, r, "done", "ERROR")
  /\ UNCHANGED <<provider, sharedVars, budgetVars>>

(* A slip: the unlinking fails, and the waiter looks again at once. *)
UnlinkFails(p, r) ==
  /\ At(p, r, "unlink")
  /\ Go(p, r, "lock")
  /\ UNCHANGED <<provider, sharedVars, budgetVars>>

UnlinkStale(p, r) ==
  /\ At(p, r, "unlink")
  /\ SetLock(r, "free")
  /\ Go(p, r, "lock")
  /\ UNCHANGED <<provider, cacheFile, exposed, budgetVars>>

(* The finally clause unlinks the file, whoever created it. *)
Release(p, r) ==
  /\ At(p, r, "release")
  /\ SetLock(r, "free")
  /\ Go(p, r, "done")
  /\ UNCHANGED <<provider, cacheFile, exposed, budgetVars>>

(* The lock of a call that lasts, or of a process that is gone. *)
Age(r) ==
  /\ lockFile[r] = "fresh"
  /\ SetLock(r, "stale")
  /\ exposed' = exposed \cup {r}
  /\ UNCHANGED <<provider, cacheFile, budgetVars, call>>

-----------------------------------------------------------------------------
(***************************************************************************)
(* Under the lock: the budget, the circuit breaker, the attempts.          *)
(***************************************************************************)

WithinCap(p) == provider = "openai" => committed[p] + reserved[p] + 1 <= MaxCost

(* BudgetGuard.reserve, then the breaker's check.  The reservation of a    *)
(* call that the breaker refuses is kept, as any other is that fails.      *)
Reserve(p, r) ==
  /\ At(p, r, "reserve")
  /\ \/ /\ ~WithinCap(p)                  \* BudgetExceededError
        /\ Finish(p, r, "release", "FATAL")
        /\ UNCHANGED reserved
     \/ /\ WithinCap(p)
        /\ reserved' = [reserved EXCEPT ![p] = @ + IF provider = "openai" THEN 1 ELSE 0]
        /\ IF failures[p] >= Threshold    \* CircuitBreakerOpen
           THEN Finish(p, r, "release", "FATAL")
           ELSE Go(p, r, "send")
  /\ UNCHANGED <<provider, sharedVars, committed, failures, billed>>

(* How an attempt fails, and the class of the error it raises: tried       *)
(* again, counted by the breaker, or the end of the run.                   *)
OpenAIFailures ==
  [unauthorized |-> "fatal",     rejected    |-> "fatal",
   unreachable  |-> "transient", rate_limit  |-> "transient",
   server_error |-> "transient", other_error |-> "fatal",
   unreadable   |-> "invalid",   incomplete  |-> "invalid",
   not_parsed   |-> "invalid"]

(* Without refusals.  After an answer the device it ran on is asked for,   *)
(* and not being told is an error of the configuration.                    *)
OllamaFailures ==
  [other_request |-> "fatal",    rejected    |-> "fatal",
   unreachable  |-> "transient", server_error |-> "transient",
   not_json     |-> "invalid",   other_schema |-> "invalid",
   incomplete   |-> "invalid",   other_model |-> "invalid",
   thinking     |-> "invalid",   not_parsed  |-> "invalid"]

DeviceFailures ==
  [unreachable |-> "fatal", not_json |-> "invalid", other_schema |-> "fatal",
   not_loaded  |-> "fatal", other_device |-> "fatal"]

Classes(failed) == {failed[e] : e \in DOMAIN failed}

Failures == IF provider = "openai" THEN Classes(OpenAIFailures)
            ELSE Classes(OllamaFailures) \cup Classes(DeviceFailures)

Answers == IF provider = "openai" THEN Labels ELSE Labels \ {"REFUSAL"}

Exhausted(c, f) ==
  f = "invalid" \/ (f = "transient" /\ c.tries + 1 = MaxAttempts)

Bill(p, cost) ==
  billed' = [billed EXCEPT ![p] = @ + IF provider = "openai" THEN cost ELSE 0]

Fails(p, r, f) ==
  LET c == call[p][r]
  IN  \/ /\ f = "transient"
         /\ c.tries + 1 < MaxAttempts
         /\ call' = [call EXCEPT ![p][r].tries = @ + 1]
         /\ UNCHANGED <<failures, billed>>
      \/ /\ Exhausted(c, f)
         /\ failures' = [failures EXCEPT ![p] = @ + 1]
         /\ Bill(p, 1)
         /\ Finish(p, r, "release",
                   IF failures[p] + 1 >= Threshold THEN "FATAL" ELSE "ERROR")
      \/ /\ f = "fatal"
         /\ Bill(p, 1)
         /\ Finish(p, r, "release", "FATAL")
         /\ UNCHANGED failures

Attempt(p, r) ==
  /\ At(p, r, "send")
  /\ \/ \E f \in Failures : Fails(p, r, f)
     \/ \E a \in Answers :
          /\ Finish(p, r, "store", a)
          /\ failures' = [failures EXCEPT ![p] = 0]
          /\ UNCHANGED billed
  /\ UNCHANGED <<provider, sharedVars, committed, reserved>>

(* A slip: what was reserved is committed, not what was billed.            *)
SettleReserved(p, cost) ==
  IF provider = "ollama" THEN UNCHANGED <<committed, reserved>>
  ELSE /\ committed' = [committed EXCEPT ![p] = @ + 1]
       /\ reserved' = [reserved EXCEPT ![p] = @ - 1]

(* BudgetGuard.settle. *)
Settle(p, cost) ==
  IF provider = "ollama" THEN UNCHANGED <<committed, reserved>>
  ELSE /\ committed' = [committed EXCEPT ![p] = @ + cost]
       /\ reserved' = [reserved EXCEPT ![p] = @ - 1]

(* An answer is kept even when it goes over the cap.  Writing may fail.    *)
Store(p, r) ==
  /\ At(p, r, "store")
  /\ \E cost \in IF provider = "openai" THEN {1, 2} ELSE {1} :
       /\ Settle(p, cost)
       /\ Bill(p, cost)
       /\ \/ /\ cacheFile' = [cacheFile EXCEPT ![r] = call[p][r].result]
             /\ IF committed'[p] > MaxCost
                THEN Finish(p, r, "release", "FATAL")
                ELSE Go(p, r, "release")
          \/ /\ Finish(p, r, "release", "ERROR")
             /\ UNCHANGED cacheFile
  /\ UNCHANGED <<provider, lockFile, exposed, failures>>

(* The memory of a process that is over; what it answered is in its files. *)
Exit(p) ==
  /\ committed' = [committed EXCEPT ![p] = 0]
  /\ reserved' = [reserved EXCEPT ![p] = 0]
  /\ failures' = [failures EXCEPT ![p] = 0]
  /\ billed' = [billed EXCEPT ![p] = 0]

Forget(p) == call' = [call EXCEPT ![p] = [r \in Requests |-> Queued]]

(* CachedProvider.complete, as LLMBaselinePredictor.predict calls it. *)
Complete(p, r, replay) ==
  \/ FirstRead(p, r, replay) \/ FirstQuarantine(p, r, replay)
  \/ Lock(p, r) \/ LockTimesOut(p, r) \/ UnlinkStale(p, r)
  \/ SecondRead(p, r) \/ SecondQuarantine(p, r)
  \/ Reserve(p, r) \/ Attempt(p, r) \/ Store(p, r) \/ Release(p, r)
=============================================================================
