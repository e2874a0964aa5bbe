------------------------------ MODULE RunResource ------------------------------
(***************************************************************************)
(* What the API promises of the runs it accepts, whatever holds them: each *)
(* run moves through the documented states, one at a time is being worked  *)
(* on, and only a run that has ended is forgotten.                         *)
(***************************************************************************)
EXTENDS Naturals, FiniteSets

CONSTANT Runs  \* the identifiers of the runs that may ever be accepted

VARIABLE status  \* the state of each run, as its resource shows it

Active == {"RUNNING", "CANCEL_REQUESTED"}

Ended == {"COMPLETED", "FAILED", "CANCELLED"}

(* A run that was cancelled in time cannot complete: from CANCEL_REQUESTED *)
(* there is no way to COMPLETED.                                           *)
Moves ==
  {<<"unknown", "QUEUED">>,
   <<"QUEUED", "RUNNING">>,   <<"QUEUED", "CANCELLED">>,
   <<"RUNNING", "COMPLETED">>, <<"RUNNING", "FAILED">>,
   <<"RUNNING", "CANCEL_REQUESTED">>,
   <<"CANCEL_REQUESTED", "CANCELLED">>, <<"CANCEL_REQUESTED", "FAILED">>,
   <<"COMPLETED", "expired">>, <<"FAILED", "expired">>,
   <<"CANCELLED", "expired">>}

Init == status = [r \in Runs |-> "unknown"]

OneActive(s) == \A r, u \in Runs : s[r] \in Active /\ s[u] \in Active => r = u

(* Several runs may move in one step: runs expire while another is         *)
(* accepted, and a shutdown cancels all of them.                           *)
Next ==
  /\ status' = [r \in Runs |-> status'[r]]
  /\ \A r \in Runs : status'[r] # status[r] => <<status[r], status'[r]>> \in Moves
  /\ OneActive(status')

Safety == Init /\ [][Next]_status
=============================================================================
