----------------------------- MODULE MCBaselineRun -----------------------------
(***************************************************************************)
(* A live process with two workers, and one with one worker or a replay,   *)
(* over two requests.                                                      *)
(***************************************************************************)
EXTENDS BaselineRun, TLC

CONSTANTS a, b

MCRequests == 1..2
MCProcesses == {a, b}
MCReplayers == {b}
MCLabels == {"TRUE"}
MCWorkers == (a :> 2) @@ (b :> 1)
=============================================================================
